--------------------------- MODULE GcHeapProofs ---------------------------
(***************************************************************************)
(* Proofs about GcHeap, for any number of objects, any stack and table     *)
(* size and any coroutine nesting: HeapInv is inductive, hence the heap    *)
(* never holds a dangling reference that Lua code or the collector can     *)
(* follow.                                                                 *)
(***************************************************************************)
EXTENDS GcHeap, SequenceTheorems, CountLemmas

\* HeapInv with a witness set that contains X as well: what is not reachable
\* but has to be kept, the userdata that waits for its finalizer.
HeapInvWith(X) ==
    /\ TypeOK
    /\ ChainOK
    /\ KindsOK
    /\ MarkingOK
    /\ \E S \in SUBSET alloc : X \subseteq S /\ Witness(S)

\* What mark_value marks without listing it, following it at once.
InPlace == UData \cup Upval

\* The initial heap is safe: the globals and the main thread, both empty.
LEMMA InitHeapInv == Init => HeapInvWith({})
<1> SUFFICES ASSUME Init PROVE HeapInvWith({})
  OBVIOUS
<1>1. TypeOK
  BY KindsAssumption DEF Init, TypeOK, Obj, Colors, GcStates, LastPool, Listed
<1>2. ChainOK
  BY DEF Init, ChainOK
<1>3. KindsOK
  BY KindsAssumption DEF Init, KindsOK, CellsOK, Obj
<1>4. MarkingOK
  BY DEF Init, MarkingOK, Marking
<1>5. Witness({Globals, Main})
  BY KindsAssumption DEF Init, Witness, Closed, Roots, Active, SweepOK, Lists, Obj
<1> QED
  BY <1>1, <1>2, <1>3, <1>4, <1>5 DEF HeapInvWith, Init

\* The running thread, and everything Lua code holds, is in the witness set.
LEMMA RunningHeld ==
    ASSUME TypeOK, NEW S, Witness(S)
    PROVE  /\ Running \in Thread
           /\ Running \in S
           /\ refs[Running] \subseteq S
           /\ Held \subseteq S
<1>1. Len(chain) \in 1 .. Len(chain)
  BY DEF TypeOK
<1>2. Running \in Thread /\ Running \in Active
  BY <1>1 DEF TypeOK, Running, Active
<1> QED
  BY <1>2 DEF Witness, Closed, Roots, Held

\* The threads being run stay linked when only the running stack shrinks.
LEMMA ChainKept ==
    ASSUME TypeOK, ChainOK, UNCHANGED chain,
           \A o \in Active \ {Running} : refs[o] \subseteq refs'[o]
    PROVE  ChainOK'
<1>1. Len(chain) \in Nat /\ Len(chain) \in 1 .. Len(chain)
  BY DEF TypeOK
<1>2. ASSUME NEW i \in 1 .. Len(chain) - 1
      PROVE  chain[i + 1] \in refs'[chain[i]]
  <2>1. i \in 1 .. Len(chain) /\ i # Len(chain)
    BY <1>1
  <2>2. chain[i] \in Active \ {Running}
    BY <1>1, <2>1 DEF ChainOK, Active, Running
  <2> QED
    BY <2>2 DEF ChainOK
<1> QED
  BY <1>2 DEF ChainOK

---------------------------------------------------------------------------
(* Mutator *)

\* Rewriting one stack within the witness set disturbs neither marking (a
\* marked thread waits on a list) nor the sweep.
LEMMA StackStep ==
    ASSUME TypeOK, KindsOK, MarkingOK, NEW S \in SUBSET alloc, Witness(S),
           NEW th \in Thread, th \in S, NEW C \in SUBSET S,
           refs' = [refs EXCEPT ![th] = C], Roots' \subseteq S,
           UNCHANGED <<alloc, markVars, gcState, cw, sweepVars>>
    PROVE  KindsOK' /\ MarkingOK' /\ Witness(S)'
<1> USE KindsAssumption
<1>1. KindsOK'
  BY DEF TypeOK, KindsOK, CellsOK, Obj
<1>2. MarkingOK'
  BY DEF TypeOK, MarkingOK, Marking, Lists, Strong, markVars, Obj
<1>3. Witness(S)'
  BY DEF TypeOK, Witness, Closed, Lists, SweepOK, Unswept, Rank, Alive, IsDead,
         White, markVars, sweepVars, Obj
<1> QED
  BY <1>1, <1>2, <1>3

\* Reading an entry of a held table adds to the stack only what was already
\* reachable.
LEMMA LoadPreserves ==
    ASSUME NEW X, HeapInvWith(X), NEW t \in Table, NEW v \in Obj, Load(t, v)
    PROVE  HeapInvWith(X)'
<1> USE KindsAssumption
<1>0. TypeOK /\ ChainOK /\ KindsOK /\ MarkingOK
  BY DEF HeapInvWith
<1>a. PICK S \in SUBSET alloc : X \subseteq S /\ Witness(S)
  BY DEF HeapInvWith
<1>b. Running \in Thread /\ Running \in S /\ refs[Running] \subseteq S /\ Held \subseteq S
  BY <1>0, <1>a, RunningHeld
<1>c. refs[Running] \cup {v} \subseteq S
  BY <1>a, <1>b DEF Load, Witness, Closed
<1>1. TypeOK'
  BY <1>0, <1>b DEF Load, TypeOK, markVars, sweepVars, Obj
<1>2. ChainOK'
  <2>1. \A o \in Active \ {Running} : refs[o] \subseteq refs'[o]
    BY <1>0, <1>b DEF Load, TypeOK, Obj
  <2> QED
    BY <1>0, <2>1, ChainKept DEF Load
<1>3. KindsOK' /\ MarkingOK' /\ Witness(S)'
  <2>1. Roots' \subseteq S
    BY <1>a DEF Load, Witness, Closed, Roots, Active
  <2> QED
    BY <1>0, <1>a, <1>b, <1>c, <2>1, StackStep DEF Load
<1> QED
  BY <1>1, <1>2, <1>3, <1>a DEF HeapInvWith, Load

\* Dropping a stack value only shrinks what is reachable; a resumed coroutine
\* stays on its resumer's stack, which is not the running one.
LEMMA DropPreserves ==
    ASSUME NEW X, HeapInvWith(X), NEW v \in Obj, Drop(v)
    PROVE  HeapInvWith(X)'
<1> USE KindsAssumption
<1>0. TypeOK /\ ChainOK /\ KindsOK /\ MarkingOK
  BY DEF HeapInvWith
<1>a. PICK S \in SUBSET alloc : X \subseteq S /\ Witness(S)
  BY DEF HeapInvWith
<1>b. Running \in Thread /\ Running \in S /\ refs[Running] \subseteq S
  BY <1>0, <1>a, RunningHeld
<1>1. TypeOK'
  BY <1>0, <1>b DEF Drop, TypeOK, markVars, sweepVars, Obj
<1>2. ChainOK'
  <2>1. \A o \in Active \ {Running} : refs[o] \subseteq refs'[o]
    BY <1>0, <1>b DEF Drop, TypeOK, Obj
  <2> QED
    BY <1>0, <2>1, ChainKept DEF Drop
<1>3. KindsOK' /\ MarkingOK' /\ Witness(S)'
  <2>1. Roots' \subseteq S
    BY <1>a DEF Drop, Witness, Closed, Roots, Active
  <2>2. refs[Running] \ {v} \in SUBSET S
    BY <1>b
  <2> QED
    BY <1>0, <1>a, <1>b, <2>1, <2>2, StackStep DEF Drop
<1> QED
  BY <1>1, <1>2, <1>3, <1>a DEF HeapInvWith, Drop

\* A resume copies a held value to a thread, which the marker never leaves
\* black, and makes a held coroutine the running one.
LEMMA ResumePreserves ==
    ASSUME NEW X, HeapInvWith(X), NEW c \in Thread, NEW v \in Obj, Resume(c, v)
    PROVE  HeapInvWith(X)'
<1> USE KindsAssumption
<1>0. TypeOK /\ ChainOK /\ KindsOK /\ MarkingOK
  BY DEF HeapInvWith
<1>a. PICK S \in SUBSET alloc : X \subseteq S /\ Witness(S)
  BY DEF HeapInvWith
<1>b. Running \in Thread /\ Running \in S /\ refs[Running] \subseteq S
  BY <1>0, <1>a, RunningHeld
<1>c. c \in S /\ v \in S /\ refs[c] \cup {v} \subseteq S
  BY <1>a, <1>b DEF Resume, Witness, Closed
<1>d. /\ Len(chain) \in Nat /\ Len(chain) > 0
      /\ chain' \in Seq(Thread) /\ Len(chain') = Len(chain) + 1
      /\ \A i \in 1 .. Len(chain) : chain'[i] = chain[i]
      /\ chain'[Len(chain) + 1] = c
  BY <1>0, AppendProperties DEF Resume, TypeOK
<1>1. TypeOK'
  BY <1>0, <1>c, <1>d DEF Resume, TypeOK, markVars, sweepVars, Obj
<1>2. ChainOK'
  <2>1. ASSUME NEW i \in 1 .. Len(chain'), NEW j \in 1 .. Len(chain'), chain'[i] = chain'[j]
        PROVE  i = j
    BY <1>0, <1>d, <2>1 DEF Resume, Active, ChainOK
  <2>2. ASSUME NEW i \in 1 .. Len(chain') - 1
        PROVE  chain'[i + 1] \in refs'[chain'[i]]
    <3>1. chain[i] \in Active /\ chain[i] # c /\ chain[i] \in Obj
      BY <1>0, <1>d DEF Active, Resume, TypeOK, Obj
    <3>2. refs'[chain[i]] = refs[chain[i]]
      BY <1>0, <3>1 DEF Resume, TypeOK
    <3>3. chain'[i] = chain[i]
      BY <1>d
    <3>4. CASE i = Len(chain)
      BY <1>d, <3>2, <3>3, <3>4 DEF Resume, Running
    <3>5. CASE i # Len(chain)
      BY <1>0, <1>d, <3>2, <3>3, <3>5 DEF ChainOK
    <3> QED
      BY <3>4, <3>5
  <2> QED
    BY <2>1, <2>2 DEF ChainOK
<1>3. KindsOK' /\ MarkingOK' /\ Witness(S)'
  <2>1. Roots' \subseteq S
    <3>1. \A i \in 1 .. Len(chain) : chain[i] \in S
      BY <1>a DEF Witness, Closed, Roots, Active
    <3>2. \A i \in 1 .. Len(chain') : chain'[i] \in S
      BY <1>c, <1>d, <3>1
    <3> QED
      BY <1>a, <3>2 DEF Witness, Closed, Roots, Active
  <2> QED
    BY <1>0, <1>a, <1>b, <1>c, <2>1, StackStep DEF Resume
<1> QED
  BY <1>1, <1>2, <1>3, <1>a DEF HeapInvWith, Resume

\* A yield copies a held value to the resumer's stack, which is on a gray
\* list whenever it is marked.
LEMMA YieldPreserves ==
    ASSUME NEW X, HeapInvWith(X), NEW v \in Obj, Yield(v)
    PROVE  HeapInvWith(X)'
<1> USE KindsAssumption
<1>0. TypeOK /\ ChainOK /\ KindsOK /\ MarkingOK
  BY DEF HeapInvWith
<1>a. PICK S \in SUBSET alloc : X \subseteq S /\ Witness(S)
  BY DEF HeapInvWith
<1> DEFINE n == Len(chain) - 1
           th == chain[n]
<1>b. /\ n \in Nat /\ n \in 1 .. Len(chain) /\ n < Len(chain)
      /\ chain' \in Seq(Thread) /\ Len(chain') = n
      /\ \A i \in 1 .. n : chain'[i] = chain[i]
  BY <1>0, SubSeqProperties DEF Yield, TypeOK
<1>c. th \in Thread /\ th \in S /\ refs[th] \subseteq S
  BY <1>0, <1>a, <1>b DEF TypeOK, Witness, Closed, Roots, Active
<1>d. refs[Running] \subseteq S
  BY <1>0, <1>a, RunningHeld
<1>e. refs[th] \cup {v} \subseteq S
  BY <1>c, <1>d DEF Yield
<1>f. refs' = [refs EXCEPT ![th] = refs[th] \cup {v}]
  BY DEF Yield
<1> HIDE DEF n, th
<1>1. TypeOK'
  BY <1>0, <1>b, <1>c, <1>f DEF Yield, TypeOK, markVars, sweepVars, Obj
<1>2. ChainOK'
  <2>1. \A i \in 1 .. n - 1 : chain[i + 1] \in refs'[chain[i]]
    BY <1>0, <1>b, <1>c, <1>f DEF ChainOK, TypeOK, Obj
  <2>2. ASSUME NEW i \in 1 .. Len(chain'), NEW j \in 1 .. Len(chain'), chain'[i] = chain'[j]
        PROVE  i = j
    BY <1>0, <1>b, <2>2 DEF ChainOK
  <2>3. ASSUME NEW i \in 1 .. Len(chain') - 1
        PROVE  chain'[i + 1] \in refs'[chain'[i]]
    BY <1>b, <2>1
  <2> QED
    BY <2>2, <2>3 DEF ChainOK
<1>3. KindsOK' /\ MarkingOK' /\ Witness(S)'
  <2>1. Roots' \subseteq S
    BY <1>a, <1>b DEF Witness, Closed, Roots, Active
  <2> QED
    BY <1>0, <1>a, <1>c, <1>e, <1>f, <2>1, StackStep DEF Yield
<1> QED
  BY <1>1, <1>2, <1>3, <1>a DEF HeapInvWith, Yield

\* A table store with its barriers: barrier_back re-lists a scanned table,
\* F is what barrier_fwd newly marked.
LEMMA StoreStep ==
    ASSUME TypeOK, KindsOK, MarkingOK, NEW S \in SUBSET alloc, Witness(S),
           NEW t \in Table, t \in S, NEW C \in SUBSET S,
           NEW F \in SUBSET S, F \cap marked = {}, F # {} => BarrierOn,
           \A u \in F \cap InPlace : refs[u] \subseteq marked \cup F,
           refs' = [refs EXCEPT ![t] = C], Barriers(t, F), CellsOK',
           UNCHANGED <<alloc, gcState, cw, sweepVars, chain>>
    PROVE  KindsOK' /\ MarkingOK' /\ Witness(S)'
<1> USE KindsAssumption
<1>0. F \subseteq Obj /\ t \in Obj
  BY DEF TypeOK, Obj
<1>1. KindsOK'
  BY DEF TypeOK, KindsOK, Obj
<1>2. Witness(S)'
  <2>1. Closed(S)'
    BY DEF TypeOK, Witness, Closed, Roots, Active, Obj
  <2>2. (marked \cup Lists \cup gcweak \subseteq S)'
    BY DEF Witness, Lists, Barriers, Push
  <2>3. SweepOK(S)'
    BY <1>0 DEF TypeOK, Witness, SweepOK, Unswept, Rank, Alive, IsDead, White,
                Barriers, BarrierHit, sweepVars
  <2> QED
    BY <2>1, <2>2, <2>3 DEF Witness
<1>3. MarkingOK'
  <2> SUFFICES ASSUME Marking
               PROVE  MarkingOK'
    BY DEF MarkingOK, Marking
  <2>1. Lists \subseteq Lists' /\ marked' = marked \cup F /\ UNCHANGED gcweak
    BY DEF Lists, Barriers, Push
  <2>2. F \cap Listed \subseteq Lists'
    BY DEF Lists, Barriers, Push
  <2>3. F \subseteq Listed \cup Str \cup InPlace
    BY <1>0 DEF InPlace, Obj, Listed
  <2>4. t \in marked => t \in Lists'
    <3>1. CASE color[t] = "B"
      BY <3>1 DEF Marking, Barriers, BarrierHit, BarrierOn, Push, Lists
    <3>2. CASE color[t] # "B"
      BY <2>1, <3>2 DEF MarkingOK
    <3> QED
      BY <3>1, <3>2
  <2>5. ASSUME NEW o \in marked' \ Lists'
        PROVE  \/ o \in Str
               \/ o \in F \cap InPlace
               \/ /\ o # t /\ o \in marked \ Lists
                  /\ refs'[o] = refs[o] /\ color'[o] = color[o]
    <3>1. CASE o \in F
      BY <2>2, <2>3, <3>1
    <3>2. CASE o \notin F
      <4>1. o \in marked \ Lists /\ o # t /\ o \in Obj
        BY <2>1, <2>4, <2>5, <3>2 DEF TypeOK
      <4> QED
        BY <4>1, <3>2 DEF Barriers, TypeOK
    <3> QED
      BY <3>1, <3>2
  <2>6. \A o \in Str : Strong(o)' = {} /\ o \notin Table /\ o \notin Thread /\ o \notin Weak
    BY <1>1 DEF KindsOK, Strong
  <2>7. \A o \in F \cap InPlace : /\ Strong(o)' \subseteq marked'
                                /\ o \notin Table /\ o \notin Thread /\ o \notin Weak
    <3>1. \A o \in F \cap InPlace : o # t /\ refs'[o] = refs[o]
      BY <1>0 DEF TypeOK, InPlace
    <3> QED
      BY <2>1, <3>1 DEF Strong, InPlace
  <2> QED
    BY <2>1, <2>5, <2>6, <2>7 DEF MarkingOK, Marking, Strong
<1> QED
  BY <1>1, <1>2, <1>3

\* A table store keeps the variables' types and the resume chain.
LEMMA StoreTypes ==
    ASSUME TypeOK, NEW t \in Table, NEW C \in SUBSET Obj, NEW F \in SUBSET Obj,
           refs' = [refs EXCEPT ![t] = C], Barriers(t, F),
           UNCHANGED <<alloc, gcState, cw, sweepVars, full, chain>>
    PROVE  TypeOK'
<1>1. t \in Obj /\ t \in Listed
  BY DEF Obj, Listed
<1>2. color' \in [Obj -> Colors] /\ marked' \subseteq Obj
  BY DEF TypeOK, Barriers, Colors
<1>3. (gray \subseteq Listed)' /\ (grayagain \subseteq Listed)' /\ (gcweak \subseteq Weak)'
  BY <1>1 DEF TypeOK, Barriers, Push, Listed
<1>4. refs' \in [Obj -> SUBSET Obj]
  BY <1>1 DEF TypeOK
<1> QED
  BY <1>2, <1>3, <1>4 DEF TypeOK, sweepVars

\* N is V and what its cells and userdata refer to, without what m holds.
Follows(N, V, m, S) ==
    /\ N \in SUBSET S /\ N \cap m = {}
    /\ V \subseteq m \cup N
    /\ \A u \in N \cap InPlace : refs[u] \subseteq m \cup N

\* mark_value on values of the heap: it marks those that are unmarked, the
\* values of the cells and the metatables of the userdata among them, nothing
\* twice.
LEMMA MarkValuesFollows ==
    ASSUME KindsOK, NEW S \in SUBSET alloc, Witness(S), NEW V \in SUBSET S, NEW m
    PROVE  Follows(MarkValues(V, m), V, m, S)
<1> USE KindsAssumption
<1>2. PICK N : N = MarkValues(V, m)
  OBVIOUS
<1>1. \A u \in V \cap Upval : refs[u] \subseteq S /\ refs[u] \cap Upval = {}
  BY DEF KindsOK, CellsOK, Witness, Closed
<1>3. PICK V1 :
        /\ \A x : x \in V1 <=> x \notin m /\ (x \in V \/ \E u \in (V \ m) \cap Upval : x \in refs[u])
        /\ \A x : x \in N <=> x \in V1 \/ (x \notin m /\ \E u \in V1 \cap UData : x \in refs[u])
  <2>1. PICK W : W = UNION {refs[u] : u \in (V \cap Upval) \ m}
    OBVIOUS
  <2>2. PICK V1 : V1 = (V \cup W) \ m
    OBVIOUS
  <2>3. PICK V2 : V2 = (UNION {refs[u] : u \in V1 \cap UData}) \ m
    OBVIOUS
  <2>4. N = V1 \cup V2
    BY <1>2, <2>1, <2>2, <2>3 DEF MarkValues
  <2>5. \A x : x \in W <=> \E u \in (V \ m) \cap Upval : x \in refs[u]
    BY <2>1
  <2>6. \A x : x \in V2 <=> x \notin m /\ \E u \in V1 \cap UData : x \in refs[u]
    BY <2>3
  <2> QED
    BY <2>2, <2>4, <2>5, <2>6
<1>4. \A u \in UData \cap S : refs[u] \subseteq Table \cap S
  BY DEF KindsOK, Witness, Closed
<1>5. V1 \in SUBSET S /\ V1 \cap Upval \subseteq V \ m
  BY <1>1, <1>3
<1>6. N \in SUBSET S /\ N \cap UData \subseteq V1 /\ N \cap Upval \subseteq V1
  BY <1>3, <1>4, <1>5
<1>7. \A u \in N \cap InPlace : refs[u] \subseteq m \cup N
  <2>1. \A u \in N \cap Upval : refs[u] \subseteq m \cup N
    BY <1>3, <1>5, <1>6
  <2>2. \A u \in N \cap UData : refs[u] \subseteq m \cup N
    BY <1>3, <1>6
  <2> QED
    BY <2>1, <2>2 DEF InPlace
<1>8. V \subseteq m \cup N /\ N \cap m = {}
  BY <1>3
<1> QED
  BY <1>2, <1>6, <1>7, <1>8 DEF Follows

\* barrier_fwd marks reachable objects only, and nothing outside a cycle.
LEMMA FwdMarksValue ==
    ASSUME KindsOK, NEW S \in SUBSET alloc, Witness(S), NEW v \in S
    PROVE  /\ FwdMarks(v) \in SUBSET S /\ FwdMarks(v) \cap marked = {}
           /\ FwdMarks(v) # {} => BarrierOn
           /\ \A u \in FwdMarks(v) \cap InPlace : refs[u] \subseteq marked \cup FwdMarks(v)
<1>1. CASE BarrierOn
  <2>1. FwdMarks(v) = MarkValues({v}, marked)
    BY <1>1 DEF FwdMarks
  <2>2. {v} \in SUBSET S
    OBVIOUS
  <2>3. Follows(MarkValues({v}, marked), {v}, marked, S)
    BY <2>2, MarkValuesFollows
  <2> QED
    BY <1>1, <2>1, <2>3 DEF Follows
<1>2. CASE ~BarrierOn
  BY <1>2 DEF FwdMarks
<1> QED
  BY <1>1, <1>2

\* The table stores, raw (barrier_back), through the API (both barriers) and
\* of nil.
LEMMA StoresPreserve ==
    ASSUME NEW X, HeapInvWith(X), NEW t \in Table, NEW v \in Obj,
           Store(t, v) \/ StoreApi(t, v) \/ Remove(t, v), CellsOK'
    PROVE  HeapInvWith(X)'
<1> USE KindsAssumption
<1>0. TypeOK /\ ChainOK /\ KindsOK /\ MarkingOK
  BY DEF HeapInvWith
<1>a. PICK S \in SUBSET alloc : X \subseteq S /\ Witness(S)
  BY DEF HeapInvWith
<1>b. refs[Running] \subseteq S /\ Held \subseteq S
  BY <1>0, <1>a, RunningHeld
<1>c. t \in S /\ v \in S /\ refs[t] \subseteq S
  BY <1>a, <1>b DEF Store, StoreApi, Remove, CanStore, Witness, Closed
<1>d. PICK C \in SUBSET S, F \in SUBSET S :
         /\ F \cap marked = {} /\ (F # {} => BarrierOn)
         /\ \A u \in F \cap InPlace : refs[u] \subseteq marked \cup F
         /\ refs' = [refs EXCEPT ![t] = C] /\ Barriers(t, F)
  <2>1. CASE Store(t, v)
    <3>1. refs[t] \cup {v} \in SUBSET S /\ {} \in SUBSET S
      BY <1>c
    <3> QED
      BY <2>1, <3>1 DEF Store
  <2>2. CASE StoreApi(t, v)
    <3>1. refs[t] \cup {v} \in SUBSET S /\ FwdMarks(v) \in SUBSET S
      BY <1>0, <1>a, <1>c, FwdMarksValue
    <3>2. /\ FwdMarks(v) \cap marked = {} /\ (FwdMarks(v) # {} => BarrierOn)
          /\ \A u \in FwdMarks(v) \cap InPlace : refs[u] \subseteq marked \cup FwdMarks(v)
      BY <1>0, <1>a, <1>c, FwdMarksValue
    <3> QED
      BY <2>2, <3>1, <3>2 DEF StoreApi
  <2>3. CASE Remove(t, v)
    <3>1. refs[t] \ {v} \in SUBSET S /\ {} \in SUBSET S
      BY <1>c
    <3> QED
      BY <2>3, <3>1 DEF Remove
  <2> QED
    BY <2>1, <2>2, <2>3
<1>e. UNCHANGED <<alloc, gcState, cw, sweepVars, full, chain>>
  BY DEF Store, StoreApi, Remove
<1>f. C \in SUBSET Obj /\ F \in SUBSET Obj
  BY <1>0 DEF TypeOK
<1>1. TypeOK'
  BY <1>0, <1>d, <1>e, <1>f, StoreTypes
<1>2. ChainOK'
  <2>1. \A o \in Active \ {Running} : refs[o] \subseteq refs'[o]
    BY <1>0, <1>d DEF TypeOK, Obj, Active
  <2> QED
    BY <1>0, <1>e, <2>1, ChainKept
<1>3. KindsOK' /\ MarkingOK' /\ Witness(S)'
  BY <1>0, <1>a, <1>c, <1>d, <1>e, StoreStep
<1> QED
  BY <1>1, <1>2, <1>3, <1>e, <1>a DEF HeapInvWith

\* Allocation: the fresh objects of F join the witness set.  They are unmarked
\* and carry the current white, so the running cycle keeps them.
LEMMA AllocStep ==
    ASSUME NEW X, TypeOK, ChainOK, KindsOK, MarkingOK,
           NEW S \in SUBSET alloc, X \subseteq S, Witness(S),
           NEW F \in SUBSET (Obj \ alloc), alloc' = alloc \cup F,
           color' \in [Obj -> Colors], marked' = marked \ F,
           \A x \in F : color'[x] = White(cw),
           \A x \in Obj \ F : color'[x] = color[x],
           refs' \in [Obj -> SUBSET Obj],
           \A x \in F : refs'[x] \subseteq S \cup F,
           refs[Running] \subseteq refs'[Running], refs'[Running] \subseteq S \cup F,
           \A x \in Obj \ (F \cup {Running}) : refs'[x] = refs[x],
           KindsOK', UNCHANGED <<gcState, cw, gray, grayagain, gcweak, pool, swept, full, chain>>
    PROVE  HeapInvWith(X)'
<1> USE KindsAssumption
<1>b. Running \in Thread /\ Running \in S /\ refs[Running] \subseteq S
  BY RunningHeld
<1>c. F \cap S = {} /\ Running \notin F /\ F \cap marked = {} /\ F \cap Lists = {}
  BY <1>b DEF Witness
<1>f. marked' = marked
  BY <1>c
<1>1. TypeOK'
  BY <1>f DEF TypeOK
<1>2. ChainOK'
  <2>1. \A x \in Active \ {Running} : refs[x] \subseteq refs'[x]
    <3>1. \A x \in Active : x \in S /\ x \in Obj
      BY DEF TypeOK, Witness, Closed, Roots
    <3> QED
      BY <1>c, <3>1
  <2> QED
    BY <2>1, ChainKept
<1>4. MarkingOK'
  <2>1. Marking' = Marking /\ Lists' = Lists
    BY DEF Marking, Lists
  <2>2. \A x \in marked : x \in Obj /\ x \notin F
    BY <1>c DEF TypeOK
  <2>3. Marking => \A x \in marked \ Lists : x # Running
    BY <1>b DEF MarkingOK
  <2>4. Marking => \A x \in marked \ Lists : Strong(x)' = Strong(x) /\ color'[x] = color[x]
    BY <2>2, <2>3 DEF Strong
  <2> QED
    BY <1>f, <2>1, <2>4 DEF MarkingOK
<1>5. PICK T : T = S \cup F
  OBVIOUS
<1>6. Witness(T)'
  <2>1. Closed(T)'
    <3>1. Roots' = Roots
      BY DEF Roots, Active
    <3>2. \A x \in S : x \in Obj /\ refs[x] \subseteq S
      BY DEF Witness, Closed, TypeOK
    <3> QED
      BY <1>5, <1>c, <3>1, <3>2 DEF Witness, Closed
  <2>2. (marked \cup Lists \cup gcweak)' \subseteq T
    BY <1>5, <1>f DEF Witness, Lists
  <2>3. SweepOK(T)'
    <3>1. ASSUME gcState = "Sweep"
          PROVE  /\ \A x \in F : Alive(x)'
                 /\ \A x \in S : Unswept(x)' => Alive(x)'
      <4>1. \A x \in F : Alive(x)'
        BY DEF TypeOK, Alive, IsDead, White
      <4>2. \A x \in S : x \in Obj \ F /\ (Unswept(x)' <=> Unswept(x))
        BY <1>c DEF TypeOK, Unswept
      <4>3. \A x \in S : Alive(x) => Alive(x)'
        BY <1>f, <4>2 DEF Alive, IsDead
      <4> QED
        BY <3>1, <4>1, <4>2, <4>3 DEF Witness, SweepOK
    <3> QED
      BY <1>5, <3>1 DEF Witness, SweepOK
  <2> QED
    BY <2>1, <2>2, <2>3 DEF Witness
<1>7. T \in SUBSET alloc' /\ X \subseteq T
  BY <1>5
<1> QED
  BY <1>1, <1>2, <1>4, <1>6, <1>7 DEF HeapInvWith

\* Allocation of one object with its initial contents.
LEMMA NewPreserves ==
    ASSUME NEW X, HeapInvWith(X), NEW o \in Table \cup Thread \cup Str \cup Func,
           NEW C, New(o, C), o \notin Func => C = {}
    PROVE  HeapInvWith(X)'
<1> USE KindsAssumption
<1>0. TypeOK /\ ChainOK /\ KindsOK /\ MarkingOK
  BY DEF HeapInvWith
<1>a. PICK S \in SUBSET alloc : X \subseteq S /\ Witness(S)
  BY DEF HeapInvWith
<1>b. Running \in Thread /\ Running \in S /\ refs[Running] \subseteq S /\ Held \subseteq S
  BY <1>0, <1>a, RunningHeld
<1>c. PICK F \in SUBSET (Obj \ alloc) : F = {o} /\ o \in Obj /\ o # Running
  <2>1. o \in Obj \ alloc /\ o # Running
    BY <1>a, <1>b DEF New
  <2>2. {o} \in SUBSET (Obj \ alloc)
    BY <2>1
  <2> QED
    BY <2>1, <2>2
<1>d. C \subseteq S /\ C \subseteq Obj
  BY <1>0, <1>b DEF New, TypeOK
<1>e. /\ refs' \in [Obj -> SUBSET Obj]
      /\ refs'[o] = C /\ refs'[Running] = refs[Running] \cup {o}
      /\ \A x \in Obj \ {o, Running} : refs'[x] = refs[x]
  BY <1>0, <1>b, <1>c, <1>d DEF New, TypeOK, Obj
<1>f. /\ color' \in [Obj -> Colors] /\ \A x \in F : color'[x] = White(cw)
      /\ \A x \in Obj \ F : color'[x] = color[x]
      /\ marked' = marked \ F /\ alloc' = alloc \cup F
  BY <1>0, <1>c DEF New, TypeOK, Colors, White
<1>g. /\ \A x \in F : refs'[x] \subseteq S \cup F
      /\ refs[Running] \subseteq refs'[Running] /\ refs'[Running] \subseteq S \cup F
      /\ \A x \in Obj \ (F \cup {Running}) : refs'[x] = refs[x]
  BY <1>b, <1>c, <1>d, <1>e
<1>h. UNCHANGED <<gcState, cw, gray, grayagain, gcweak, pool, swept, full, chain>>
  BY DEF New
<1>3. KindsOK'
  BY <1>0, <1>b, <1>c, <1>e DEF New, KindsOK, CellsOK, Obj
<1> QED
  BY <1>0, <1>a, <1>3, <1>e, <1>f, <1>g, <1>h, AllocStep

\* Interning an existing string: even a dead one is safe to hand out, since
\* it is marked before the sweep reaches it.
LEMMA InternHitPreserves ==
    ASSUME NEW X, HeapInvWith(X), NEW s \in Str, InternHit(s)
    PROVE  HeapInvWith(X)'
<1> USE KindsAssumption
<1>0. TypeOK /\ ChainOK /\ KindsOK /\ MarkingOK
  BY DEF HeapInvWith
<1>a. PICK S \in SUBSET alloc : X \subseteq S /\ Witness(S)
  BY DEF HeapInvWith
<1>b. Running \in Thread /\ Running \in S /\ refs[Running] \subseteq S
  BY <1>0, <1>a, RunningHeld
<1>c. s \in Obj /\ s # Running /\ s \in alloc /\ refs[s] = {}
  BY <1>0, <1>b DEF InternHit, KindsOK, Obj
<1>e. /\ refs' \in [Obj -> SUBSET Obj]
      /\ refs'[Running] = refs[Running] \cup {s}
      /\ \A x \in Obj \ {Running} : refs'[x] = refs[x]
  BY <1>0, <1>b, <1>c DEF InternHit, TypeOK, Obj
<1>f. /\ color' \in [Obj -> Colors]
      /\ \A x \in Obj \ {s} : color'[x] = color[x]
      /\ marked' = marked \cup {s}
  BY <1>0, <1>c DEF InternHit, TypeOK, Colors
<1>1. TypeOK'
  BY <1>0, <1>c, <1>e, <1>f DEF InternHit, TypeOK
<1>2. ChainOK'
  <2>1. \A x \in Active \ {Running} : refs[x] \subseteq refs'[x]
    BY <1>0, <1>e DEF TypeOK, Active, Obj
  <2> QED
    BY <1>0, <2>1, ChainKept DEF InternHit
<1>3. KindsOK'
  BY <1>0, <1>b, <1>e DEF InternHit, KindsOK, CellsOK, Obj
<1>4. MarkingOK'
  <2>1. \A o \in marked' \ Lists' : o = s \/ (o \in marked \ Lists /\ o \in Obj)
    BY <1>0, <1>f DEF InternHit, Lists, TypeOK
  <2>2. Strong(s)' = {} /\ s \notin Table /\ s \notin Thread /\ s \notin Weak
    BY <1>3 DEF KindsOK, Strong
  <2>3. UNCHANGED gcweak /\ Marking' = Marking /\ Lists' = Lists
    BY DEF InternHit, Marking, Lists
  <2>4. Marking => \A o \in marked \ Lists : o # Running
    BY <1>0, <1>b DEF MarkingOK
  <2>5. ASSUME Marking, NEW o \in marked \ Lists, o # s, o \in Obj
        PROVE  Strong(o)' = Strong(o) /\ color'[o] = color[o]
    BY <1>e, <1>f, <2>4, <2>5 DEF Strong
  <2> QED
    BY <1>0, <1>f, <2>1, <2>2, <2>3, <2>5 DEF MarkingOK
<1>5. Witness(S \cup {s})'
  <2>1. Closed(S \cup {s})'
    <3>1. Roots' = Roots
      BY DEF InternHit, Roots, Active
    <3>2. \A x \in S : x \in Obj /\ refs[x] \subseteq S
      BY <1>0, <1>a DEF Witness, Closed, TypeOK
    <3> QED
      BY <1>a, <1>b, <1>c, <1>e, <3>1, <3>2 DEF Witness, Closed
  <2>2. (marked \cup Lists \cup gcweak)' \subseteq S \cup {s}
    BY <1>a, <1>f DEF InternHit, Witness, Lists
  <2>3. SweepOK(S \cup {s})'
    <3>1. ASSUME gcState = "Sweep", NEW x \in S \cup {s}, Unswept(x)'
          PROVE  Alive(x)'
      <4>1. CASE x = s
        BY <1>f, <4>1 DEF Alive
      <4>2. CASE x # s
        BY <1>0, <1>a, <1>f, <3>1, <4>2
           DEF InternHit, TypeOK, Witness, SweepOK, Unswept, Alive, IsDead
      <4> QED
        BY <4>1, <4>2
    <3> QED
      BY <1>a, <3>1 DEF InternHit, Witness, SweepOK
  <2> QED
    BY <2>1, <2>2, <2>3 DEF Witness
<1> QED
  BY <1>1, <1>2, <1>3, <1>4, <1>5, <1>a, <1>c DEF HeapInvWith, InternHit

---------------------------------------------------------------------------
(* Collector *)

\* Opening a cycle from any state, an abandoned cycle included: the old
\* marks and the old gray list no longer matter.
LEMMA BeginCyclePreserves ==
    ASSUME NEW X, HeapInvWith(X), BeginCycle, full' \in {"no", "drain", "run"}
    PROVE  HeapInvWith(X)'
<1> USE KindsAssumption
<1>0. TypeOK /\ ChainOK /\ KindsOK /\ MarkingOK
  BY DEF HeapInvWith
<1>a. PICK S \in SUBSET alloc : X \subseteq S /\ Witness(S)
  BY DEF HeapInvWith
<1>b. Running \in Thread /\ Running \in S
  BY <1>0, <1>a, RunningHeld
<1>c. Globals \in S /\ Main \in S
  <2>1. 1 \in 1 .. Len(chain)
    BY <1>0 DEF TypeOK
  <2> QED
    BY <1>0, <1>a, <2>1 DEF TypeOK, Witness, Closed, Roots, Active
<1> DEFINE R == {Globals, Main, Running}
<1>d. R \subseteq Listed /\ R \subseteq Obj /\ R \subseteq S
  BY <1>b, <1>c DEF Listed, Obj
<1>e. /\ marked' = (marked \cap Str) \cup R /\ gray' = R
      /\ color' = [o \in Obj |-> IF o \in R THEN "B" ELSE color[o]]
      /\ gcState' = "Propagate" /\ cw' = 1 - cw
      /\ UNCHANGED <<alloc, refs, grayagain, gcweak, pool, swept, chain>>
  BY DEF BeginCycle, MarksKept, sweepVars
<1> HIDE DEF R
<1>1. TypeOK'
  BY <1>0, <1>d, <1>e DEF TypeOK, Colors, GcStates
<1>2. ChainOK'
  BY <1>0, <1>e DEF ChainOK
<1>3. KindsOK'
  BY <1>0, <1>e DEF KindsOK, CellsOK
<1>4. MarkingOK'
  <2>1. Globals \in marked' /\ Main \in marked'
    BY <1>e DEF R
  <2>2. \A o \in marked' \ Lists' : o \in Str
    BY <1>e DEF Lists
  <2>3. \A o \in Str : Strong(o)' = {} /\ o \notin Table /\ o \notin Thread /\ o \notin Weak
    BY <1>3 DEF KindsOK, Strong
  <2> QED
    BY <2>1, <2>2, <2>3 DEF MarkingOK
<1>5. Witness(S)'
  BY <1>a, <1>d, <1>e DEF Witness, Closed, Roots, Active, Lists, SweepOK
<1> QED
  BY <1>1, <1>2, <1>3, <1>4, <1>5, <1>a, <1>e DEF HeapInvWith

\* One object of the mark phase: it becomes black with marked children, or
\* gray and listed again if it is a thread.
LEMMA PropagateOnePreserves ==
    ASSUME NEW X, HeapInvWith(X), NEW g \in Obj, PropagateOne(g)
    PROVE  HeapInvWith(X)'
<1> USE KindsAssumption
<1>0. TypeOK /\ ChainOK /\ KindsOK /\ MarkingOK
  BY DEF HeapInvWith
<1>a. PICK S \in SUBSET alloc : X \subseteq S /\ Witness(S)
  BY DEF HeapInvWith
<1>b. g \in S /\ Strong(g) \subseteq S
  BY <1>a DEF PropagateOne, Witness, Closed, Lists, Strong
<1> DEFINE N == MarkValues(Strong(g), marked \cup {g})
<1>c. /\ N \subseteq S /\ N \cap (marked \cup {g}) = {}
      /\ Strong(g) \subseteq marked \cup {g} \cup N
      /\ \A u \in N \cap InPlace : refs[u] \subseteq marked \cup {g} \cup N
  <2>1. Strong(g) \in SUBSET S
    BY <1>b
  <2>2. Follows(N, Strong(g), marked \cup {g}, S)
    BY <1>0, <1>a, <2>1, MarkValuesFollows
  <2> QED
    BY <2>2 DEF Follows
<1>d. /\ gcState = "Propagate" /\ g \in gray
      /\ marked' = marked \cup {g} \cup N
      /\ color' = [o \in Obj |->
            IF o \in N THEN "B"
            ELSE IF o \in {g} \cap Thread THEN "G"
            ELSE IF o = g THEN "B" ELSE color[o]]
      /\ gray' = (gray \ {g}) \cup (N \cap Listed)
      /\ grayagain' = grayagain \cup ({g} \cap Thread)
      /\ gcweak' = gcweak \cup ({g} \cap Weak)
      /\ gcState' \in {"Propagate", "Atomic"}
      /\ UNCHANGED <<alloc, refs, cw, pool, swept, full, chain>>
  BY DEF PropagateOne, Rescanned, sweepVars
<1> HIDE DEF N
<1>e. /\ N \subseteq S /\ N \subseteq Obj /\ g \notin N
      /\ N \subseteq Listed \cup Str \cup InPlace
  <2>1. N \subseteq S /\ N \subseteq Obj /\ g \notin N
    BY <1>0, <1>c DEF TypeOK
  <2> QED
    BY <2>1 DEF InPlace, Listed, Obj
<1>1. TypeOK'
  BY <1>0, <1>d, <1>e DEF TypeOK, Colors, GcStates, Listed
<1>2. ChainOK'
  BY <1>0, <1>d DEF ChainOK
<1>3. KindsOK'
  BY <1>0, <1>d DEF KindsOK, CellsOK
<1>4. MarkingOK'
  <2>1. Marking
    BY <1>d DEF Marking
  <2>2. ASSUME NEW o \in marked' \ Lists'
        PROVE  \/ o = g /\ g \notin Thread
               \/ o \in Str
               \/ o \in N \cap InPlace
               \/ o \in marked \ Lists /\ o \notin N /\ o # g
    BY <1>d, <1>e DEF Lists
  <2>3. \A o \in Str : Strong(o)' = {} /\ o \notin Table /\ o \notin Thread /\ o \notin Weak
    BY <1>3 DEF KindsOK, Strong
  <2>4. \A o \in Obj : Strong(o)' = Strong(o)
    BY <1>d DEF Strong
  <2>5. g \in Table => color'[g] = "B"
    BY <1>d, <1>e
  <2>6. Strong(g) \subseteq marked' /\ (g \in Weak => g \in gcweak')
    BY <1>c, <1>d DEF Strong
  <2>9. \A o \in N \cap InPlace : /\ Strong(o)' \subseteq marked'
                                /\ o \notin Table /\ o \notin Thread /\ o \notin Weak
    BY <1>c, <1>d DEF Strong, InPlace
  <2>7. \A o \in marked \ Lists : o \notin N /\ o # g =>
            /\ Strong(o)' \subseteq marked'
            /\ o \in Table => color'[o] = "B"
            /\ o \notin Thread
            /\ o \in Weak => o \in gcweak'
    <3>1. \A o \in marked : o \in Obj
      BY <1>0 DEF TypeOK
    <3> QED
      BY <1>0, <1>d, <2>1, <2>4, <3>1 DEF MarkingOK
  <2>8. Globals \in marked' /\ Main \in marked'
    BY <1>0, <1>d, <2>1 DEF MarkingOK
  <2> QED
    BY <2>2, <2>3, <2>4, <2>5, <2>6, <2>7, <2>8, <2>9 DEF MarkingOK
<1>5. Witness(S)'
  BY <1>a, <1>b, <1>d, <1>e DEF Witness, Closed, Roots, Active, Lists, SweepOK
<1> QED
  BY <1>1, <1>2, <1>3, <1>4, <1>5, <1>a, <1>d DEF HeapInvWith

\* What Marker::propagate marks: closed under strong references to unmarked
\* objects, and contained in any such set.
LEMMA NewMarksLeast ==
    ASSUME NEW G, NEW m
    PROVE  /\ NewMarks(G, m) \subseteq Obj \ m
           /\ \A o \in G \cup NewMarks(G, m) :
                 Strong(o) \cap (Obj \ m) \subseteq NewMarks(G, m)
           /\ \A S \in SUBSET (Obj \ m) :
                 (\A o \in G \cup S : Strong(o) \cap (Obj \ m) \subseteq S)
                 => NewMarks(G, m) \subseteq S
<1> DEFINE U == Obj \ m
           Holds(S) == \A o \in G \cup S : Strong(o) \cap U \subseteq S
           N == NewMarks(G, m)
<1>1. N = {o \in U : \A S \in SUBSET U : Holds(S) => o \in S}
  BY DEF NewMarks
<1> HIDE DEF N
<1>2. ASSUME NEW o \in G \cup N, NEW x \in Strong(o) \cap U
      PROVE  x \in N
  <2>1. ASSUME NEW S \in SUBSET U, Holds(S)
        PROVE  x \in S
    <3>1. o \in G \cup S
      BY <1>1, <2>1
    <3> QED
      BY <2>1, <3>1
  <2> QED
    BY <1>1, <2>1
<1>3. ASSUME NEW S \in SUBSET U, Holds(S)
      PROVE  N \subseteq S
  BY <1>1, <1>3
<1>4. N \subseteq U
  BY <1>1
<1> QED
  BY <1>2, <1>3, <1>4 DEF N

\* The end of the atomic phase: what is marked is closed under the remaining
\* references, so the marked objects and the userdata set aside are the new
\* witness set and the sweep may free everything else that is old.
LEMMA AtomicFinishStep ==
    ASSUME TypeOK, ChainOK, KindsOK, MarkingOK, gcState = "Atomic",
           NEW S \in SUBSET alloc, Witness(S), NEW N \in SUBSET S,
           \A o \in Lists \cup N : Strong(o) \subseteq marked \cup N,
           NEW undead \in SUBSET (alloc \cap UData),
           \A u \in undead : refs[u] \subseteq marked \cup N,
           NEW fin, AtomicFinish(N, undead, fin),
           \A t \in WeakSeen(N), v \in Obj : v \in refs'[t] => ~Misjudged(v, marked'),
           NEW X, X \subseteq marked' \cup undead
    PROVE  HeapInvWith(X)'
<1> USE KindsAssumption
<1> DEFINE done == Lists \cup N
           weak == WeakSeen(N)
           kept == UNION {refs[t] \cap Str : t \in weak}
           M == marked \cup N \cup kept
<1>b. /\ marked' = M
      /\ color' = [o \in Obj |->
              IF o \in (Thread \cap done) \cup undead THEN "G"
              ELSE IF o \in N \cup kept THEN "B" ELSE color[o]]
      /\ refs' = [o \in Obj |->
              IF o \in weak
              THEN {v \in refs[o] : ~MayClear(v, marked \cup N, fin)}
              ELSE refs[o]]
      /\ gray' = {} /\ grayagain' = {} /\ gcweak' = {}
      /\ gcState' = "Sweep" /\ pool' = 1 /\ swept' = {}
      /\ UNCHANGED <<alloc, cw, full, chain>>
  BY DEF AtomicFinish, Lists
<1>w. weak = gcweak \cup (done \cap Weak)
  BY DEF WeakSeen, Lists
<1>e. weak \subseteq S /\ weak \subseteq Weak /\ kept \subseteq S /\ kept \subseteq Str
  BY <1>w DEF Witness, Closed, TypeOK
<1>f. M \subseteq S /\ M \subseteq alloc /\ M \subseteq Obj
  BY <1>e DEF Witness, TypeOK
<1> HIDE DEF kept, weak
<1>1. TypeOK'
  BY <1>b, <1>f DEF TypeOK, Colors, GcStates, LastPool
<1>2. \A o \in Obj : o \notin weak => refs'[o] = refs[o]
  BY <1>b
<1>3. ChainOK'
  <2>1. \A o \in Active \ {Running} : refs[o] \subseteq refs'[o]
    BY <1>2, <1>e DEF TypeOK, Active, Obj
  <2> QED
    BY <1>b, <2>1, ChainKept
<1>4. KindsOK'
  BY <1>b, <1>2, <1>e DEF KindsOK, CellsOK, Obj
<1>5. MarkingOK'
  BY <1>b DEF MarkingOK, Marking
<1>6. ASSUME NEW o \in M \cup undead, o \notin Weak
      PROVE  refs'[o] \subseteq M
  <2>0. o \in Obj
    BY <1>f DEF Obj
  <2>1. refs'[o] = refs[o] /\ Strong(o) = refs[o] /\ refs[o] \subseteq Obj
    BY <1>2, <1>e, <1>6, <2>0 DEF Strong, TypeOK
  <2>2. CASE o \in kept
    BY <1>e, <2>1, <2>2 DEF KindsOK
  <2>3. CASE o \in Lists \cup N
    BY <2>1, <2>3
  <2>4. CASE o \in marked \ Lists
    BY <2>1, <2>4 DEF MarkingOK, Marking
  <2>5. CASE o \in undead
    BY <2>1, <2>5
  <2> QED
    BY <2>2, <2>3, <2>4, <2>5
<1>l. PICK late : late = {v \in UData \ M : \E t \in weak : v \in refs'[t]}
  OBVIOUS
<1>m. ASSUME NEW v \in late
      PROVE  /\ v \in UData /\ v \in Obj /\ v \in S
             /\ ~IsDead(color[v]) /\ color[v] # "B" /\ refs[v] \subseteq M
  <2>1. PICK t \in weak : v \in refs'[t]
    BY <1>l, <1>m
  <2>2. v \in UData \ M /\ v \in Obj
    BY <1>l, <1>m DEF Obj
  <2>3. t \in S /\ t \in Obj /\ v \in refs[t] /\ ~MayClear(v, marked \cup N, fin)
    BY <1>b, <1>e, <2>1 DEF Obj
  <2>4. ~IsDead(color[v])
    BY <2>2, <2>3 DEF MayClear
  <2>5. ~Misjudged(v, M)
    BY <1>b, <2>1, <2>2 DEF weak
  <2> QED
    BY <2>2, <2>3, <2>4, <2>5 DEF Misjudged, Witness, Closed
<1>7. ASSUME NEW o \in M, o \in Weak
      PROVE  refs'[o] \subseteq M \cup late
  <2>1. o \in weak
    <3>1. o \notin kept
      BY <1>e, <1>7
    <3>2. CASE o \in done
      BY <1>7, <1>w, <3>2
    <3>3. CASE o \in marked \ Lists
      BY <1>7, <1>w, <3>3 DEF MarkingOK, Marking
    <3> QED
      BY <3>1, <3>2, <3>3
  <2>2. ASSUME NEW v \in refs'[o]
        PROVE  v \in M \cup late
    <3>1. v \in refs[o] /\ ~MayClear(v, marked \cup N, fin)
      BY <1>b, <1>f, <2>1, <2>2
    <3>2. v \in S /\ v \in Obj
      BY <1>f, <3>1 DEF Witness, Closed, TypeOK
    <3>3. v \in Str => v \in kept
      BY <2>1, <3>1 DEF kept
    <3>4. v \notin Upval
      BY <1>7, <3>1, <3>2 DEF KindsOK, CellsOK
    <3>5. v \in UData => v \in M \cup late
      BY <1>l, <2>1, <2>2
    <3> QED
      BY <3>1, <3>2, <3>3, <3>4, <3>5 DEF MayClear, Obj
  <2> QED
    BY <2>2
<1>8. Roots' \subseteq M
  <2> DEFINE J == {i \in Nat : i \in 1 .. Len(chain) /\ chain[i] \notin M}
  <2>1. J = {}
    <3>1. SUFFICES ASSUME J # {} PROVE FALSE
      OBVIOUS
    <3>2. PICK k \in J : \A j \in J : ~(j < k)
      <4>1. J \in SUBSET Nat
        OBVIOUS
      <4> HIDE DEF J
      <4> QED
        BY <3>1, <4>1, LeastIndex
    <3>3. Len(chain) \in Nat /\ k # 1
      BY <3>2 DEF TypeOK, MarkingOK, Marking
    <3>4. k - 1 \in 1 .. Len(chain) - 1 /\ k - 1 \in 1 .. Len(chain) /\ k - 1 \notin J
      BY <3>2, <3>3
    <3>5. chain[k - 1] \in M /\ chain[k] \in refs[chain[k - 1]]
      <4>1. (k - 1) + 1 = k
        BY <3>2
      <4> QED
        BY <3>3, <3>4, <4>1 DEF ChainOK
    <3>6. chain[k - 1] \in Thread
      BY <3>4 DEF TypeOK
    <3>7. chain[k] \in M
      <4>1. chain[k - 1] \notin Weak /\ chain[k - 1] \in Obj
        BY <3>6 DEF Obj
      <4>2. refs'[chain[k - 1]] = refs[chain[k - 1]]
        BY <1>2, <1>e, <4>1
      <4> QED
        BY <1>6, <3>5, <4>1, <4>2
    <3> QED
      BY <3>2, <3>7
  <2>2. \A i \in 1 .. Len(chain) : chain[i] \in M
    <3>1. Len(chain) \in Nat
      BY DEF TypeOK
    <3> QED
      BY <2>1, <3>1
  <2>3. Globals \in M
    BY DEF MarkingOK, Marking
  <2> QED
    BY <1>b, <2>2, <2>3 DEF Roots, Active
<1>9. PICK T \in SUBSET alloc : T = M \cup undead \cup late
  BY <1>f, <1>m
<1>10. Witness(T)'
  <2>1. Closed(T)'
    <3>1. \A o \in late : refs'[o] \subseteq M
      BY <1>2, <1>e, <1>m
    <3>2. \A o \in undead : o \notin Weak
      OBVIOUS
    <3> QED
      BY <1>6, <1>7, <1>8, <1>9, <3>1, <3>2 DEF Closed
  <2>2. \A o \in T : Alive(o)'
    <3>1. \A o \in undead : o \in Obj
      BY DEF Obj
    <3>2. \A o \in undead : color'[o] = "G"
      BY <1>b, <3>1
    <3>3. ASSUME NEW o \in late, o \notin undead
          PROVE  color'[o] = color[o] /\ cw' = cw
      <4>1. o \in Obj /\ o \notin M /\ o \notin Thread
        BY <1>l, <1>m, <3>3
      <4> QED
        BY <1>b, <3>3, <4>1
    <3>4. \A o \in late \ undead : Alive(o)'
      BY <1>m, <3>3 DEF Alive, IsDead
    <3> QED
      BY <1>b, <1>9, <3>2, <3>4 DEF Alive, IsDead, White
  <2>3. SweepOK(T)'
    BY <1>b, <2>2 DEF SweepOK
  <2> QED
    BY <1>b, <1>9, <2>1, <2>3 DEF Witness, Lists
<1>11. T \in SUBSET alloc' /\ X \subseteq T
  BY <1>b, <1>9
<1> QED
  BY <1>1, <1>3, <1>4, <1>5, <1>10, <1>11 DEF HeapInvWith

\* Propagation to the end from lists and marks within a closed set stays in it
\* and leaves no strong child of what it went through unmarked.
LEMMA NewMarksWithin ==
    ASSUME NEW S, \A o \in S : refs[o] \subseteq S,
           NEW G \in SUBSET S, NEW m
    PROVE  /\ NewMarks(G, m) \subseteq S
           /\ \A o \in G \cup NewMarks(G, m) :
                 Strong(o) \cap Obj \subseteq m \cup NewMarks(G, m)
<1> DEFINE N == NewMarks(G, m)
<1>1. \A o \in G \cup N : Strong(o) \cap (Obj \ m) \subseteq N
  BY NewMarksLeast
<1>2. N \subseteq Obj \ m
  BY NewMarksLeast
<1>3. PICK T \in SUBSET (Obj \ m) : T = S \cap (Obj \ m)
  OBVIOUS
<1>4. \A o \in G \cup T : Strong(o) \cap (Obj \ m) \subseteq T
  BY <1>3 DEF Strong
<1>5. (\A o \in G \cup T : Strong(o) \cap (Obj \ m) \subseteq T) => N \subseteq T
  BY NewMarksLeast
<1> HIDE DEF N
<1>6. N \subseteq S
  BY <1>3, <1>4, <1>5
<1>7. \A o \in G \cup N : Strong(o) \cap Obj \subseteq m \cup N
  BY <1>1
<1> QED
  BY <1>6, <1>7 DEF N

\* The atomic phase without userdata to finalize.
LEMMA AtomicPhasePreserves ==
    ASSUME HeapInvWith({}), alloc \cap UData = {}, AtomicPhase
    PROVE  HeapInvWith({})'
<1>0. TypeOK /\ ChainOK /\ KindsOK /\ MarkingOK
  BY DEF HeapInvWith
<1>a. PICK S \in SUBSET alloc : Witness(S)
  BY DEF HeapInvWith
<1>1. PICK N : N = NewMarks(Lists, marked)
  OBVIOUS
<1>2. gcState = "Atomic" /\ AtomicFinish(N, {}, {})
  BY <1>1 DEF AtomicPhase, Lists
<1>3. \A o \in S : refs[o] \subseteq S /\ o \in Obj /\ Strong(o) \subseteq Obj
  BY <1>0, <1>a DEF Witness, Closed, TypeOK, Strong
<1>4. Lists \in SUBSET S
  BY <1>a DEF Witness
<1>5. N \subseteq S /\ \A o \in Lists \cup N : Strong(o) \cap Obj \subseteq marked \cup N
  BY <1>1, <1>3, <1>4, NewMarksWithin
<1>6. \A o \in Lists \cup N : Strong(o) \subseteq marked \cup N
  BY <1>3, <1>4, <1>5
<1>7. {} \in SUBSET (alloc \cap UData) /\ N \in SUBSET S /\ {} \subseteq marked' \cup {}
      /\ \A u \in {} : refs[u] \subseteq marked \cup N
  BY <1>5
<1>8. ASSUME NEW t \in WeakSeen(N), NEW v \in Obj, v \in refs'[t]
      PROVE  ~Misjudged(v, marked')
  <2>1. t \in S /\ t \in Obj
    BY <1>0, <1>a, <1>5 DEF WeakSeen, Witness, TypeOK, Lists, Obj
  <2>2. v \in refs[t]
    BY <1>2, <1>8, <2>1 DEF AtomicFinish
  <2> QED
    BY <1>a, <2>1, <2>2 DEF Misjudged, Witness, Closed
<1> QED
  BY <1>0, <1>2, <1>6, <1>7, <1>8, <1>a, AtomicFinishStep

\* Sweeping objects of which the live ones pass the liveness test: nothing
\* in the witness set is freed.
LEMMA SweepStep ==
    ASSUME TypeOK, ChainOK, KindsOK, NEW S \in SUBSET alloc, Witness(S),
           NEW D \in SUBSET alloc, \A o \in D \cap S : Alive(o), SweepSet(D),
           UNCHANGED <<cw, gray, grayagain, gcweak, full, chain>>
    PROVE  /\ S \in SUBSET alloc'
           /\ alloc' \subseteq alloc
           /\ refs' \in [Obj -> SUBSET Obj] /\ color' \in [Obj -> Colors]
           /\ marked' = marked \ D
           /\ \A o \in S : refs'[o] = refs[o]
           /\ \A o \in S \ D : color'[o] = color[o]
           /\ ChainOK' /\ KindsOK' /\ Closed(S)'
           /\ (marked \cup Lists \cup gcweak \subseteq S)'
<1> USE KindsAssumption
<1> DEFINE dead == {o \in D : ~Alive(o)}
<1>a. /\ alloc' = alloc \ dead
      /\ refs' = [o \in Obj |-> IF o \in dead THEN {} ELSE refs[o]]
      /\ color' = [o \in Obj |-> IF o \in dead THEN "W0"
                                 ELSE IF o \in D \cap marked
                                 THEN ChangeWhite(color[o]) ELSE color[o]]
      /\ marked' = marked \ D
  BY DEF SweepSet
<1>b. S \cap dead = {} /\ dead \subseteq D
  OBVIOUS
<1> HIDE DEF dead
<1>1. S \in SUBSET alloc' /\ alloc' \subseteq alloc
  BY <1>a, <1>b
<1>2. refs' \in [Obj -> SUBSET Obj] /\ color' \in [Obj -> Colors]
  BY <1>a DEF TypeOK, Colors, ChangeWhite
<1>3. \A o \in S : refs'[o] = refs[o]
  BY <1>a, <1>b DEF TypeOK
<1>4. \A o \in S \ D : color'[o] = color[o]
  BY <1>a, <1>b DEF TypeOK
<1>5. \A o \in Active : o \in S
  BY DEF Witness, Closed, Roots
<1>6. ChainOK'
  BY <1>3, <1>5, ChainKept
<1>7. KindsOK'
  BY <1>a DEF KindsOK, CellsOK, Obj
<1>8. Closed(S)'
  BY <1>3 DEF Witness, Closed, Roots, Active
<1>9. (marked \cup Lists \cup gcweak \subseteq S)'
  BY <1>a DEF Witness, Lists
<1> QED
  BY <1>1, <1>2, <1>3, <1>4, <1>6, <1>7, <1>8, <1>9, <1>a

\* The sweep's progress: what is still undecided afterwards was undecided
\* before and has not been touched.
LEMMA SweepPreserves ==
    ASSUME NEW X, HeapInvWith(X), gcState = "Sweep", gcState' = "Sweep",
           NEW D \in SUBSET alloc, \A o \in D : Unswept(o), SweepSet(D),
           \A o \in alloc' : Unswept(o)' => Unswept(o) /\ o \notin D,
           swept' \subseteq alloc', pool' \in 2 .. LastPool + 1,
           UNCHANGED <<cw, gray, grayagain, gcweak, full, chain>>
    PROVE  HeapInvWith(X)'
<1>0. TypeOK /\ ChainOK /\ KindsOK /\ MarkingOK
  BY DEF HeapInvWith
<1>a. PICK S \in SUBSET alloc : X \subseteq S /\ Witness(S)
  BY DEF HeapInvWith
<1>b. \A o \in D \cap S : Alive(o)
  BY <1>a DEF Witness, SweepOK
<1>c. /\ S \in SUBSET alloc'
      /\ alloc' \subseteq alloc
      /\ refs' \in [Obj -> SUBSET Obj] /\ color' \in [Obj -> Colors]
      /\ marked' = marked \ D
      /\ \A o \in S \ D : color'[o] = color[o]
      /\ ChainOK' /\ KindsOK' /\ Closed(S)'
      /\ (marked \cup Lists \cup gcweak \subseteq S)'
  BY <1>0, <1>a, <1>b, SweepStep
<1>1. TypeOK'
  BY <1>0, <1>c DEF TypeOK, LastPool
<1>2. MarkingOK'
  BY DEF MarkingOK, Marking
<1>3. SweepOK(S)'
  <2>1. ASSUME NEW o \in S, Unswept(o)'
        PROVE  Alive(o)'
    <3>1. Unswept(o) /\ o \notin D
      BY <1>c, <2>1
    <3> QED
      BY <1>a, <1>c, <3>1 DEF Witness, SweepOK, Alive, IsDead
  <2> QED
    BY <2>1 DEF SweepOK, LastPool
<1> QED
  BY <1>1, <1>2, <1>3, <1>c, <1>a DEF HeapInvWith, Witness

\* Every object belongs to one of the six swept pools.
LEMMA RankRange == \A o : Rank(o) \in 1 .. 6
BY DEF Rank

\* Each sweep step of sweep_one_pool.
LEMMA SweepActionsPreserve ==
    ASSUME NEW X, HeapInvWith(X),
           SweepStrings \/ (\E o \in Obj : SweepOne(o)) \/ SweepEmptyPool
    PROVE  HeapInvWith(X)'
<1> USE KindsAssumption
<1>0. TypeOK /\ ChainOK /\ KindsOK /\ MarkingOK
  BY DEF HeapInvWith
<1>a. PICK S \in SUBSET alloc : X \subseteq S /\ Witness(S)
  BY DEF HeapInvWith
<1>b. pool \in 1 .. 7 /\ swept \subseteq Obj
  BY <1>0 DEF TypeOK, LastPool
<1>1. CASE SweepStrings
  <2>1. swept = {} /\ pool = 1 /\ pool' = 2 /\ swept' = {}
    BY <1>1, <1>a DEF SweepStrings, Witness, SweepOK
  <2>2. \A o \in Obj : Rank(o) = 1 <=> o \in Str
    BY DEF Rank
  <2>3. \A o \in Str \cap alloc : Unswept(o)
    BY <2>1, <2>2 DEF Unswept, Obj
  <2>4. alloc' \subseteq alloc /\ alloc \subseteq Obj
    BY <1>0, <1>1 DEF SweepStrings, SweepSet, TypeOK
  <2>5. \A o \in alloc' : Unswept(o)' => Unswept(o) /\ o \notin Str \cap alloc
    BY <2>1, <2>2, <2>4, RankRange DEF Unswept
  <2> QED
    BY <1>1, <2>1, <2>3, <2>5, SweepPreserves DEF SweepStrings, LastPool
<1>2. ASSUME NEW o \in Obj, SweepOne(o)
      PROVE  HeapInvWith(X)'
  <2>1. o \in alloc /\ Unswept(o) /\ Rank(o) = pool /\ pool \in 2 .. 6
    BY <1>2 DEF SweepOne, ToSweep, Unswept, LastPool
  <2>2. alloc' \subseteq alloc
    BY <1>2 DEF SweepOne, SweepSet
  <2>3. \A x \in alloc' : Unswept(x)' => Unswept(x) /\ x \notin {o}
    <3>1. CASE ToSweep = {o}
      BY <1>2, <1>b, <2>1, <3>1, RankRange DEF SweepOne, Unswept
    <3>2. CASE ToSweep # {o}
      BY <1>2, <1>b, <2>1, <2>2, <3>2, RankRange DEF SweepOne, Unswept
    <3> QED
      BY <3>1, <3>2
  <2>4. swept' \subseteq alloc' /\ pool' \in 2 .. LastPool + 1
    BY <1>2, <2>1 DEF SweepOne, LastPool
  <2> QED
    BY <1>2, <2>1, <2>3, <2>4, SweepPreserves DEF SweepOne
<1>3. CASE SweepEmptyPool
  <2>1. /\ gcState = "Sweep" /\ pool \in 2 .. 6 /\ pool' = pool + 1 /\ swept' = {}
        /\ UNCHANGED <<alloc, refs, marked, color, gray, grayagain, gcweak,
                       gcState, cw, full, chain>>
    BY <1>3 DEF SweepEmptyPool, markVars, LastPool
  <2>2. \A x : Unswept(x)' => Unswept(x)
    BY <2>1, RankRange DEF Unswept
  <2>3. TypeOK'
    BY <1>0, <2>1 DEF TypeOK, LastPool
  <2>4. ChainOK' /\ KindsOK' /\ MarkingOK'
    BY <1>0, <2>1 DEF ChainOK, KindsOK, CellsOK, MarkingOK, Marking
  <2>5. Witness(S)'
    BY <1>a, <2>1, <2>2 DEF Witness, Closed, Roots, Active, Lists, SweepOK, Alive, IsDead
  <2> QED
    BY <1>a, <2>1, <2>3, <2>4, <2>5 DEF HeapInvWith
<1> QED
  BY <1>1, <1>2, <1>3

\* Steps that only move the state machine on, or empty the gray lists outside
\* a cycle.
LEMMA ControlPreserves ==
    ASSUME NEW X, HeapInvWith(X),
           UNCHANGED <<alloc, refs, marked, color, gcweak, cw, pool, swept, chain>>,
           gray' \subseteq gray, grayagain' \subseteq grayagain,
           full' \in {"no", "drain", "run"},
           gcState' \in {"Pause", "Finalize"} \/ UNCHANGED <<gcState, gray, grayagain>>
    PROVE  HeapInvWith(X)'
<1>0. TypeOK /\ ChainOK /\ KindsOK /\ MarkingOK
  BY DEF HeapInvWith
<1>a. PICK S \in SUBSET alloc : X \subseteq S /\ Witness(S)
  BY DEF HeapInvWith
<1>1. TypeOK'
  BY <1>0 DEF TypeOK, GcStates
<1>2. ChainOK' /\ KindsOK'
  BY <1>0 DEF ChainOK, KindsOK, CellsOK
<1>3. MarkingOK'
  <2>1. CASE gcState' \in {"Pause", "Finalize"}
    BY <2>1 DEF MarkingOK, Marking
  <2>2. CASE UNCHANGED <<gcState, gray, grayagain>>
    BY <1>0, <2>2 DEF MarkingOK, Marking, Lists, Strong
  <2> QED
    BY <2>1, <2>2
<1>4. Witness(S)'
  BY <1>a DEF Witness, Closed, Roots, Active, Lists, SweepOK, Unswept, Alive, IsDead
<1> QED
  BY <1>1, <1>2, <1>3, <1>4, <1>a DEF HeapInvWith

---------------------------------------------------------------------------
(* The theorems *)

\* The mutator frees nothing and keeps what the collector relies on.
LEMMA MutatorPreserves ==
    ASSUME NEW X, HeapInvWith(X), MutatorStep, CellsOK'
    PROVE  HeapInvWith(X)'
<1>1. CASE \E t \in Table : NewTable(t)
  BY <1>1, NewPreserves, KindsAssumption DEF NewTable
<1>2. CASE \E th \in Thread : NewThread(th)
  BY <1>2, NewPreserves, KindsAssumption DEF NewThread
<1>3. CASE \E s \in Str : NewString(s)
  BY <1>3, NewPreserves DEF NewString
<1>4. CASE \E f \in Func : NewFunc(f)
  BY <1>4, NewPreserves, KindsAssumption DEF NewFunc
<1>5. CASE \E s \in Str : InternHit(s)
  BY <1>5, InternHitPreserves
<1>6. CASE \E t \in Table, v \in Obj : Load(t, v)
  BY <1>6, LoadPreserves
<1>7. CASE \E v \in Obj : Drop(v)
  BY <1>7, DropPreserves
<1>8. CASE \E t \in Table, v \in Obj : Store(t, v) \/ StoreApi(t, v) \/ Remove(t, v)
  BY <1>8, StoresPreserve
<1>9. CASE \E c \in Thread, v \in Obj : Resume(c, v)
  BY <1>9, ResumePreserves
<1>10. CASE \E v \in Obj : Yield(v)
  BY <1>10, YieldPreserves
<1> QED
  BY <1>1, <1>2, <1>3, <1>4, <1>5, <1>6, <1>7, <1>8, <1>9, <1>10 DEF MutatorStep

\* The mutator of this module makes no upvalue cells and no userdata, nor does
\* the collector.
LEMMA NoCellsMade ==
    ASSUME NEW K, K = Upval \/ K = UData, alloc \cap K = {}, [Next]_vars
    PROVE  alloc' \cap K = {}
<1>1. CASE MutatorStep
  BY <1>1, KindsAssumption DEF MutatorStep, NewTable, NewThread, NewString, NewFunc, New,
     InternHit, Load, Drop, Store, StoreApi, Remove, Resume, Yield
<1>2. CASE CollectorStep
  BY <1>2 DEF CollectorStep, StartCycle, BeginCycle, PropagateOne, AtomicPhase, AtomicFinish,
     SweepStrings, SweepOne, SweepSet, SweepEmptyPool, SweepEnd, CollectBegin, FullGcBegin,
     FullGcDrained, FullGcEnd
<1> QED
  BY <1>1, <1>2 DEF Next, vars

\* HeapInv is inductive for the collector's steps in a heap without userdata.
LEMMA CollectorPreserves ==
    ASSUME HeapInvWith({}), alloc \cap UData = {}, CollectorStep
    PROVE  HeapInvWith({})'
<1>1. CASE StartCycle \/ CollectBegin \/ FullGcDrained
  <2>1. BeginCycle /\ full' \in {"no", "drain", "run"}
    BY <1>1 DEF StartCycle, CollectBegin, FullGcDrained, HeapInvWith, TypeOK
  <2> QED
    BY <2>1, BeginCyclePreserves
<1>2. CASE \E g \in Obj : PropagateOne(g)
  BY <1>2, PropagateOnePreserves
<1>3. CASE AtomicPhase
  BY <1>3, AtomicPhasePreserves
<1>4. CASE SweepStrings \/ (\E o \in Obj : SweepOne(o)) \/ SweepEmptyPool
  BY <1>4, SweepActionsPreserve
<1>5. CASE SweepEnd \/ FullGcBegin \/ FullGcEnd
  <2>1. /\ UNCHANGED <<alloc, refs, marked, color, gcweak, cw, pool, swept, chain>>
        /\ gray' \subseteq gray /\ grayagain' \subseteq grayagain
        /\ full' \in {"no", "drain", "run"}
        /\ gcState' = "Pause" \/ UNCHANGED <<gcState, gray, grayagain>>
    BY <1>5 DEF SweepEnd, FullGcBegin, FullGcEnd, markVars, sweepVars, HeapInvWith, TypeOK
  <2> QED
    BY <2>1, ControlPreserves
<1> QED
  BY <1>1, <1>2, <1>3, <1>4, <1>5 DEF CollectorStep

\* A step that changes nothing.
LEMMA StutterPreserves ==
    ASSUME NEW X, HeapInvWith(X), UNCHANGED vars
    PROVE  HeapInvWith(X)'
<1>1. full \in {"no", "drain", "run"}
  BY DEF HeapInvWith, TypeOK
<1> QED
  BY <1>1, ControlPreserves DEF vars

\* HeapInv is inductive in a heap without upvalue cells and userdata.
LEMMA NextPreserves ==
    ASSUME HeapInvWith({}), alloc \cap Upval = {}, alloc \cap UData = {}, [Next]_vars
    PROVE  HeapInvWith({})'
<1>1. CASE MutatorStep
  <2>1. CellsOK'
    BY NoCellsMade DEF CellsOK
  <2> QED
    BY <1>1, <2>1, MutatorPreserves
<1> QED
  BY <1>1, CollectorPreserves, StutterPreserves DEF Next

\* HeapInv holds in every state of the collector and its mutator, whatever
\* the objects, the stack and table sizes and the coroutine nesting.
THEOREM HeapInvariant == Spec => []HeapInv
<1> DEFINE Inv == HeapInvWith({}) /\ alloc \cap Upval = {} /\ alloc \cap UData = {}
<1>1. Init => Inv
  BY InitHeapInv, KindsAssumption DEF Init
<1>2. Inv /\ [Next]_vars => Inv'
  BY NextPreserves, NoCellsMade
<1>3. Inv => HeapInv
  BY DEF HeapInvWith, HeapInv
<1> QED
  BY <1>1, <1>2, <1>3, PTL DEF Spec

\* Type correctness of the collector's state.
THEOREM TypeCorrect == Spec => []TypeOK
<1>1. HeapInv => TypeOK
  BY DEF HeapInv
<1> QED
  BY <1>1, HeapInvariant, PTL

\* Memory safety: nothing Lua code can reach is ever freed, for any
\* interleaving of incremental steps, abandoned cycles, full collections,
\* barriered stores, interning and coroutine switches.
THEOREM MemorySafety == Spec => []NoDangling
<1>1. HeapInv => NoDangling
  BY DEF HeapInv, Witness, NoDangling
<1> QED
  BY <1>1, HeapInvariant, PTL

\* The collector's own work lists never lead to freed memory, although
\* gc_grayagain and gc_weak outlive an abandoned cycle.
THEOREM WorklistSafety == Spec => []WorklistsAllocated
<1>1. HeapInv => WorklistsAllocated
  <2> SUFFICES ASSUME HeapInv PROVE WorklistsAllocated
    OBVIOUS
  <2>1. PICK S \in SUBSET alloc : Witness(S)
    BY DEF HeapInv
  <2> QED
    BY <2>1 DEF Witness, Closed, Lists, WorklistsAllocated
<1> QED
  BY <1>1, HeapInvariant, PTL
=============================================================================
