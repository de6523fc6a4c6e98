------------------------- MODULE GcUpvaluesProofs -------------------------
(***************************************************************************)
(* The heap stays safe with closures and upvalue cells, and no open cell   *)
(* points into the stack of a freed thread, for any number of closures,    *)
(* cells and coroutines and any assignments to captured variables - as     *)
(* long as none of them has put an unmarked value into a marked cell.      *)
(* Upval::set has no barrier; the run upvalues_store shows what is freed   *)
(* after such an assignment.                                               *)
(*                                                                         *)
(* The heap's part is HeapInv (GcHeapProofs).  OwnerOK is what closing the *)
(* cells of a dying thread relies on: an open cell is on the openuv list   *)
(* of the thread that it points into.                                      *)
(***************************************************************************)
EXTENDS GcUpvalues, GcHeapProofs

\* Tables, strings and cells never refer to a cell.
CellsPlain == \A o \in Obj \ (Func \cup Thread) : refs[o] \cap Upval = {}

OwnerOK ==
    /\ owner \in [Upval -> Thread \cup {Closed0}]
    /\ \A u \in Upval \cap alloc :
         owner[u] # Closed0 => owner[u] \in Thread \cap alloc /\ u \in refs[owner[u]]

UvInv == HeapInvWith({}) /\ CellsPlain /\ OwnerOK

\* What the cells of held closures are: in the witness set, as is what they
\* hold.
LEMMA CellsHeld ==
  ASSUME TypeOK, NEW S, Witness(S), NEW u \in Cells \cup OpenUV(Running)
  PROVE  u \in Upval /\ u \in S /\ refs[u] \subseteq S
<1>1. refs[Running] \subseteq S
  BY RunningHeld
<1>2. \A f \in refs[Running] : refs[f] \subseteq S
  BY <1>1 DEF Witness, Closed
<1>3. u \in Upval /\ u \in S
  BY <1>1, <1>2 DEF Cells, OpenUV
<1> QED
  BY <1>3 DEF Witness, Closed

---------------------------------------------------------------------------
(* The mutator *)

\* The mutator of GcHeap frees nothing and makes no cell.
LEMMA MutatorAllocs ==
  ASSUME MutatorStep
  PROVE  alloc \subseteq alloc' /\ alloc' \cap Upval = alloc \cap Upval
BY KindsAssumption DEF MutatorStep, NewTable, NewThread, NewString, NewFunc, New,
   InternHit, Load, Drop, Store, StoreApi, Remove, Resume, Yield

\* Ordinary instructions leave the cells where they are.
LEMMA UvLuaStepKeeps ==
  ASSUME UvInv, LuaStep
  PROVE  UvInv'
<1>1. /\ MutatorStep /\ UNCHANGED owner
      /\ \A o \in Obj : refs'[o] \cap Upval = refs[o] \cap Upval
  BY DEF LuaStep
<1>2. alloc \subseteq alloc' /\ alloc' \cap Upval = alloc \cap Upval
  BY <1>1, MutatorAllocs
<1>3. CellsPlain'
  BY <1>1 DEF UvInv, CellsPlain
<1>4. CellsOK'
  BY <1>3, KindsAssumption DEF CellsPlain, CellsOK, Obj
<1>5. HeapInvWith({})'
  BY <1>1, <1>4, MutatorPreserves DEF UvInv
<1>6. OwnerOK'
  <2>1. ASSUME NEW u \in Upval \cap alloc', owner'[u] # Closed0
        PROVE  owner'[u] \in Thread \cap alloc' /\ u \in refs'[owner'[u]]
    <3>1. owner[u] \in Thread \cap alloc /\ u \in refs[owner[u]] /\ owner'[u] = owner[u]
      BY <1>1, <1>2, <2>1 DEF UvInv, OwnerOK
    <3>2. owner[u] \in Obj
      BY <3>1 DEF Obj
    <3> QED
      BY <1>1, <1>2, <3>1, <3>2
  <2> QED
    BY <1>1, <2>1 DEF UvInv, OwnerOK
<1> QED
  BY <1>3, <1>5, <1>6 DEF UvInv

\* FNEW: a closure and the cells E it makes, with what they hold, are new;
\* the cell it captures is new, or held.
LEMMA NewClosureKeeps ==
  ASSUME UvInv, NEW f \in Func \ alloc, NEW E \in SUBSET (Upval \ alloc),
         NEW c \in Upval, NEW S \in SUBSET alloc, Witness(S), c \in S \cup E,
         alloc' = alloc \cup {f} \cup E, marked' = marked \ ({f} \cup E),
         color' \in [Obj -> Colors],
         \A x \in {f} \cup E : color'[x] = White(cw),
         \A x \in Obj \ ({f} \cup E) : color'[x] = color[x],
         refs' \in [Obj -> SUBSET Obj], refs'[f] = {c},
         \A x \in E : refs'[x] \subseteq S \ Upval,
         refs'[Running] = refs[Running] \cup {f} \cup E,
         \A x \in Obj \ ({f, Running} \cup E) : refs'[x] = refs[x],
         owner' \in [Upval -> Thread \cup {Closed0}],
         \A x \in Upval : owner'[x] = IF x \in E THEN Running ELSE owner[x],
         UNCHANGED <<gcState, cw, gray, grayagain, gcweak, pool, swept, full, chain>>
  PROVE  UvInv'
<1> USE KindsAssumption
<1>0. TypeOK /\ ChainOK /\ KindsOK /\ MarkingOK
  BY DEF HeapInvWith, UvInv
<1>b. Running \in Thread /\ Running \in S /\ refs[Running] \subseteq S
  BY <1>0, RunningHeld
<1>c. PICK F \in SUBSET (Obj \ alloc) : F = {f} \cup E
  <2>1. {f} \cup E \in SUBSET (Obj \ alloc)
    BY DEF Obj
  <2> QED
    BY <2>1
<1>d. /\ \A x \in F : refs'[x] \subseteq S \cup F
      /\ refs[Running] \subseteq refs'[Running] /\ refs'[Running] \subseteq S \cup F
      /\ \A x \in Obj \ (F \cup {Running}) : refs'[x] = refs[x]
  BY <1>b, <1>c
<1>1. CellsPlain'
  <2>1. ASSUME NEW o \in Obj \ (Func \cup Thread)
        PROVE  refs'[o] \cap Upval = {}
    <3>1. CASE o \in E
      BY <3>1
    <3>2. CASE o \notin E
      BY <1>b, <2>1, <3>2 DEF UvInv, CellsPlain
    <3> QED
      BY <3>1, <3>2
  <2> QED
    BY <2>1 DEF CellsPlain
<1>2. KindsOK'
  <2>1. CellsOK'
    BY <1>1 DEF CellsPlain, CellsOK, Obj
  <2>2. \A x \in Str \cup UData : x \in Obj /\ refs'[x] = refs[x]
    BY <1>b DEF Obj
  <2>3. \A x \in Obj \ alloc' : refs'[x] = refs[x] /\ x \notin alloc
    BY <1>b
  <2>4. alloc' \cap UData = alloc \cap UData
    OBVIOUS
  <2> QED
    BY <1>0, <2>1, <2>2, <2>3, <2>4 DEF KindsOK
<1>3. HeapInvWith({})'
  <2>1. alloc' = alloc \cup F /\ marked' = marked \ F
    BY <1>c
  <2>2. /\ \A x \in F : color'[x] = White(cw)
        /\ \A x \in Obj \ F : color'[x] = color[x]
    BY <1>c
  <2>3. {} \subseteq S
    OBVIOUS
  <2> QED
    BY <1>0, <1>d, <1>2, <2>1, <2>2, <2>3, AllocStep
<1>4. OwnerOK'
  <2>1. ASSUME NEW u \in Upval \cap alloc', owner'[u] # Closed0
        PROVE  owner'[u] \in Thread \cap alloc' /\ u \in refs'[owner'[u]]
    <3>1. CASE u \in E
      BY <1>b, <3>1
    <3>2. CASE u \notin E
      <4>1. u \in alloc /\ owner'[u] = owner[u]
        BY <2>1, <3>2
      <4>2. owner[u] \in Thread \cap alloc /\ u \in refs[owner[u]]
        BY <2>1, <4>1 DEF UvInv, OwnerOK
      <4>3. refs[owner[u]] \subseteq refs'[owner[u]]
        <5>1. owner[u] \in Obj /\ owner[u] \notin {f} \cup E
          BY <4>2 DEF Obj
        <5> QED
          BY <5>1
      <4> QED
        BY <4>1, <4>2, <4>3
    <3> QED
      BY <3>1, <3>2
  <2> QED
    BY <2>1 DEF OwnerOK
<1> QED
  BY <1>1, <1>3, <1>4 DEF UvInv

\* FNEW, capturing a cell that is there or a slot for which one is made.
LEMMA FNewKeeps ==
  ASSUME UvInv, NEW f \in Func, NEW u \in Upval, NEW V,
         FNewShared(f, u) \/ FNewFresh(f, u, V)
  PROVE  UvInv'
<1> USE KindsAssumption
<1>0. /\ TypeOK /\ color \in [Obj -> Colors] /\ refs \in [Obj -> SUBSET Obj]
      /\ owner \in [Upval -> Thread \cup {Closed0}]
  BY DEF HeapInvWith, UvInv, TypeOK, OwnerOK
<1>a. PICK S \in SUBSET alloc : Witness(S)
  BY DEF UvInv, HeapInvWith
<1>b. Running \in Thread /\ Running \in S /\ refs[Running] \subseteq S
  BY <1>0, <1>a, RunningHeld
<1>c. f \in Obj /\ u \in Obj /\ Running \in Obj /\ f # u /\ f # Running /\ u # Running
  BY <1>b DEF Obj
<1>1. CASE FNewShared(f, u)
  <2>1. f \in Func \ alloc /\ {} \in SUBSET (Upval \ alloc) /\ u \in S \cup {}
    BY <1>0, <1>1, <1>a, CellsHeld DEF FNewShared
  <2>2. /\ alloc' = alloc \cup {f} \cup {} /\ marked' = marked \ ({f} \cup {})
        /\ UNCHANGED <<gcState, cw, gray, grayagain, gcweak, pool, swept, full, chain>>
        /\ UNCHANGED owner
    BY <1>1 DEF FNewShared
  <2>3. /\ color' \in [Obj -> Colors]
        /\ \A x \in {f} \cup {} : color'[x] = White(cw)
        /\ \A x \in Obj \ ({f} \cup {}) : color'[x] = color[x]
    BY <1>0, <1>1, <1>c DEF FNewShared, Colors, White
  <2>4. /\ refs' \in [Obj -> SUBSET Obj] /\ refs'[f] = {u}
        /\ refs'[Running] = refs[Running] \cup {f} \cup {}
        /\ \A x \in Obj \ ({f, Running} \cup {}) : refs'[x] = refs[x]
    BY <1>0, <1>1, <1>c DEF FNewShared
  <2>5. \A x \in {} : refs'[x] \subseteq S \ Upval
    OBVIOUS
  <2>6. /\ owner' \in [Upval -> Thread \cup {Closed0}]
        /\ \A x \in Upval : owner'[x] = IF x \in {} THEN Running ELSE owner[x]
    BY <1>0, <2>2
  <2> QED
    BY <1>a, <2>1, <2>2, <2>3, <2>4, <2>5, <2>6, NewClosureKeeps
<1>2. CASE FNewFresh(f, u, V)
  <2>0. PICK E : E = {u}
    OBVIOUS
  <2>1. f \in Func \ alloc /\ E \in SUBSET (Upval \ alloc) /\ u \in S \cup E
    BY <1>2, <2>0 DEF FNewFresh
  <2>2. /\ alloc' = alloc \cup {f} \cup E /\ marked' = marked \ ({f} \cup E)
        /\ UNCHANGED <<gcState, cw, gray, grayagain, gcweak, pool, swept, full, chain>>
    BY <1>2, <2>0 DEF FNewFresh
  <2>3. /\ color' \in [Obj -> Colors]
        /\ \A x \in {f} \cup E : color'[x] = White(cw)
        /\ \A x \in Obj \ ({f} \cup E) : color'[x] = color[x]
    BY <1>0, <1>2, <1>c, <2>0 DEF FNewFresh, Colors, White
  <2>4. V \subseteq S \ Upval /\ V \subseteq Obj
    BY <1>0, <1>2, <1>b, <1>c DEF FNewFresh
  <2>5. /\ refs' \in [Obj -> SUBSET Obj] /\ refs'[f] = {u}
        /\ \A x \in E : refs'[x] \subseteq S \ Upval
        /\ refs'[Running] = refs[Running] \cup {f} \cup E
        /\ \A x \in Obj \ ({f, Running} \cup E) : refs'[x] = refs[x]
    <3>1. refs' = [refs EXCEPT ![f] = {u}, ![u] = V, ![Running] = @ \cup {f, u}]
      BY <1>2 DEF FNewFresh
    <3> QED
      BY <1>0, <1>c, <2>0, <2>4, <3>1
  <2>6. /\ owner' \in [Upval -> Thread \cup {Closed0}]
        /\ \A x \in Upval : owner'[x] = IF x \in E THEN Running ELSE owner[x]
    BY <1>0, <1>2, <1>b, <2>0 DEF FNewFresh
  <2> QED
    BY <1>a, <2>1, <2>2, <2>3, <2>5, <2>6, NewClosureKeeps
<1> QED
  BY <1>1, <1>2

\* The new content of the cell x is plain and escapes no marker.
CellRewritten(x) ==
    /\ x \in Upval /\ refs'[x] \cap Upval = {}
    /\ Marking /\ x \in marked => refs'[x] \subseteq marked

\* Rewriting stacks within the witness set, and clearing cells or storing
\* what needs no barrier, harms neither marking nor the sweep.
LEMMA RewriteStep ==
  ASSUME HeapInvWith({}), NEW S \in SUBSET alloc, Witness(S),
         refs' \in [Obj -> SUBSET Obj],
         \A x \in S : refs'[x] \subseteq S,
         \A x \in Obj \ Thread : refs'[x] \subseteq refs[x] \/ CellRewritten(x),
         \A x \in Obj \ alloc : refs'[x] = {},
         \A x \in Active : refs[x] \cap Active \subseteq refs'[x],
         UNCHANGED <<alloc, markVars, gcState, cw, sweepVars, full, chain>>
  PROVE  HeapInvWith({})'
<1> USE KindsAssumption
<1>0. TypeOK /\ ChainOK /\ KindsOK /\ MarkingOK
  BY DEF HeapInvWith
<1>1. TypeOK'
  BY <1>0 DEF TypeOK, markVars, sweepVars
<1>2. ChainOK'
  <2>1. Len(chain) \in Nat
    BY <1>0 DEF TypeOK
  <2>2. ASSUME NEW i \in 1 .. Len(chain) - 1
        PROVE  chain[i + 1] \in refs'[chain[i]]
    <3>1. chain[i] \in Active /\ chain[i + 1] \in Active
      BY <2>1 DEF Active
    <3> QED
      BY <1>0, <3>1 DEF ChainOK
  <2> QED
    BY <1>0, <2>2 DEF ChainOK
<1>3. KindsOK'
  <2>1. /\ \A x \in Str \cup UData \cup Table : refs'[x] \subseteq refs[x]
        /\ \A x \in Upval : refs'[x] \subseteq refs[x] \/ refs'[x] \cap Upval = {}
    BY DEF Obj, CellRewritten
  <2>2. CellsOK'
    BY <1>0, <2>1 DEF KindsOK, CellsOK
  <2>3. \A s \in Str : refs'[s] = {}
    BY <1>0, <2>1 DEF KindsOK
  <2> QED
    BY <1>0, <2>1, <2>2, <2>3 DEF KindsOK
<1>4. MarkingOK'
  <2>1. Marking' = Marking /\ Lists' = Lists /\ UNCHANGED <<marked, color, gcweak>>
    BY DEF Marking, Lists, markVars
  <2>2. Marking => \A x \in marked \ Lists : Strong(x)' \subseteq Strong(x) \/ Strong(x)' \subseteq marked
    BY <1>0 DEF MarkingOK, Strong, TypeOK, CellRewritten
  <2> QED
    BY <1>0, <2>1, <2>2 DEF MarkingOK
<1>5. Witness(S)'
  BY DEF Witness, Closed, Roots, Active, Lists, SweepOK, Unswept, Alive, IsDead,
         markVars, sweepVars
<1> QED
  BY <1>1, <1>2, <1>3, <1>4, <1>5 DEF HeapInvWith

\* A step that rewrites stacks and cells keeps UvInv if open cells stay on the
\* list of their thread.
LEMMA RewriteKeeps ==
  ASSUME UvInv, NEW S \in SUBSET alloc, Witness(S),
         refs' \in [Obj -> SUBSET Obj],
         \A x \in S : refs'[x] \subseteq S,
         \A x \in Obj \ Thread : refs'[x] \subseteq refs[x] \/ CellRewritten(x),
         \A x \in Obj \ alloc : refs'[x] = {},
         \A x \in Active : refs[x] \cap Active \subseteq refs'[x],
         UNCHANGED <<alloc, markVars, gcState, cw, sweepVars, full, chain>>,
         owner' \in [Upval -> Thread \cup {Closed0}],
         \A u \in Upval : \/ owner'[u] = Closed0
                          \/ owner'[u] = owner[u]
                             /\ \A th \in Thread : u \in refs[th] => u \in refs'[th]
  PROVE  UvInv'
<1> USE KindsAssumption
<1>1. HeapInvWith({})'
  BY RewriteStep DEF UvInv
<1>2. CellsPlain'
  BY DEF UvInv, CellsPlain, CellRewritten
<1>3. OwnerOK'
  BY DEF UvInv, OwnerOK
<1> QED
  BY <1>1, <1>2, <1>3 DEF UvInv

\* UGET: a held cell's value goes onto the stack.
LEMMA UGetKeeps ==
  ASSUME UvInv, NEW u \in Upval, UGet(u)
  PROVE  UvInv'
<1> USE KindsAssumption
<1>0. /\ TypeOK /\ refs \in [Obj -> SUBSET Obj]
      /\ owner \in [Upval -> Thread \cup {Closed0}]
  BY DEF HeapInvWith, UvInv, TypeOK, OwnerOK
<1>a. PICK S \in SUBSET alloc : Witness(S)
  BY DEF UvInv, HeapInvWith
<1>b. Running \in Thread /\ Running \in S /\ refs[Running] \subseteq S /\ refs[u] \subseteq S
  BY <1>0, <1>a, RunningHeld, CellsHeld DEF UGet
<1>1. /\ refs' = [refs EXCEPT ![Running] = @ \cup refs[u]]
      /\ UNCHANGED <<alloc, markVars, gcState, cw, sweepVars, full, chain, owner>>
  BY DEF UGet
<1>2. /\ refs' \in [Obj -> SUBSET Obj] /\ refs'[Running] = refs[Running] \cup refs[u]
      /\ \A x \in Obj \ {Running} : refs'[x] = refs[x]
  BY <1>0, <1>1, <1>b DEF Obj
<1>3. \A x \in S : x \in Obj /\ refs[x] \subseteq S
  BY <1>0, <1>a DEF Witness, Closed, TypeOK
<1>4. \A x \in S : refs'[x] \subseteq S
  BY <1>2, <1>3, <1>b
<1>5. \A x \in Obj \ Thread : refs'[x] \subseteq refs[x]
  BY <1>2, <1>b
<1>6. \A x \in Obj \ alloc : refs'[x] = {}
  BY <1>2, <1>b DEF UvInv, HeapInvWith, KindsOK
<1>7. \A x \in Obj : refs[x] \subseteq refs'[x]
  BY <1>2
<1>8. \A x \in Active \cup Thread : x \in Obj
  BY <1>0 DEF TypeOK, Active, Obj
<1>9. /\ \A x \in Active : refs[x] \cap Active \subseteq refs'[x]
      /\ \A th \in Thread : refs[th] \subseteq refs'[th]
  BY <1>7, <1>8
<1> QED
  BY <1>0, <1>1, <1>2, <1>4, <1>5, <1>6, <1>9, <1>a, RewriteKeeps

\* USETV: the cell, or the slot it points to, holds the new value, which is
\* on the stack and in need of no barrier.
LEMMA USetKeeps ==
  ASSUME UvInv, NEW u \in Upval, NEW W, USet(u, W), ~NeedsBarrier(u, W)
  PROVE  UvInv'
<1> USE KindsAssumption
<1>0. /\ TypeOK /\ refs \in [Obj -> SUBSET Obj]
      /\ owner \in [Upval -> Thread \cup {Closed0}]
  BY DEF HeapInvWith, UvInv, TypeOK, OwnerOK
<1>a. PICK S \in SUBSET alloc : Witness(S)
  BY DEF UvInv, HeapInvWith
<1>w. W \subseteq S /\ W \cap Upval = {} /\ W \subseteq Obj
  BY <1>0, <1>a, RunningHeld DEF USet, TypeOK
<1>v. Marking /\ u \in marked => W \subseteq marked
  BY DEF NeedsBarrier
<1>b. u \in S /\ u \in alloc /\ refs[u] \subseteq S /\ u \in Obj /\ u \notin Thread
  BY <1>0, <1>a, CellsHeld DEF USet, Obj
<1>1. UNCHANGED <<alloc, markVars, gcState, cw, sweepVars, full, chain, owner>>
  BY DEF USet
<1>3. \A x \in S : x \in Obj /\ refs[x] \subseteq S
  BY <1>0, <1>a DEF Witness, Closed, TypeOK
<1>c. \A x \in Active \cup Thread : x \in Obj /\ x \in Thread
  BY <1>0 DEF TypeOK, Active, Obj
<1>d. refs[u] \cap Upval = {}
  BY <1>b DEF UvInv, CellsPlain
<1>e. \A x \in Obj \ alloc : refs[x] = {}
  BY DEF UvInv, HeapInvWith, KindsOK
<1>2. CASE owner[u] = Closed0
  <2>1. refs' = [refs EXCEPT ![u] = W]
    BY <1>2, OwnerAssumption DEF USet
  <2>2. /\ refs' \in [Obj -> SUBSET Obj] /\ refs'[u] = W
        /\ \A x \in Obj \ {u} : refs'[x] = refs[x]
    BY <1>0, <1>b, <1>w, <2>1
  <2>3. \A x \in Obj \ Thread : refs'[x] \subseteq refs[x] \/ CellRewritten(x)
    BY <1>v, <1>w, <2>2 DEF CellRewritten
  <2>4. \A x \in S : refs'[x] \subseteq S
    BY <1>3, <1>w, <2>2
  <2>5. \A x \in Obj \ alloc : refs'[x] = {}
    BY <1>e, <1>b, <2>2
  <2>6. \A x \in Active \cup Thread : refs'[x] = refs[x]
    BY <1>b, <1>c, <2>2
  <2> QED
    BY <1>0, <1>1, <1>a, <2>2, <2>3, <2>4, <2>5, <2>6, RewriteKeeps
<1>4. CASE owner[u] # Closed0
  <2>1. PICK th : th = owner[u]
    OBVIOUS
  <2>2. th \in Thread /\ th \in alloc /\ th \in Obj /\ th # u
    BY <1>4, <1>b, <2>1, <1>c DEF UvInv, OwnerOK
  <2>3. PICK keep \in SUBSET refs[u] :
          /\ refs[u] \cap Active \subseteq keep
          /\ refs' = [refs EXCEPT ![u] = W, ![th] = ((@ \ refs[u]) \cup keep) \cup W]
    BY <1>4, <2>1 DEF USet
  <2>4. /\ refs' \in [Obj -> SUBSET Obj] /\ refs'[u] = W
        /\ refs'[th] = ((refs[th] \ refs[u]) \cup keep) \cup W
        /\ \A x \in Obj \ {u, th} : refs'[x] = refs[x]
    BY <1>0, <1>b, <1>w, <2>2, <2>3
  <2>5. \A x \in S : refs'[x] \subseteq S
    BY <1>3, <1>b, <1>w, <2>4
  <2>6. \A x \in Obj \ Thread : refs'[x] \subseteq refs[x] \/ CellRewritten(x)
    BY <1>v, <1>w, <2>2, <2>4 DEF CellRewritten
  <2>7. \A x \in Obj \ alloc : refs'[x] = {}
    BY <1>e, <1>b, <2>2, <2>4
  <2>8. \A x \in Active : refs[x] \cap Active \subseteq refs'[x]
    <3>1. ASSUME NEW x \in Active, NEW y \in refs[x] \cap Active
          PROVE  y \in refs'[x]
      <4>1. CASE x = th
        BY <2>3, <2>4, <4>1
      <4>2. CASE x # th
        BY <1>b, <1>c, <2>4, <4>2
      <4> QED
        BY <4>1, <4>2
    <3> QED
      BY <3>1
  <2>9. \A w \in Upval : \A t \in Thread : w \in refs[t] => w \in refs'[t]
    <3>1. ASSUME NEW w \in Upval, NEW t \in Thread, w \in refs[t]
          PROVE  w \in refs'[t]
      <4>1. CASE t = th
        BY <1>d, <2>4, <3>1, <4>1
      <4>2. CASE t # th
        BY <1>b, <1>c, <2>4, <3>1, <4>2
      <4> QED
        BY <4>1, <4>2
    <3> QED
      BY <3>1
  <2> QED
    BY <1>0, <1>1, <1>a, <2>4, <2>5, <2>6, <2>7, <2>8, <2>9, RewriteKeeps
<1> QED
  BY <1>2, <1>4

\* UCLO and RET: the cell keeps the slot's value and leaves the list.
LEMMA CloseUpvalKeeps ==
  ASSUME UvInv, NEW u \in Upval, CloseUpval(u)
  PROVE  UvInv'
<1> USE KindsAssumption
<1>0. /\ TypeOK /\ refs \in [Obj -> SUBSET Obj]
      /\ owner \in [Upval -> Thread \cup {Closed0}]
  BY DEF HeapInvWith, UvInv, TypeOK, OwnerOK
<1>a. PICK S \in SUBSET alloc : Witness(S)
  BY DEF UvInv, HeapInvWith
<1>b. Running \in Thread /\ Running \in Obj
  BY <1>0, <1>a, RunningHeld DEF Obj
<1>1. /\ refs' = [refs EXCEPT ![Running] = @ \ {u}]
      /\ owner' = [owner EXCEPT ![u] = Closed0]
      /\ UNCHANGED <<alloc, markVars, gcState, cw, sweepVars, full, chain>>
  BY DEF CloseUpval
<1>2. /\ refs' \in [Obj -> SUBSET Obj] /\ refs'[Running] = refs[Running] \ {u}
      /\ \A x \in Obj \ {Running} : refs'[x] = refs[x]
  BY <1>0, <1>1, <1>b
<1>3. \A x \in Obj : refs'[x] \subseteq refs[x] /\ refs[x] \subseteq refs'[x] \cup {u}
  BY <1>2
<1>4. \A x \in S : refs'[x] \subseteq S
  BY <1>0, <1>3, <1>a DEF Witness, Closed, TypeOK
<1>6. \A x \in Obj \ alloc : refs'[x] = {}
  BY <1>3 DEF UvInv, HeapInvWith, KindsOK
<1>8. \A x \in Active \cup Thread : x \in Obj /\ x \in Thread
  BY <1>0 DEF TypeOK, Active, Obj
<1>9. /\ \A x \in Active : refs[x] \cap Active \subseteq refs'[x]
      /\ \A th \in Thread : refs[th] \subseteq refs'[th] \cup {u}
  BY <1>3, <1>8
<1>10. /\ owner' \in [Upval -> Thread \cup {Closed0}] /\ owner'[u] = Closed0
       /\ \A w \in Upval \ {u} : owner'[w] = owner[w]
  BY <1>0, <1>1
<1> QED
  BY <1>1, <1>2, <1>3, <1>4, <1>6, <1>9, <1>10, <1>a, RewriteKeeps

---------------------------------------------------------------------------
(* The collector *)

\* Outside the atomic phase and the sweep the collector leaves the heap alone,
\* and in them it changes no stack but those of the threads it frees.
LEMMA CollectorFrees ==
  ASSUME TypeOK, CollectorStep
  PROVE  /\ alloc' \subseteq alloc
         /\ \A x \in Obj : refs'[x] \subseteq refs[x]
         /\ \A x \in (Obj \cap alloc') \ Weak : refs'[x] = refs[x]
<1>1. CASE UNCHANGED <<alloc, refs>>
  BY <1>1
<1>2. ASSUME NEW D, SweepSet(D)
      PROVE  /\ alloc' \subseteq alloc
             /\ \A x \in Obj : refs'[x] \subseteq refs[x]
             /\ \A x \in (Obj \cap alloc') \ Weak : refs'[x] = refs[x]
  BY <1>2 DEF SweepSet
<1>3. CASE SweepStrings \/ \E o \in Obj : SweepOne(o)
  BY <1>2, <1>3 DEF SweepStrings, SweepOne
<1>4. CASE AtomicPhase
  <2>1. PICK N : AtomicFinish(N, {}, {})
    BY <1>4 DEF AtomicPhase
  <2>2. PICK weak : /\ weak = gcweak \cup ((gray \cup grayagain \cup N) \cap Weak)
                    /\ refs' = [o \in Obj |->
                          IF o \in weak
                          THEN {v \in refs[o] : ~MayClear(v, marked \cup N, {})}
                          ELSE refs[o]]
                    /\ alloc' = alloc
    BY <2>1 DEF AtomicFinish, WeakSeen
  <2>3. weak \subseteq Weak
    BY <2>2 DEF TypeOK
  <2> QED
    BY <2>2, <2>3
<1> QED
  BY <1>1, <1>3, <1>4 DEF CollectorStep, StartCycle, BeginCycle, PropagateOne, SweepEmptyPool,
     SweepEnd, CollectBegin, FullGcBegin, FullGcDrained, FullGcEnd

\* A collector step, the cells of freed threads closed by on_free.
LEMMA UvCollectKeeps ==
  ASSUME UvInv, alloc \cap UData = {}, Collect
  PROVE  UvInv'
<1> USE KindsAssumption
<1>0. TypeOK /\ CollectorStep
  BY DEF UvInv, HeapInvWith, Collect
<1>a. PICK own : own = owner
  OBVIOUS
<1>1. HeapInvWith({})'
  BY <1>0, CollectorPreserves DEF UvInv
<1>2. /\ alloc' \subseteq alloc
      /\ \A x \in Obj : refs'[x] \subseteq refs[x]
      /\ \A x \in (Obj \cap alloc') \ Weak : refs'[x] = refs[x]
  BY <1>0, CollectorFrees
<1>3. CellsPlain'
  BY <1>2 DEF UvInv, CellsPlain
<1>4. /\ owner' \in [Upval -> Thread \cup {Closed0}]
      /\ \A u \in Upval : owner'[u] # Closed0 =>
            owner'[u] = own[u] /\ u \notin ClosedBySweep /\ u \in alloc'
  <2>1. owner' = [u \in Upval |->
                    IF u \in ClosedBySweep \/ u \notin alloc' THEN Closed0 ELSE own[u]]
    BY <1>a DEF Collect
  <2>2. own \in [Upval -> Thread \cup {Closed0}]
    BY <1>a DEF UvInv, OwnerOK
  <2> QED
    BY <2>1, <2>2
<1>5. OwnerOK'
  <2>1. ASSUME NEW u \in Upval \cap alloc', owner'[u] # Closed0
        PROVE  owner'[u] \in Thread \cap alloc' /\ u \in refs'[owner'[u]]
    <3>1. PICK th : th = owner[u]
      OBVIOUS
    <3>2. th \in Thread \cap alloc /\ u \in refs[th] /\ owner'[u] = th
      BY <1>a, <1>2, <1>4, <2>1, <3>1 DEF UvInv, OwnerOK
    <3>3. th \in alloc'
      BY <1>4, <2>1, <3>2 DEF ClosedBySweep
    <3>4. refs'[th] = refs[th]
      BY <1>2, <3>2, <3>3 DEF Obj
    <3> QED
      BY <3>2, <3>3, <3>4
  <2> QED
    BY <1>4, <2>1 DEF OwnerOK
<1> QED
  BY <1>1, <1>3, <1>5 DEF UvInv

---------------------------------------------------------------------------
(* The theorems *)

\* At the start there is no cell.
LEMMA InitUvInv ==
  ASSUME UvInit
  PROVE  UvInv
<1>1. HeapInvWith({})
  BY InitHeapInv DEF UvInit
<1> QED
  BY <1>1, KindsAssumption DEF UvInit, Init, UvInv, CellsPlain, OwnerOK

\* UvInv is inductive up to the first store that misses its barrier, and
\* what was missed stays so.
LEMMA UvNextKeeps ==
  ASSUME UvInv, alloc \cap UData = {}, [UvNext]_uvVars, ~missed', missed \in BOOLEAN
  PROVE  UvInv'
<1>1. CASE LuaStep
  BY <1>1, UvLuaStepKeeps
<1>2. CASE \E f \in Func, u \in Upval : FNewShared(f, u)
  BY <1>2, FNewKeeps
<1>3. CASE \E f \in Func, u \in Upval, V \in SUBSET Obj : FNewFresh(f, u, V)
  BY <1>3, FNewKeeps
<1>4. CASE \E u \in Upval : UGet(u)
  BY <1>4, UGetKeeps
<1>5. CASE \E u \in Upval, W \in SUBSET Obj : USet(u, W)
  <2>1. PICK u \in Upval, W \in SUBSET Obj : USet(u, W)
    BY <1>5
  <2>2. ~NeedsBarrier(u, W)
    BY <2>1 DEF USet
  <2> QED
    BY <2>1, <2>2, USetKeeps
<1>6. CASE \E u \in Upval : CloseUpval(u)
  BY <1>6, CloseUpvalKeeps
<1>7. CASE Collect
  BY <1>7, UvCollectKeeps
<1>8. CASE UNCHANGED uvVars
  <2>1. HeapInvWith({})' /\ UNCHANGED <<alloc, refs, owner>>
    BY <1>8, StutterPreserves DEF UvInv, uvVars, vars
  <2> QED
    BY <2>1 DEF UvInv, CellsPlain, OwnerOK
<1> QED
  BY <1>1, <1>2, <1>3, <1>4, <1>5, <1>6, <1>7, <1>8 DEF UvNext

\* A missed barrier is never forgotten.
LEMMA MissedStays ==
  ASSUME missed \in BOOLEAN, [UvNext]_uvVars
  PROVE  missed' \in BOOLEAN /\ (missed => missed')
BY DEF UvNext, LuaStep, FNewShared, FNewFresh, UGet, USet, NeedsBarrier, CloseUpval, Collect, uvVars

\* The programs here make no userdata.
LEMMA UvNoUData ==
  ASSUME alloc \cap UData = {}, [UvNext]_uvVars
  PROVE  alloc' \cap UData = {}
<1>1. CASE MutatorStep \/ CollectorStep
  <2>1. [Next]_vars
    BY <1>1 DEF Next
  <2> QED
    BY <2>1, NoCellsMade
<1> QED
  BY <1>1, KindsAssumption DEF UvNext, LuaStep, FNewShared, FNewFresh, UGet, USet, CloseUpval,
     Collect, uvVars, vars

\* HeapInv, and that open cells are listed with their thread, in every state
\* of a program with closures that no missing barrier precedes.
THEOREM UvInvariant == UvSpec => [](missed \/ UvInv)
<1> DEFINE Inv == missed \in BOOLEAN /\ alloc \cap UData = {} /\ (missed \/ UvInv)
<1>1. UvInit => Inv
  BY InitUvInv, KindsAssumption DEF UvInit, Init
<1>2. Inv /\ [UvNext]_uvVars => Inv'
  <2> SUFFICES ASSUME Inv, [UvNext]_uvVars PROVE Inv'
    OBVIOUS
  <2>1. missed' \in BOOLEAN /\ (missed => missed')
    BY MissedStays
  <2>0. alloc' \cap UData = {}
    BY UvNoUData
  <2>2. CASE missed'
    BY <2>0, <2>1, <2>2
  <2>3. CASE ~missed'
    BY <2>0, <2>1, <2>3, UvNextKeeps
  <2> QED
    BY <2>1, <2>2, <2>3
<1>3. Inv => (missed \/ UvInv)
  OBVIOUS
<1> QED
  BY <1>1, <1>2, <1>3, PTL DEF UvSpec

\* Memory safety with closures: captured values, in cells open or closed, are
\* never freed under the closures that share them, whatever programs assign
\* to captured variables, up to a store that needs the missing barrier.
THEOREM UvMemorySafety == UvSpec => []CapturesSafe
<1>1. (missed \/ UvInv) => CapturesSafe
  BY DEF UvInv, HeapInvWith, Witness, NoDangling, CapturesSafe
<1> QED
  BY <1>1, UvInvariant, PTL

\* on_free closes every cell that points into the stack of a dying thread: an
\* open cell is always on the openuv list of its thread.
THEOREM OpenSlotsAllocated == UvSpec => []OpenSlotAllocated
<1>1. (missed \/ UvInv) => OpenSlotAllocated
  BY DEF UvInv, OwnerOK, OpenSlotAllocated
<1> QED
  BY <1>1, UvInvariant, PTL
=============================================================================
