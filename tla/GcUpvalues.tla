---------------------------- MODULE GcUpvalues ----------------------------
(***************************************************************************)
(* Lua closures and their upvalue cells on top of GcHeap (func.rs, and     *)
(* find_upval, close_upvals and new_closure of the interpreter).           *)
(*                                                                         *)
(* An open upvalue points into the stack of the thread that owns it; a     *)
(* closed one holds its value.  A thread's list of open upvalues (openuv)  *)
(* is the set of cells in its refs; the value an upvalue points at, on a   *)
(* stack or in the cell, is refs[u].                                       *)
(***************************************************************************)
EXTENDS GcHeap

VARIABLES
    owner,      \* where u->v points: a thread's stack, or the cell itself
    missed      \* history: a store to a cell needed the barrier it has not

uvVars == <<vars, owner, missed>>

Closed0 == "closed"

\* The tag is no thread.
ASSUME OwnerAssumption == Closed0 \notin Thread

OpenUV(th) == refs[th] \cap Upval

\* The cells Lua code on the running thread can get at: those of closures
\* on its stack.
Cells == UNION {refs[f] \cap Upval : f \in refs[Running] \cap Func}

---------------------------------------------------------------------------
(* Mutator *)

\* Steps of GcHeap's mutator.  A cell is not a value that can be loaded or
\* stored, and the compiler keeps a captured slot until UCLO.
LuaStep ==
    /\ MutatorStep
    /\ \A o \in Obj : refs'[o] \cap Upval = refs[o] \cap Upval
    /\ \A u \in Upval : owner[u] = Running => refs[u] \subseteq refs'[Running]
    /\ UNCHANGED <<owner, missed>>

\* FNEW of a closure whose upvalue is an open cell of this frame
\* (find_upval hits) or is inherited from the parent closure.
FNewShared(f, u) ==
    /\ Mutator
    /\ f \in Func \ alloc
    /\ u \in Cells \cup OpenUV(Running)
    /\ HasRoom(Running, f)
    /\ alloc' = alloc \cup {f}
    /\ color' = [color EXCEPT ![f] = White(cw)]
    /\ marked' = marked \ {f}
    /\ refs' = [refs EXCEPT ![f] = {u}, ![Running] = @ \cup {f}]
    /\ UNCHANGED <<gcState, cw, gray, grayagain, gcweak, pool, swept, full, chain, owner, missed>>

\* FNEW capturing a slot for which there is no open cell yet; V is the
\* slot's value, empty if it is not collectable.
FNewFresh(f, u, V) ==
    /\ Mutator
    /\ f \in Func \ alloc /\ u \in Upval \ alloc
    /\ V \subseteq refs[Running] \ Upval /\ Cardinality(V) <= 1
    /\ \A w \in OpenUV(Running) : refs[w] = V => V = {}
    /\ HasRoom(Running, f)
    /\ alloc' = alloc \cup {f, u}
    /\ color' = [color EXCEPT ![f] = White(cw), ![u] = White(cw)]
    /\ marked' = marked \ {f, u}
    /\ refs' = [refs EXCEPT ![f] = {u}, ![u] = V, ![Running] = @ \cup {f, u}]
    /\ owner' = [owner EXCEPT ![u] = Running]
    /\ UNCHANGED <<gcState, cw, gray, grayagain, gcweak, pool, swept, full, chain, missed>>

\* UGET.
UGet(u) ==
    /\ Mutator
    /\ u \in Cells
    /\ \A v \in refs[u] : HasRoom(Running, v)
    /\ refs' = [refs EXCEPT ![Running] = @ \cup refs[u]]
    /\ UNCHANGED <<alloc, markVars, gcState, cw, sweepVars, full, chain, owner, missed>>

\* What LuaJIT's barrier for upvalues looks for: the marker has been at the
\* cell and not at the value.
NeedsBarrier(u, W) == Marking /\ u \in marked /\ ~(W \subseteq marked)

\* USETV, USETS, USETN, USETP: Upval::set, no barrier.  W is the new value,
\* empty for a value that is not collectable.  Writing an open upvalue
\* writes its owner's stack; the old value may also be in another slot (a
\* resumed coroutine always is: it is an argument of the resume call).
USet(u, W) ==
    /\ Mutator
    /\ u \in Cells
    /\ W \subseteq refs[Running] \ Upval /\ Cardinality(W) <= 1
    /\ \/ /\ owner[u] = Closed0
          /\ refs' = [refs EXCEPT ![u] = W]
       \/ /\ owner[u] \in Thread
          /\ \E keep \in SUBSET refs[u] :
                /\ refs[u] \cap Active \subseteq keep
                /\ refs' = [refs EXCEPT ![u] = W,
                                        ![owner[u]] = ((@ \ refs[u]) \cup keep) \cup W]
    /\ missed' = (missed \/ NeedsBarrier(u, W))
    /\ UNCHANGED <<alloc, markVars, gcState, cw, sweepVars, full, chain, owner>>

\* close_upvals (UCLO, RET*): each open upvalue of the dying slots gets its
\* own copy of the value and leaves openuv.
CloseUpval(u) ==
    /\ Mutator
    /\ u \in OpenUV(Running)
    /\ owner' = [owner EXCEPT ![u] = Closed0]
    /\ refs' = [refs EXCEPT ![Running] = @ \ {u}]
    /\ UNCHANGED <<alloc, markVars, gcState, cw, sweepVars, full, chain, missed>>

---------------------------------------------------------------------------
(* Collector *)

\* Mutant: a dying thread leaves its upvalues open.
ClosedBySweep_None == {}

\* sweep_one_pool's on_free for the thread pool closes whatever is on the
\* dying thread's openuv.
ClosedBySweep == UNION {refs[th] \cap Upval : th \in Thread \cap (alloc \ alloc')}

Collect ==
    /\ CollectorStep
    /\ owner' = [u \in Upval |->
                    IF u \in ClosedBySweep \/ u \notin alloc' THEN Closed0
                                                              ELSE owner[u]]
    /\ UNCHANGED missed

---------------------------------------------------------------------------
UvInit == Init /\ owner = [u \in Upval |-> Closed0] /\ missed = FALSE

UvNext ==
    \/ LuaStep
    \/ \E f \in Func, u \in Upval : FNewShared(f, u)
    \/ \E f \in Func, u \in Upval, V \in SUBSET Obj : FNewFresh(f, u, V)
    \/ \E u \in Upval : UGet(u)
    \/ \E u \in Upval, W \in SUBSET Obj : USet(u, W)
    \/ \E u \in Upval : CloseUpval(u)
    \/ Collect

UvSpec == UvInit /\ [][UvNext]_uvVars

---------------------------------------------------------------------------
(* Properties *)

\* Memory safety with closures: a captured value is not freed under the
\* closures that share its cell, open or closed, unless a store to a cell
\* has needed the barrier that Upval::set does not have.
CapturesSafe == missed \/ NoDangling

\* A closure may outlive the coroutine whose local it captured: an open
\* upvalue never points into the stack of a freed thread (as long as no
\* thread was freed for want of that barrier).
OpenSlotAllocated ==
    missed \/ \A u \in Upval \cap alloc : owner[u] # Closed0 => owner[u] \in alloc
=============================================================================
