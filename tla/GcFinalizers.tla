--------------------------- MODULE GcFinalizers ---------------------------
(***************************************************************************)
(* Userdata with __gc metamethods on top of GcHeap: the atomic phase sets  *)
(* dead userdata aside (separate_finalizable), the sweep hands over to the *)
(* Finalize state, and the VM runs the finalizers at safe points           *)
(* (vm::run_finalizers).  A finalizer is Lua code: it may store its        *)
(* argument (resurrection), raise an error, allocate - so drive the        *)
(* collector - or call collectgarbage, which enters run_finalizers again.  *)
(*                                                                         *)
(* The C/Rust call structure is a stack of run_finalizers activations.     *)
(*                                                                         *)
(* Two things go wrong in the code and are part of the model.  full_gc,    *)
(* called through lua_gc in the middle of a cycle, opens the next one with *)
(* finalizers pending, which nothing marks then.  And clear_weak decides   *)
(* about userdata by its colour, which says nothing of the mark: userdata  *)
(* that is not marked stays in the weak table.  forced and misjudged       *)
(* record that it happened; the invariants say what holds until then.      *)
(***************************************************************************)
EXTENDS GcHeap

CONSTANTS
    GcMeta,     \* the tables that have a __gc entry
    MaxNest     \* bound: nested run_finalizers activations

ASSUME GcMetaAssumption == GcMeta \subseteq Table /\ MaxNest \in Nat

VARIABLES
    mmudata,    \* GcHeap::mmudata, userdata waiting for its finalizer
    finalized,  \* the userdata whose header has the FINALIZED bit
    calls,      \* activations of run_finalizers, innermost last
    ran,        \* history: the userdata whose finalizer was called
    forced,     \* history: full_gc opened a cycle over pending finalizers
    misjudged   \* history: clear_weak kept an entry that does not survive

lapses == <<forced, misjudged>>
finVars == <<mmudata, finalized, calls, ran, lapses>>
allVars == <<vars, finVars>>

\* A run_finalizers activation: what follows it ("full_gc" for the first one
\* of collectgarbage, "return" else), and the userdata whose finalizer body is
\* executing, if one is.
Loop(k) == [after |-> k, body |-> "none"]     \* between two finalizers

Top == calls[Len(calls)]
InLoop == calls # <<>> /\ Top.body = "none"
SetTop(f) == calls' = [calls EXCEPT ![Len(calls)] = f]
PopCall == calls' = SubSeq(calls, 1, Len(calls) - 1)

\* Lua code runs when no run_finalizers loop is between two finalizers.
LuaRuns == full = "no" /\ ~InLoop

Pending == {mmudata[i] : i \in 1 .. Len(mmudata)}
\* Mutant: the metatables of separated userdata are not marked.
Meta_None(us) == {}

Meta(us) == UNION {refs[u] : u \in us}
HasGcMeta(u) == refs[u] \cap GcMeta # {}

---------------------------------------------------------------------------
(* Mutator *)

\* newproxy: userdata without a metatable, with a new one (newproxy(true))
\* or with that of another proxy on the stack.
NewUData(u, mt) ==
    LET fresh == ({u} \cup mt) \ alloc
    IN  /\ LuaRuns
        /\ u \in UData \ alloc
        /\ \/ mt = {}
           \/ Cardinality(mt) = 1 /\ mt \subseteq Table \ alloc
           \/ \E w \in refs[Running] \cap UData : mt = refs[w]
        /\ HasRoom(Running, u)
        /\ alloc' = alloc \cup fresh
        /\ color' = [o \in Obj |-> IF o \in fresh THEN White(cw) ELSE color[o]]
        /\ marked' = marked \ fresh
        /\ refs' = [refs EXCEPT ![u] = mt, ![Running] = @ \cup {u}]
        /\ finalized' = finalized \ {u}
        /\ ran' = ran \ {u}
        /\ UNCHANGED <<gcState, cw, gray, grayagain, gcweak, pool, swept, full,
                       chain, mmudata, calls, lapses>>

\* getmetatable of a proxy.
GetMetatable(u) ==
    /\ LuaRuns
    /\ u \in refs[Running] \cap UData
    /\ \A mt \in refs[u] : HasRoom(Running, mt)
    /\ refs' = [refs EXCEPT ![Running] = @ \cup refs[u]]
    /\ UNCHANGED <<alloc, markVars, gcState, cw, sweepVars, full, chain, finVars>>

LuaStep == LuaRuns /\ MutatorStep /\ UNCHANGED finVars

---------------------------------------------------------------------------
(* Collector *)

\* The steps that finalization does not change.
CollectorPart ==
    /\ ~(full = "no" /\ InLoop)
    /\ \/ StartCycle
       \/ \E g \in Obj : PropagateOne(g)
       \/ SweepStrings
       \/ \E o \in Obj : SweepOne(o)
       \/ SweepEmptyPool
    /\ UNCHANGED finVars

\* Mutant: the FINALIZED bit is not looked at.
Separable_Again(m) == {u \in (UData \cap alloc) \ m : HasGcMeta(u)}

\* separate_finalizable: unmarked userdata with __gc, not yet finalized.
Separable(m) ==
    {u \in (UData \cap alloc) \ (m \cup finalized) : HasGcMeta(u)}

\* mmudata is filled in pool order; the pool's order is any order here.
Orders(us) ==
    {q \in [1 .. Cardinality(us) -> us] : \A u \in us : \E i \in DOMAIN q : q[i] = u}

\* gc_onestep in state Atomic: propagate, separate, mark the metatables of
\* what was separated so that __gc stays callable, clear weak tables.
FinAtomic ==
    LET N1 == NewMarks(gray \cup grayagain, marked)
        mmu == Separable(marked \cup N1)
        mts == Meta(mmu) \ (marked \cup N1)
        N2 == mts \cup NewMarks(mts, marked \cup N1 \cup mts)
    IN  /\ ~(full = "no" /\ InLoop)
        /\ gcState = "Atomic"
        /\ AtomicFinish(N1 \cup N2, mmu, finalized \cup mmu)
        /\ finalized' = finalized \cup mmu
        /\ \E q \in Orders(mmu) : mmudata' = mmudata \o q
        /\ misjudged' = (misjudged \/
              \E t \in WeakSeen(N1 \cup N2), v \in Obj :
                  v \in refs'[t] /\ Misjudged(v, marked'))
        /\ UNCHANGED <<calls, ran, forced>>

\* The end of the sweep: Finalize when something is pending.
FinSweepEnd ==
    /\ ~(full = "no" /\ InLoop)
    /\ gcState = "Sweep" /\ pool = LastPool + 1
    /\ gcState' = IF mmudata = <<>> THEN "Pause" ELSE "Finalize"
    /\ UNCHANGED <<alloc, refs, markVars, cw, sweepVars, full, chain, finVars>>

---------------------------------------------------------------------------
(* run_finalizers and its callers *)

\* gc_check at an allocating instruction while finalizers are pending.
GcCheck ==
    /\ LuaRuns /\ gcState = "Finalize"
    /\ Len(calls) < MaxNest
    /\ calls' = Append(calls, Loop("return"))
    /\ UNCHANGED <<vars, mmudata, finalized, ran, lapses>>

\* collectgarbage("collect"): run_finalizers in whatever state.
Collect ==
    /\ LuaRuns
    /\ Len(calls) < MaxNest
    /\ calls' = Append(calls, Loop("full_gc"))
    /\ UNCHANGED <<vars, mmudata, finalized, ran, lapses>>

\* One turn of the loop: the newest pending object gets the current white
\* (mark_finalized), is put on the stack and its __gc is called.
CallFinalizer ==
    LET u == mmudata[Len(mmudata)]
    IN  /\ full = "no" /\ InLoop
        /\ mmudata # <<>>
        /\ mmudata' = SubSeq(mmudata, 1, Len(mmudata) - 1)
        /\ color' = [color EXCEPT ![u] = White(cw)]
        /\ finalized' = finalized \cup {u}
        /\ ran' = ran \cup {u}
        /\ refs' = [refs EXCEPT ![Running] = @ \cup {u}]
        /\ SetTop([Top EXCEPT !.body = u])
        /\ UNCHANGED <<alloc, marked, gcState, cw, gray, grayagain, gcweak,
                       pool, swept, full, chain, lapses>>

\* The finalizer returns; its argument slot is cleared.
FinalizerReturns ==
    /\ LuaRuns /\ calls # <<>>
    /\ refs' = [refs EXCEPT ![Running] = @ \ {Top.body}]
    /\ SetTop(Loop(Top.after))
    /\ UNCHANGED <<alloc, markVars, gcState, cw, sweepVars, full, chain,
                   mmudata, finalized, ran, lapses>>

\* The finalizer raises an error: the activation ends without clearing the
\* argument's slot, the collector's state and the remaining pending objects
\* stay as they are.
FinalizerFails ==
    /\ LuaRuns /\ calls # <<>>
    /\ PopCall
    /\ UNCHANGED <<vars, mmudata, finalized, ran, lapses>>

\* Nothing pending any more: the loop sets Pause whatever the collector was
\* doing and returns to gc_check or collectgarbage's caller...
Drained ==
    /\ full = "no" /\ InLoop
    /\ mmudata = <<>>
    /\ Top.after = "return"
    /\ gcState' = "Pause"
    /\ PopCall
    /\ UNCHANGED <<alloc, refs, markVars, cw, sweepVars, full, chain,
                   mmudata, finalized, ran, lapses>>

\* ... or on to full_gc, which opens a new cycle.
DrainedThenFullGc ==
    /\ full = "no" /\ InLoop
    /\ mmudata = <<>>
    /\ Top.after = "full_gc"
    /\ BeginCycle
    /\ full' = "run"
    /\ UNCHANGED finVars

\* lua_gc(LUA_GCCOLLECT), from a C function: full_gc returns at once in state
\* Finalize; else it first runs the cycle in progress to its end...
ApiCollect ==
    /\ LuaRuns /\ gcState # "Finalize"
    /\ FullGcBegin
    /\ UNCHANGED finVars

\* ... and opens a new one, although that end may have been Finalize: only a
\* debug_assert looks.
ApiFullGc ==
    /\ full = "drain"
    /\ gcState \in {"Pause", "Finalize"}
    /\ BeginCycle
    /\ full' = "run"
    /\ forced' = (forced \/ mmudata # <<>>)
    /\ UNCHANGED <<mmudata, finalized, calls, ran, misjudged>>

\* full_gc returns at Pause or at Finalize; collectgarbage, which waits in its
\* first run_finalizers' place, then runs the finalizers the cycle found.
FullGcReturns ==
    /\ full = "run"
    /\ gcState \in {"Pause", "Finalize"}
    /\ full' = "no"
    /\ gray' = {} /\ grayagain' = {}
    /\ IF InLoop THEN SetTop(Loop("return")) ELSE UNCHANGED calls
    /\ UNCHANGED <<alloc, refs, marked, color, gcweak, gcState, cw, sweepVars,
                   chain, mmudata, finalized, ran, lapses>>

---------------------------------------------------------------------------
FinInit ==
    /\ Init
    /\ mmudata = <<>> /\ finalized = {} /\ calls = <<>> /\ ran = {}
    /\ forced = FALSE /\ misjudged = FALSE

Finalization ==
    \/ CallFinalizer
    \/ FinalizerReturns
    \/ Drained
    \/ DrainedThenFullGc
    \/ FullGcReturns

FinNext ==
    \/ \E u \in UData, mt \in SUBSET Table : NewUData(u, mt)
    \/ \E u \in UData : GetMetatable(u)
    \/ LuaStep
    \/ CollectorPart
    \/ FinAtomic
    \/ FinSweepEnd
    \/ GcCheck
    \/ Collect
    \/ FinalizerFails
    \/ ApiCollect
    \/ ApiFullGc
    \/ Finalization

FinSpec == FinInit /\ [][FinNext]_allVars

---------------------------------------------------------------------------
(* Properties *)

\* Memory safety with finalizers and weak tables: what a program can reach is
\* allocated, until one of the two lapses happens.
FinHeapSafe == forced \/ misjudged \/ NoDangling

\* run_finalizers calls the __gc of a userdata at most once, also when
\* activations nest, cycles are abandoned or a finalizer fails: a pending
\* object is pending once and was never called before.
FinalizedAtMostOnce ==
    forced \/ /\ Pending \cap ran = {}
              /\ Cardinality(Pending) = Len(mmudata)

\* A pending object, its metatable and so its __gc survive the sweep of the
\* cycle that set it aside until the finalizer is called.
PendingAllocated ==
    forced \/ misjudged \/ \A u \in Pending : u \in alloc /\ refs[u] \subseteq alloc

\* No cycle starts while finalizers are pending, other than full_gc's in
\* ApiFullGc: the mark phase would not know them.
NoCycleWhilePending ==
    forced \/ (mmudata # <<>> => gcState \in {"Sweep", "Finalize"})
=============================================================================
