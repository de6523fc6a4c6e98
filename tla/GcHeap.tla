------------------------------ MODULE GcHeap ------------------------------
(***************************************************************************)
(* The incremental tri-colour collector of runtime/gc.rs together with     *)
(* the mutator that runs between its steps: the interpreter's stacks,      *)
(* table stores with their write barrier, the string interner's eager      *)
(* mark and the coroutine switch.                                          *)
(*                                                                         *)
(* An object is a name; its kind is the constant set it belongs to.  What  *)
(* an object refers to is a set of objects (a table's entries, a thread's  *)
(* stack, a function's environment and captured values).  The bytes of a   *)
(* string and the keys of a table are not represented.                     *)
(*                                                                         *)
(* gc_onestep works in batches (32 gray objects, 40 swept objects); one    *)
(* action here is one object of a batch, so every batch boundary, and with *)
(* it every point where the mutator may run, is a state of the model.  The *)
(* atomic phase is one action, as it is one call in the code.              *)
(***************************************************************************)
EXTENDS Naturals, FiniteSets, Sequences

CONSTANTS
    Str,        \* interned strings                     (Interner::pool)
    Table,      \* tables                               (GcHeap::tables)
    Func,       \* closures and prototypes              (GcHeap::funcs, protos)
    Thread,     \* coroutines and the main thread       (GcHeap::threads)
    Upval,      \* upvalue cells                        (GcHeap::upvals)
    UData,      \* full userdata                        (GcHeap::userdatas)
    Weak,       \* the tables whose entries are all weak (__mode = "kv")
    Globals,    \* the globals table: stands for every root table
    Main,       \* the main thread
    MaxStack,   \* bound: values on one thread's stack
    MaxTable,   \* bound: entries of one table
    MaxDepth    \* bound: nesting of resumed coroutines

Obj == Str \cup Table \cup Func \cup Thread \cup Upval \cup UData

\* Each object lives in one pool; the roots are a strong table and a thread.
ASSUME KindsAssumption ==
    /\ Str \cap (Table \cup Func \cup Thread \cup Upval \cup UData) = {}
    /\ Table \cap (Func \cup Thread \cup Upval \cup UData) = {}
    /\ Func \cap (Thread \cup Upval \cup UData) = {}
    /\ Thread \cap (Upval \cup UData) = {}
    /\ Upval \cap UData = {}
    /\ Weak \subseteq Table
    /\ Globals \in Table \ Weak
    /\ Main \in Thread

ASSUME BoundsAssumption ==
    /\ MaxStack \in Nat
    /\ MaxTable \in Nat
    /\ MaxDepth \in Nat

VARIABLES
    alloc,      \* the objects that are allocated (members of some pool)
    marked,     \* the objects whose header has marked = true
    color,      \* tri-colour bits: "W0", "W1", "B" (black), "G" (none set)
    refs,       \* what each object refers to
    gcState,    \* GcHeap::gc_state
    cw,         \* GcHeap::current_white
    gray,       \* GcHeap::gc_gray
    grayagain,  \* GcHeap::gc_grayagain
    gcweak,     \* GcHeap::gc_weak
    pool,       \* GcHeap::gc_sweep_pool, 1 .. 7
    swept,      \* the objects of the current pool below gc_sweep_pos
    full,       \* progress of a running full_gc: "no", "drain", "run"
    chain       \* the resumed threads, Main first, the running one last

heapVars == <<alloc, refs>>
markVars == <<marked, color, gray, grayagain, gcweak>>
sweepVars == <<pool, swept>>
vars == <<alloc, marked, color, refs, gcState, cw, gray, grayagain, gcweak,
          pool, swept, full, chain>>

Colors == {"W0", "W1", "B", "G"}
GcStates == {"Pause", "Propagate", "Atomic", "Sweep", "Finalize"}

---------------------------------------------------------------------------
(* Header bits *)

\* GcHeader::new: the colour of a fresh object.
White(w) == IF w = 0 THEN "W0" ELSE "W1"

\* Mutant: the survivor's colour bits are cleared, no white is set.
ChangeWhite_Cleared(c) == "G"

\* GcHeader::change_white: anything that is not WHITE0 becomes WHITE0,
\* whatever the current white is.
ChangeWhite(c) == IF c = "W0" THEN "W1" ELSE "W0"

\* GcHeader::is_dead: the object carries the other white.
IsDead(c) == c = White(1 - cw)

\* Mutant: only the mark keeps an object.
Alive_MarkedOnly(o) == o \in marked

\* Pool::sweep_limited: what the sweep keeps.
Alive(o) == o \in marked \/ (~IsDead(color[o]) /\ color[o] # "B")

---------------------------------------------------------------------------
(* The object graph *)

Running == chain[Len(chain)]

\* The threads being run: the main one, then each the resumer of the next.
Active == {chain[i] : i \in 1 .. Len(chain)}

\* What the mutator can name without dereferencing anything.
Roots == {Globals} \cup Active

\* Mutant: closures are not traversed.
Strong_NoFuncs(o) == IF o \in Weak \cup Func THEN {} ELSE refs[o]

\* LuaTable::gc_traverse skips the weak side of a weak table.
Strong(o) == IF o \in Weak THEN {} ELSE refs[o]

\* Objects that are pushed on a gray list when they are marked; strings,
\* userdata and upvalues are marked in place.
Listed == Table \cup Func \cup Thread

\* Marker::mark_value on each value of V: the objects it marks that were
\* unmarked, userdata and upvalues followed at once to what they hold.
MarkValues(V, m) ==
    LET V1 == (V \cup UNION {refs[u] : u \in (V \cap Upval) \ m}) \ m
        V2 == (UNION {refs[u] : u \in V1 \cap UData}) \ m
    IN  V1 \cup V2

\* The tables a running program can store into: _G, or one it holds.
Held == {Globals} \cup refs[Running]

---------------------------------------------------------------------------
(* Write barriers *)

\* Both barriers are off outside a cycle.
BarrierOn == gcState \notin {"Pause", "Finalize"}

\* Mutant: the barrier looks for the wrong colour.
BarrierHit_Gray(t) == BarrierOn /\ color[t] = "G"

\* barrier_back re-grays a table that was already scanned.
BarrierHit(t) == BarrierOn /\ color[t] = "B"

\* barrier_fwd marks the stored value.
FwdMarks(v) == IF BarrierOn THEN MarkValues({v}, marked) ELSE {}

\* Either barrier pushes on gc_gray while propagating, else on gc_grayagain.
Push(S) ==
    IF gcState = "Propagate"
    THEN gray' = gray \cup S /\ UNCHANGED grayagain
    ELSE grayagain' = grayagain \cup S /\ UNCHANGED gray

\* barrier_back(t), then barrier_fwd for the objects of F.
Barriers(t, F) ==
    LET hit == IF BarrierHit(t) THEN {t} ELSE {}
    IN  /\ marked' = marked \cup F
        /\ color' = [o \in Obj |-> IF o \in F THEN "B"
                                   ELSE IF o \in hit THEN "G" ELSE color[o]]
        /\ Push(hit \cup (F \cap Listed))
        /\ UNCHANGED gcweak

---------------------------------------------------------------------------
(* Mutator *)

\* No Lua code runs inside full_gc.
Mutator == full = "no"

\* A value arrives on thread th's stack.
HasRoom(th, v) == v \in refs[th] \/ Cardinality(refs[th]) < MaxStack

\* Pool::alloc: a fresh object carries the current white, unmarked, and is
\* put on the running stack.  contents: a closure's environment and captured
\* values, a userdata's metatable.
New(o, contents) ==
    /\ Mutator
    /\ o \in Obj \ alloc
    /\ contents \subseteq Held
    /\ HasRoom(Running, o)
    /\ alloc' = alloc \cup {o}
    /\ color' = [color EXCEPT ![o] = White(cw)]
    /\ marked' = marked \ {o}
    /\ refs' = [refs EXCEPT ![o] = contents, ![Running] = @ \cup {o}]
    /\ UNCHANGED <<gcState, cw, gray, grayagain, gcweak, pool, swept, full, chain>>

NewTable(t) == t \in Table /\ New(t, {})
NewThread(th) == th \in Thread /\ New(th, {})
NewString(s) == s \in Str /\ New(s, {})
NewFunc(f) == f \in Func /\ \E v \in Held : New(f, {v})

\* Interner::intern_with_hash finding an existing string, dead or alive: it
\* is marked at once, whatever the collector is doing.
InternHit(s) ==
    /\ Mutator
    /\ s \in Str \cap alloc
    /\ HasRoom(Running, s)
    /\ marked' = marked \cup {s}
    /\ color' = [color EXCEPT ![s] = "B"]
    /\ refs' = [refs EXCEPT ![Running] = @ \cup {s}]
    /\ UNCHANGED <<alloc, gcState, cw, gray, grayagain, gcweak, pool, swept, full, chain>>

\* TGET*: read an entry of a table (a weak one too) onto the stack.
Load(t, v) ==
    /\ Mutator
    /\ t \in Held \cap Table
    /\ v \in refs[t]
    /\ HasRoom(Running, v)
    /\ refs' = [refs EXCEPT ![Running] = @ \cup {v}]
    /\ UNCHANGED <<alloc, markVars, gcState, cw, sweepVars, full, chain>>

\* A stack slot is overwritten or falls above the frame.
Drop(v) ==
    /\ Mutator
    /\ v \in refs[Running]
    /\ refs' = [refs EXCEPT ![Running] = @ \ {v}]
    /\ UNCHANGED <<alloc, markVars, gcState, cw, sweepVars, full, chain>>

CanStore(t, v) ==
    /\ Mutator
    /\ t \in Held \cap Table
    /\ v \in refs[Running]
    /\ v \in refs[t] \/ Cardinality(refs[t]) < MaxTable

\* TSET*, rawset and the table library: the store, then barrier_back.
Store(t, v) ==
    /\ CanStore(t, v)
    /\ refs' = [refs EXCEPT ![t] = @ \cup {v}]
    /\ Barriers(t, {})
    /\ UNCHANGED <<alloc, gcState, cw, sweepVars, full, chain>>

\* The embedding API's stores: both barriers (gc_table_write).
StoreApi(t, v) ==
    /\ CanStore(t, v)
    /\ refs' = [refs EXCEPT ![t] = @ \cup {v}]
    /\ Barriers(t, FwdMarks(v))
    /\ UNCHANGED <<alloc, gcState, cw, sweepVars, full, chain>>

\* Storing nil: the entry goes, the barrier runs all the same.
Remove(t, v) ==
    /\ Mutator
    /\ t \in Held \cap Table
    /\ v \in refs[t]
    /\ refs' = [refs EXCEPT ![t] = @ \ {v}]
    /\ Barriers(t, {})
    /\ UNCHANGED <<alloc, gcState, cw, sweepVars, full, chain>>

\* do_resume: an argument is copied to the coroutine's stack, which becomes
\* the running one; stacks have no barrier.
Resume(c, v) ==
    /\ Mutator
    /\ Len(chain) < MaxDepth
    /\ c \in refs[Running] \cap Thread
    /\ c \notin Active
    /\ v \in refs[Running]
    /\ HasRoom(c, v)
    /\ refs' = [refs EXCEPT ![c] = @ \cup {v}]
    /\ chain' = Append(chain, c)
    /\ UNCHANGED <<alloc, markVars, gcState, cw, sweepVars, full>>

\* Yield or return: a value goes back to the resumer's stack.
Yield(v) ==
    /\ Mutator
    /\ Len(chain) > 1
    /\ v \in refs[Running]
    /\ HasRoom(chain[Len(chain) - 1], v)
    /\ refs' = [refs EXCEPT ![chain[Len(chain) - 1]] = @ \cup {v}]
    /\ chain' = SubSeq(chain, 1, Len(chain) - 1)
    /\ UNCHANGED <<alloc, markVars, gcState, cw, sweepVars, full>>

MutatorStep ==
    \/ \E t \in Table : NewTable(t)
    \/ \E th \in Thread : NewThread(th)
    \/ \E s \in Str : NewString(s)
    \/ \E f \in Func : NewFunc(f)
    \/ \E s \in Str : InternHit(s)
    \/ \E t \in Table, v \in Obj : Load(t, v)
    \/ \E v \in Obj : Drop(v)
    \/ \E t \in Table, v \in Obj : Store(t, v)
    \/ \E t \in Table, v \in Obj : StoreApi(t, v)
    \/ \E t \in Table, v \in Obj : Remove(t, v)
    \/ \E c \in Thread, v \in Obj : Resume(c, v)
    \/ \E v \in Obj : Yield(v)

---------------------------------------------------------------------------
(* Collector *)

\* Mutant: an abandoned cycle's marks are not reset.
MarksKept_All == marked

\* The marks that start_gc_cycle leaves: reset_marked runs on every pool but
\* the strings'.
MarksKept == marked \cap Str

\* start_gc_cycle: flip the white, forget every mark but the strings', mark
\* the roots.  gc_gray is overwritten, gc_grayagain and gc_weak are not.
BeginCycle ==
    LET roots == {Globals, Main, Running}
    IN  /\ gcState' = "Propagate"
        /\ cw' = 1 - cw
        /\ marked' = MarksKept \cup roots
        /\ color' = [o \in Obj |-> IF o \in roots THEN "B" ELSE color[o]]
        /\ gray' = roots
        /\ UNCHANGED <<alloc, refs, grayagain, gcweak, sweepVars, chain>>

\* Mutant: a cycle also starts while finalizers are pending.
StartCycle_Pending ==
    /\ full = "no"
    /\ gcState \in {"Pause", "Finalize"}
    /\ BeginCycle
    /\ UNCHANGED full

\* A safe point (gc_collect, call_c, collectgarbage "step") opens a cycle.
StartCycle ==
    /\ full = "no"
    /\ gcState = "Pause"
    /\ BeginCycle
    /\ UNCHANGED full

\* Mutant: a traversed thread turns black like any other object.
Rescanned_None(g) == {}

\* Threads are never black: a traversed thread turns gray and waits on
\* gc_grayagain for the atomic phase.
Rescanned(g) == {g} \cap Thread

\* One object of Marker::propagate_step.
PropagateOne(g) ==
    LET N == MarkValues(Strong(g), marked \cup {g})
    IN  /\ gcState = "Propagate"
        /\ g \in gray
        /\ marked' = marked \cup {g} \cup N
        /\ color' = [o \in Obj |->
              IF o \in N THEN "B"
              ELSE IF o \in Rescanned(g) THEN "G"
              ELSE IF o = g THEN "B"
              ELSE color[o]]
        /\ gray' = (gray \ {g}) \cup (N \cap Listed)
        /\ grayagain' = grayagain \cup Rescanned(g)
        /\ gcweak' = gcweak \cup ({g} \cap Weak)
        /\ gcState' = IF gray' = {} THEN "Atomic" ELSE "Propagate"
        /\ UNCHANGED <<alloc, refs, cw, sweepVars, full, chain>>

\* Marker::propagate run to the end: the least set of objects outside the
\* marks m that holds every unmarked strong child of G and of its members.
NewMarks(G, m) ==
    LET U == Obj \ m
        Holds(S) == \A o \in G \cup S : Strong(o) \cap U \subseteq S
    IN  {o \in U : \A S \in SUBSET U : Holds(S) => o \in S}

\* may_clear: is the weak entry v dropped, given the marks m and the
\* finalized userdata fin.  Userdata goes by colour, the rest by mark.
MayClear(v, m, fin) ==
    \/ v \in (Table \cup Func \cup Thread) \ m
    \/ v \in UData \ m /\ IsDead(color[v])
    \/ v \in fin

\* An entry v that MayClear leaves in a weak table, given the marks m, although
\* the sweep takes it or although nothing marks what it refers to: unmarked
\* userdata without the other white, fresh or black from an abandoned cycle.
Misjudged(v, m) ==
    /\ v \in UData \ m /\ ~IsDead(color[v])
    /\ color[v] = "B" \/ ~(refs[v] \subseteq m)

\* The weak tables that clear_weak goes through, N being newly marked.
WeakSeen(N) == gcweak \cup ((gray \cup grayagain \cup N) \cap Weak)

\* The end of the atomic phase, N being newly marked, undead the userdata
\* set aside for finalization and fin all the finalized userdata: weak
\* entries about to be swept are dropped (a string there is marked and
\* kept), the work lists are emptied and the sweep is set up.
AtomicFinish(N, undead, fin) ==
    LET done == gray \cup grayagain \cup N
        weak == WeakSeen(N)
        kept == UNION {refs[t] \cap Str : t \in weak}
    IN  /\ marked' = marked \cup N \cup kept
        /\ color' = [o \in Obj |->
              IF o \in (Thread \cap done) \cup undead THEN "G"
              ELSE IF o \in N \cup kept THEN "B" ELSE color[o]]
        /\ refs' = [o \in Obj |->
              IF o \in weak
              THEN {v \in refs[o] : ~MayClear(v, marked \cup N, fin)}
              ELSE refs[o]]
        /\ gray' = {} /\ grayagain' = {} /\ gcweak' = {}
        /\ gcState' = "Sweep"
        /\ pool' = 1 /\ swept' = {}
        /\ UNCHANGED <<alloc, cw, full, chain>>

\* gc_onestep in state Atomic, with no userdata to finalize: re-traverse
\* gc_grayagain and gc_gray to the end.
AtomicPhase ==
    /\ gcState = "Atomic"
    /\ AtomicFinish(NewMarks(gray \cup grayagain, marked), {}, {})

\* sweep_one_pool's order: strings, tables, functions, threads, upvalues,
\* userdata.
Rank(o) == IF o \in Str THEN 1 ELSE IF o \in Table THEN 2
           ELSE IF o \in Func THEN 3 ELSE IF o \in Thread THEN 4
           ELSE IF o \in Upval THEN 5 ELSE 6
LastPool == 6

\* What is left of the pool being swept.
ToSweep == {o \in alloc \ swept : Rank(o) = pool}

\* The effect of sweeping the objects of D.  (A freed object's header and
\* contents mean nothing; they get fixed values.)
SweepSet(D) ==
    LET dead == {o \in D : ~Alive(o)}
    IN  /\ alloc' = alloc \ dead
        /\ refs' = [o \in Obj |-> IF o \in dead THEN {} ELSE refs[o]]
        /\ color' = [o \in Obj |-> IF o \in dead THEN "W0"
                                   ELSE IF o \in D \cap marked
                                   THEN ChangeWhite(color[o]) ELSE color[o]]
        /\ marked' = marked \ D

\* Interner::sweep takes the whole string pool in one step.
SweepStrings ==
    /\ gcState = "Sweep" /\ pool = 1
    /\ SweepSet(Str \cap alloc)
    /\ pool' = 2 /\ swept' = {}
    /\ UNCHANGED <<gcState, cw, gray, grayagain, gcweak, full, chain>>

\* One object of Pool::sweep_limited; the pool is done with its last one.
SweepOne(o) ==
    /\ gcState = "Sweep" /\ pool \in 2 .. LastPool
    /\ o \in ToSweep
    /\ SweepSet({o})
    /\ IF ToSweep = {o} THEN pool' = pool + 1 /\ swept' = {}
                        ELSE pool' = pool /\ swept' = (swept \cup {o}) \cap alloc'
    /\ UNCHANGED <<gcState, cw, gray, grayagain, gcweak, full, chain>>

\* sweep_one_pool on a pool with nothing (more) in it.
SweepEmptyPool ==
    /\ gcState = "Sweep" /\ pool \in 2 .. LastPool
    /\ ToSweep = {}
    /\ pool' = pool + 1 /\ swept' = {}
    /\ UNCHANGED <<alloc, refs, markVars, gcState, cw, full, chain>>

\* All pools swept: the cycle ends.
SweepEnd ==
    /\ gcState = "Sweep" /\ pool = LastPool + 1
    /\ gcState' = "Pause"
    /\ UNCHANGED <<alloc, refs, markVars, cw, sweepVars, full, chain>>

\* collectgarbage("collect"): run_finalizers finds nothing pending and puts
\* the collector in Pause, abandoning a cycle in progress; full_gc then
\* starts a new one.
CollectBegin ==
    /\ full = "no"
    /\ BeginCycle
    /\ full' = "run"

\* lua_gc(LUA_GCCOLLECT): full_gc finishes a cycle in progress first.
FullGcBegin ==
    /\ full = "no"
    /\ full' = "drain"
    /\ UNCHANGED <<alloc, refs, markVars, gcState, cw, sweepVars, chain>>

FullGcDrained ==
    /\ full = "drain" /\ gcState = "Pause"
    /\ BeginCycle
    /\ full' = "run"

\* full_gc returns with both gray lists emptied.
FullGcEnd ==
    /\ full = "run" /\ gcState = "Pause"
    /\ full' = "no"
    /\ gray' = {} /\ grayagain' = {}
    /\ UNCHANGED <<alloc, refs, marked, color, gcweak, gcState, cw, sweepVars, chain>>

CollectorStep ==
    \/ StartCycle
    \/ \E g \in Obj : PropagateOne(g)
    \/ AtomicPhase
    \/ SweepStrings
    \/ \E o \in Obj : SweepOne(o)
    \/ SweepEmptyPool
    \/ SweepEnd
    \/ CollectBegin
    \/ FullGcBegin
    \/ FullGcDrained
    \/ FullGcEnd

---------------------------------------------------------------------------
(* Specification *)

Init ==
    /\ alloc = {Globals, Main}
    /\ marked = {}
    /\ color = [o \in Obj |-> "W0"]
    /\ refs = [o \in Obj |-> {}]
    /\ gcState = "Pause"
    /\ cw = 0
    /\ gray = {} /\ grayagain = {} /\ gcweak = {}
    /\ pool = 1 /\ swept = {}
    /\ full = "no"
    /\ chain = <<Main>>

Next == MutatorStep \/ CollectorStep

Spec == Init /\ [][Next]_vars

---------------------------------------------------------------------------
(* Properties *)

\* Every variable holds a value of the code's types; the gray lists only
\* hold kinds that the marker traverses.
TypeOK ==
    /\ alloc \subseteq Obj
    /\ marked \subseteq Obj
    /\ color \in [Obj -> Colors]
    /\ refs \in [Obj -> SUBSET Obj]
    /\ gcState \in GcStates
    /\ cw \in {0, 1}
    /\ gray \subseteq Listed
    /\ grayagain \subseteq Listed
    /\ gcweak \subseteq Weak
    /\ pool \in 1 .. LastPool + 1
    /\ swept \subseteq Obj
    /\ full \in {"no", "drain", "run"}
    /\ chain \in Seq(Thread) /\ Len(chain) > 0 /\ chain[1] = Main

\* S contains the roots and whatever its members refer to, weakly or not.
Closed(S) == Roots \subseteq S /\ \A o \in S : refs[o] \subseteq S

\* Memory safety of the heap: whatever Lua code can reach, through any
\* number of strong or weak references, is still allocated.
NoDangling == \E S \in SUBSET alloc : Closed(S)

\* The marker and clear_weak never touch freed memory: everything on
\* gc_gray, gc_grayagain and gc_weak, and everything those refer to, is
\* still allocated.
WorklistsAllocated ==
    \A o \in gray \cup grayagain \cup gcweak :
        o \in alloc /\ refs[o] \subseteq alloc

---------------------------------------------------------------------------
(* Why the heap stays safe: the inductive invariant behind NoDangling. *)

Marking == gcState \in {"Propagate", "Atomic"}
Lists == gray \cup grayagain

\* Each resumer keeps the coroutine it resumed on its stack, and no thread
\* is active twice.
ChainOK ==
    /\ \A i, j \in 1 .. Len(chain) : chain[i] = chain[j] => i = j
    /\ \A i \in 1 .. Len(chain) - 1 : chain[i + 1] \in refs[chain[i]]

\* Only closures and stacks refer to upvalue cells.
CellsOK == \A o \in Table \cup Upval : refs[o] \cap Upval \cap alloc = {}

\* Strings refer to nothing, userdata to its metatable and freed objects to
\* nothing.
KindsOK ==
    /\ \A s \in Str : refs[s] = {}
    /\ \A u \in UData : refs[u] \subseteq Table
    /\ \A o \in Obj \ alloc : refs[o] = {}
    /\ CellsOK

\* While marking: the root objects are marked, and a marked object that is
\* not waiting on a list has only marked strong children; if it is a table
\* it is black, so that a store re-lists it; threads always wait on a list;
\* weak tables are recorded.
MarkingOK ==
    Marking =>
        /\ Globals \in marked /\ Main \in marked
        /\ \A o \in marked \ Lists : Strong(o) \subseteq marked
        /\ \A o \in marked \ Lists : o \in Table => color[o] = "B"
        /\ \A o \in marked \ Lists : o \notin Thread
        /\ \A o \in marked \ Lists : o \in Weak => o \in gcweak

\* The sweep has yet to decide about o.
Unswept(o) == Rank(o) > pool \/ (Rank(o) = pool /\ o \notin swept)

SweepOK(S) ==
    gcState = "Sweep" =>
        /\ swept \subseteq alloc
        /\ pool = 1 => swept = {}
        /\ \A o \in S : Unswept(o) => Alive(o)

\* S witnesses NoDangling and contains all that the collector holds on to.
Witness(S) ==
    /\ Closed(S)
    /\ marked \cup Lists \cup gcweak \subseteq S
    /\ SweepOK(S)

\* NoDangling together with what keeps it true: tri-colour marking
\* (barrier_back, threads never black) up to the atomic phase, and the
\* sweep's liveness test after it.
HeapInv ==
    /\ TypeOK
    /\ ChainOK
    /\ KindsOK
    /\ MarkingOK
    /\ \E S \in SUBSET alloc : Witness(S)
=============================================================================
