# A TLA+ verification project for luajit-rs

luajit-rs is a LuaJIT-compatible Lua engine in Rust: a bytecode compiler, a
NaN-boxed interpreter, an incremental collector, a tracing JIT compiler with two
machine-code backends, an FFI, the standard library and a C-style embedding API.
This directory models the parts of it where *sequences of steps* decide whether
it is correct, from source program to compiled trace, checks them with TLC and
proves the most important results with TLAPS. Paths below are relative to `crates/luajit-rs/src/`.

Contents: 1 inventory, 2 modules, 3 runs, 4 bounds and fairness, 5 proofs,
6 what the code does differently from what it says, 7 abstractions and what is
not modelled, 8 plan.

## 1. Inventory

The engine is single threaded: there are no locks and no shared memory. What
interleaves is the *program* (the mutator) with the *steps of the collector*,
the collector with *finalizers* that are Lua code themselves, a *recording*
with the execution it observes, and several *coroutines* that take turns on one
interpreter.

| component | state | operations | talks to |
|---|---|---|---|
| collector, `runtime/gc.rs` | pools per kind, header (mark, colour), gray lists, weak list, phase, current white, sweep cursor, pending finalizers | allocate, barriers, `gc_step`, `atomic_phase`, sweep of each pool, `full_gc` | every allocation; interner (its own pool), threads (their stacks), finalizers |
| finalizers, `vm/mod.rs` `run_finalizers`, `runtime/userdata.rs` | `gc_mmudata`, FINALIZED bit | separate, call, fail, nest | collector, Lua code |
| closures and upvalues, `runtime/func.rs`, `vm/mod.rs` | cell: open (slot of a stack) or closed; a thread's `openuv` | FNEW, UGET/USET, close, free | threads, collector |
| string interner, `runtime/string.rs` | slots with tombstones, counts, `by_id` | `intern`, `grow`, `unlink` on sweep | collector, parser, every string |
| trace lifecycle, `jit/trace.rs`, `jit/mod.rs`, loop arms of `vm/mod.rs` | registry, hot counts, penalty cache, the recording, patched bytecode | hot, start, abort, stop, flush, blacklist | interpreter, recorder, executor |
| trace execution, `jit/exec.rs`, `jit/asm/*`, `jit/mcode.rs` | snapshots' exit counters, machine-code areas | enter, follow link, exit, hot exit | trace lifecycle, interpreter |
| recorder and optimiser, `jit/record.rs`, `jit/ir.rs`, `jit/opt/*` | slot map, IR, snapshots, call depth | record an instruction, fold, loop, sink, dce | trace lifecycle |
| interpreter, `vm/mod.rs`, `vm/meta.rs`, `vm/err.rs` | one stack, frame links in it, base, top, multiple results, open upvalues, hooks | one arm per opcode, calls, metamethod chains, errors | everything |
| coroutines, `stdlib/coroutine.rs`, `runtime/state.rs` | status, own stack, resumer, C depth | create, resume, yield, wrap, close by error | interpreter, collector |
| tables, `runtime/table.rs`, `runtime/meta.rs` | array part, hash part with chains, metatable, negative metamethod cache | get, set, rehash, next, length | interpreter, collector |
| compiler, `compiler/*` | scopes, registers, jump lists, expression descriptors, constants, lexer state | one method per production; dump and undump | interner, collector (prototypes) |
| FFI, `ffi/*` | type table, callback slots, loaded libraries | cdef, new, cast, call, callback | interpreter, C code |
| embedding API, `api/mod.rs` | the Lua stack | push, get, set, call, gc | all of the above |
| libraries, `stdlib/*`, `util/*` | file handles, `package.loaded`, captures of a match | library functions | interpreter |
| `runtime/gc_gen/*` | a generational collector | none that is called | - |
| command line, wasm | options | REPL, script | API |

**Hard behaviours.** (a) A store, a load, an allocation or a stack switch
between any two steps of an incremental cycle, and cycles abandoned half way
by `collectgarbage`. (b) Finalizers that run between cycles, allocate, collect,
resurrect or fail. (c) Cells and stacks of different pools that are freed in
different cycles. (d) A hash table whose entries are removed by the sweep while
their ids are kept elsewhere. (e) Trace numbers copied into bytecode, into
other traces and into a recording while traces are flushed and numbers reused.
(f) Coroutines that fail, are resumed again or nest. (g) Things that must
eventually happen: garbage is freed, cycles end. (h) A one-pass compiler that
decides about registers and jumps before it has seen what follows. (i) A trace
that was recorded in one iteration, reordered, shortened and unrolled, and then
left in the middle of another iteration: the interpreter must find the stack,
the frames and the pc it would have had. (j) A matcher that backtracks over
shared state; a sort whose comparator is a Lua function.

**What makes each modelled component correct.**

* collector: nothing reachable is ever freed, nor anything on a work list;
  garbage is freed in the end.
* finalizers: at most once per object, on an object that is still there with
  its metatable, all of them before the next cycle begins.
* upvalues: an open cell points into an allocated stack, is closed by the
  thread that owns it and nobody else; what is stored in a cell survives.
* interner: equal strings are one object; ids are never reused; probes end.
* tables: a map, whatever the layout; a rehash makes enough room; `next` returns
  every key once; `len` is a border.
* traces: bytecode and links only lead to registered traces of the right loop;
  no loop is compiled twice; a tree's side traces are counted.
* compiler and interpreter: a program computes what its syntax tree means; frames
  stay linked; no instruction leaves its frame; open upvalues stay on the stack.
* recorder, optimiser, executor: the same program computes the same with any loops
  compiled at any time, and no pass removes what is still needed.
* libraries: a match is the first one by the meaning of the pattern; substitution
  rebuilds the text around the matches; a sort permutes or leaves the table alone.

The hazards, line by line, with the properties that watch over them, are under
"hazards" in `PROJECT.json`.

## 2. Modules

| module | models | extends |
|---|---|---|
| `GcHeap` | `runtime/gc.rs` with the mutator: allocation, table stores with `barrier_back`, the API's forward barrier, loads, the interner's eager mark, resume and yield | - |
| `GcLiveness` | `GcHeap` with fairness; what is freed eventually | `GcHeap` |
| `GcFinalizers` | userdata with `__gc`: `separate_finalizable`, `run_finalizers`, `collectgarbage`, the API's `full_gc` | `GcHeap` |
| `GcUpvalues` | closures, open and closed upvalues, the thread pool's `on_free` | `GcHeap` |
| `GcHeapProofs` | proofs about `GcHeap` | `GcHeap`, TLAPS |
| `GcFinalizersProofs` | which finalizers run, and when; memory safety with finalizers | `GcFinalizers`, `GcHeapProofs` |
| `GcUpvaluesProofs` | proofs about `GcUpvalues` | `GcUpvalues`, `GcHeapProofs` |
| `StringTable` | what an interner promises: a map from live strings to fresh ids | - |
| `Interner` | `runtime/string.rs`; implements `StringTable` | instantiates it |
| `InternerProofs` | proofs about `Interner`, and the refinement | `Interner`, `CountLemmas` |
| `JitTraces` | `jit/trace.rs`, entering and leaving traces, loop arms of the interpreter | - |
| `JitTracesProofs` | proofs about `JitTraces` | `JitTraces`, `CountLemmas` |
| `Coroutine` | `stdlib/coroutine.rs`, the suspend and resume code of `vm/mod.rs`, pcall and xpcall | - |
| `CoroutineProofs` | proofs about `Coroutine` | `Coroutine`, `CountLemmas` |
| `CountLemmas` | a set of numbers has a least and a greatest element | TLAPS |
| `TableMap` | what a table promises: a finite map | - |
| `LuaTable` | `runtime/table.rs`, `meta_fast`, `lib_next` | instantiates `TableMap`, beside it and as what it implements |
| `LuaTableProofs` | proofs about `LuaTable`, and the refinement | `LuaTable`, `CountLemmas` |
| `Bytecode` | `compiler/bc.rs`: instructions and values | - |
| `Emitter` | `compiler/parse.rs`: jump lists, registers, discharge of expressions | `Bytecode` |
| `Compiler` | `compiler/parse.rs`: variables, scopes, goto, every production down to prototypes | `Emitter` |
| `Vm` | `vm/mod.rs`, `vm/meta.rs`: the instructions, calls, metamethods, C functions | `Bytecode` |
| `LuaRef` | what a program means; models no code | `Bytecode` |
| `Syntax`, `Programs`, `LoopPrograms` | the programs that are run | - |
| `CompiledCode` | composes compiler and interpreter, compares with `LuaRef` | `Vm`, instantiates the others |
| `TraceIR` | `jit/ir.rs`, `opt_fold.rs`, `opt_mem.rs`: emission with folding and CSE | `Bytecode` |
| `TraceOpt` | `opt_dce.rs`, `opt_sink.rs`, `opt_narrow.rs`, `opt_loop.rs` | `TraceIR` |
| `Recorder` | `jit/record.rs`, set-up of a recording in `jit/trace.rs` | `TraceOpt` |
| `TraceExec` | `jit/exec.rs`, the portable executor and the snapshot restore | `Recorder` |
| `TracedVm` | `jit/trace.rs` and the loop instructions of `vm/mod.rs` around all of it | `Vm` |
| `Patterns` | `stdlib/pattern/*`: the matcher | - |
| `TableLib` | `stdlib/sort.rs`, `stdlib/table.rs` | - |
| `Library` | calls of `stdlib/string.rs` and `stdlib/table.rs`, one step per round | `Patterns`, `TableLib` |
| `PatternRef` | what a pattern means; models no code | - |
| `LibraryProps` | what the library calls promise | `Library`, `PatternRef` |
| `MC*` | the instances TLC checks; `GcHeap` and `GcLiveness` need no module of their own, only an `MC*.cfg`; `MCPrograms` composes compiler, interpreter and trace compiler, `MCStrings` puts the interner beside the library | |

**GcHeap.** An object is a name, its kind the constant set it belongs to.
`alloc` is the union of the pools, `marked` and `color` the header, `refs` what
the object's traversal function visits (stack of a thread, entries of a table,
environment, constants and captured values of a function). `gcState`, `cw`,
`gray`, `grayagain`, `gcweak`, `pool`, `swept` are the fields of `GcHeap`;
`full` is the position inside `full_gc`; `chain` the resumed threads.
Mutator actions: `NewTable`, `NewThread`, `NewString`, `NewFunc`, `InternHit`
(a string found in the table), `Load`, `Drop`, `Store` (interpreter: store, then
`barrier_back`), `StoreApi` (the forward barrier of `api/mod.rs`), `Remove`,
`Resume`, `Yield`. Collector actions: `StartCycle`, `PropagateOne`,
`AtomicPhase`, `SweepStrings`, `SweepOne`, `SweepEmptyPool`, `SweepEnd`,
`CollectBegin` and `FullGc*`. The code takes 32 gray or 40 swept objects at a
time; one action is one object, so every batch boundary is a state.

**GcFinalizers** adds `mmudata` (the pending list), `finalized`, `calls` (the
activations of `run_finalizers`, innermost last, with who called it) and `ran`
(whose finalizer ran; a history variable). Lua code runs only when no
activation is between two finalizers. `ApiCollect` and `ApiFullGc` are
`lua_gc(LUA_GCCOLLECT)`, which calls `full_gc` in any phase and with no
`run_finalizers` around it. Two things go wrong in the code and are steps of the model;
a history variable records each, and the properties say what holds until then: `forced`, that
`full_gc` drained a cycle to `Finalize` and opened the next one over pending finalizers,
which nothing marks; `misjudged`, that `clear_weak` left an entry in a weak table which the
sweep will not keep, as it goes by the colour of userdata.

**GcUpvalues** adds `owner`: the thread whose stack `u->v` points to, or the
cell itself. What an open cell reads is the owner's stack. `USet` stores anything the
running stack holds, and `missed` records a store that would have needed the barrier which
`Upval::set` has not: an unmarked value into a marked cell while the cycle marks.

**Interner** keeps the array of slots (`Empty`, `Tombstone`, or an id), the two
counters and the pool. `grow` and the sweep take one step per entry; nothing
else runs in between, as in the code. `text` says what each id was allocated
with and is the refinement mapping's source: `StringTable`'s `ids` and `used`
are computed from `pool` and `text`.

**JitTraces** keeps one state per header instruction (`op`, `opd`, `jfori`), the
registry `trace`, the recording `rec`, the penalty cache and
the deferred invalidation. What the recorder makes of the instructions between
start and stop is nondeterministic: it stops with any link that the bytecode
offers or aborts with any class of error (retry, blacklist, the two errors
with special treatment). Hot counters are hashed and shared, so any counting
header may become hot at any time; `jit.off` only stops the counting and is
covered by that. `JitFlush` is `jit.flush` and `debug.sethook`: the registry is emptied
and the bytecode stays patched; `left` remembers the headers that were patched then, and
`EnterFreed` is an execution that comes to a number without a trace. `panicked` records
that an `expect` or `unwrap` met a freed trace.

**Coroutine** keeps each thread's frames as a sequence of kinds, its status,
`c_depth` and `c_base`, and the `suspend` record. `chain` is the nesting of
`do_resume` calls, `raising` a runtime error on its way up. A yield computes,
frame by frame, what `suspend_call`, `suspend_return`, `call_c` and `lib_pcall`
note and where they move the yielded values (`Noted`), on a stack laid out as the
interpreter does it with one local per Lua function. A tail call of `yield` takes over the
frame (`"tail"`). Every yield is modelled, through `xpcall`, nested and tail-called `pcall`
too; `YieldPasses` says of the ones through Lua calls and ordinary `pcall`s and of tail
yields what they deliver, and makes no claim about the others, which go wrong (section 6).

**LuaTable** is the layout of one table: `array`, `node` (key, value, `next` index),
`hmask`, `freetop` and `nomm` in a record, as set, rehash and resize call each
other. The loop of `set` that starts over after a rehash, and the `set` of every
entry inside `resize`, end at once or raise `full`; `RehashFits` says that they end.
`best_asize` is given by what its loop selects; the chains are walked as in the
code. Every store is also a step of `TableMap` on `map`, with which `IsMap` compares
`get`; `ImplementsMap` is `TableMap` with `get` alone for its map. `trav` is a
traversal: the key `next` continues from, the keys it returned and those it still owes, and
in `moved` whether the array part grew while it was in the hash part.
The limits on the sizes are those of the code (2^27 + 1 array slots, 2^26 nodes); where
the code panics with "table overflow" the model cannot step (`Overflows`). `Ints` are the
integer keys that may go to the array part; an integer beyond is, like any other number,
a member of `Objs`: it only hashes.

**Compiler** (with `Emitter`) is the one-pass code generator as operators: `f` is
the `FuncState`, `p` the parser with the functions around it. An operator stands
for the method of its name, and where a method changes its `ExpDesc` both are
returned. The input is a tree of statements and primary expressions; operator
expressions are flat lists of operands and operators, because `expr_binop` resolves
precedence and emits code in one go. Constants are carried by the instructions,
and operands have no width.

**Vm** has one variable, the record `m`. The stack holds values and frame links, as in
the code: a return link, a vararg link, a continuation link of a metamethod, a link
to C. Every instruction or pair of like instructions is an action. A call from C
into Lua (`pcall`, a metamethod that the C code calls) does not nest evaluation:
`m.host` remembers the waiting C frames, `m.hand` what is on its way between C and the
interpreter (a call, results, an error), so taking an error up through the frames
(`TakeError`) is a step of its own. `m.left` collects the open upvalues that an error leaves
in discarded frames: `run` closes those of the frame that failed, the others stay open. C functions are `pcall`, `error`, `setmetatable`,
`next`, `rawget`, `rawset`, `type`, `tonumber`, a few of `math` and `table`, and a host
function `out` through which programs are observed.

**CompiledCode** compiles every program of a family, runs it and compares how it
ended, its results and its log with `LuaRef!Meaning`, an evaluator with a store of
cells and no registers, stack, frames or jumps.

**Recorder** translates the instruction that is about to be executed, given the state
of the interpreter, to IR with guards and snapshots: slots, inlined calls with their
frames, `for` and iterator loops, table, upvalue and global access, metamethods,
comparisons, concatenation, varargs, stitching at calls that cannot be recorded,
and the limits that end a recording. **TraceIR** simplifies as it emits; **TraceOpt** is
the pipeline at the end (dead code, loop unrolling with PHIs, sinking, narrowing). IR
numbers are exact rationals. **TraceExec** interprets a pass through the IR over an
environment, with the memory effects on the interpreter's state; a failing guard
restores the stack from the snapshot before it, allocates what was sunk, and leaves
the frame and pc of the interpreter.

**TracedVm** runs the interpreter with `jit` beside it: any loop may become hot at any
of its executions (the hot counters are hashed and shared), recordings abort, are
penalised and blacklist their loop, traces replace the loop instruction, hot exits
start side traces, a trace links to itself, to its root or to another one. The
recorder, the passes and the executor are operator parameters, filled in by
`MCPrograms`. A program says how many recordings it may start (`records`): none in the
families of `Programs`, two in `LoopPrograms`.

**Patterns** is the matcher, function by function, over a match state that is passed along
and that backtracking has to repair. **Library** runs a request: a call of `find`, `match`,
`gmatch`, `gsub`, `sub` or `sort`, or a series of calls of `table.insert`, `remove`, `move`
and `sort` on one table. The replacement function of `gsub` returns anything; the
comparators of `sort` include ones that are no order and ones that fail. **PatternRef**
defines the match without a matcher: a way to match is the sequence of lengths the
items take, and the first way in the order of preference is the match.

## 3. Runs

| run | result | what it shows |
|---|---|---|
| `heap` | pass | `NoDangling`, `WorklistsAllocated` and the inductive `HeapInv` with coroutines and a weak table at every point of incremental, full and abandoned cycles |
| `finalizers` | pass | `FinalizedAtMostOnce`, `PendingAllocated`, `NoCycleWhilePending` and `FinHeapSafe` with finalizers that resurrect, fail, allocate, collect and nest, a proxy in a weak table, and collections from the API |
| `weak_userdata` | violation | userdata that a weak table holds is freed: `may_clear` goes by its colour, which an abandoned cycle left black |
| `upvalues` | pass | `CapturesSafe`, `OpenSlotAllocated`: closures share cells, assign to them and may outlive the coroutine whose local they captured |
| `upvalues_store` | violation | an upvalue store has no barrier |
| `garbage_freed` | pass | `GarbageCollected`: unreachable closures and strings are freed in the end |
| `strings` | pass | `ProbesEnd`, `SlotsLive`, `Findable`, and that the interner implements `StringTable`; `FirstMatch`, `EveryMatch`, `Rebuilt`, `SubRange`, `IsList`, `SortsOrKeeps` of single library calls |
| `traces` | pass | `EntryLive`, `LinksLive`, `SideCount`, `CompiledOnce`, with every kind of flush |
| `coroutines` | pass | `StatusChain`, `DepthExact`, `YieldPasses` for two coroutines that resume, yield, fail and call through pcall, xpcall and C in any nesting |
| `table` | pass | `IsMap`, `RehashFits`, `LenIsBorder`, `EachOnce`, `NommSound` for one table under stores, deletions, pushes, weak clearing and traversals |
| `programs` | pass | `Outcome`, `FramesLinked`, `OpenOnStack`, `FrameCovered`, `InFrame`: programs of every statement and expression form, compiled and executed; `TracedOutcome`, `NoDangling`: loops that are recorded, optimised, run as traces and left through exits at any time still compute what the source means |
| `errors` | violation | `UnwindingCloses`: after an error was caught, upvalues of the discarded frames are still open |

Each property of a passing run has a mutant: a changed form of a definition
(`Name_Variant`, next to the original) that makes TLC report the property.

`MCStrings` runs two components that do not interact: a behaviour either works on the
string table or makes one library call. `MCPrograms` runs each program by itself.

## 4. Bounds and fairness

*Heap.* Two tables (the globals and a weak one), the main thread and one
coroutine, two values per stack, one entry per table (2.2 million states). Two
objects of each kind suffice for a store of an unmarked object into a traversed
one, a stack that receives the only reference to an object in mid-cycle, and
objects of a swept and of an unswept pool that refer to each other. Objects are
allocated again after they were freed, so stale marks and list entries show.
That the bounds lose nothing is the content of the theorem (section 5).

*Finalizers.* One userdata with a `__gc` metatable, activations nested twice. So that a weak
table takes part within these bounds, a behaviour may also begin between two cycles with a
proxy that only its own, weak metatable holds (`ProxyInWeakTable`). What follows a lapse
(`forced`, `misjudged`) is not explored (`BeforeLapse`): the properties ask nothing of it.
In `weak_userdata` the program starts from nothing, with a weak table and no `__gc`.
*Upvalues.* One closure, one cell, two threads; the cell is reused after it is
freed, and any value of the stack may be assigned to it. *Liveness.* One string and one closure; the colour of
each goes through all four values.

*Interner.* Five strings whose hashes collide at 4 and at 8 slots, wrapping
around; seven ids, so that each string can be freed and interned again; one
growth. The table starts at 4 slots instead of 512.

*Traces.* A `for` loop and a function header of one prototype, three trace
numbers, two exits per trace, `hotexit` = `tryside` = 1, one penalty slot.
Three numbers allow two roots with a side trace, or a root with a side trace of
a side trace, and running out of numbers. States with three traces in which a deferred flush
is due, or that follow a `jit.flush` which left a patched header, are checked and not
explored further (`FewAfterFlush`).

*Coroutines.* Two coroutines (interchangeable, hence the symmetry), three frames
per thread, yields of two and of three values, a nesting limit of 2 instead of
200. Three frames are the fewest that put a Lua function inside a pcall inside a
Lua function; three values the fewest that overlap when they are moved by two
slots, two the most that a tail yield delivers.

*Table.* The integers 1 to 3, a string and an object, two values; three hash
functions that place them on few nodes, so that main positions are taken, chains
meet and free nodes run out; tables that start empty or with two array slots and
two or four nodes. The two values are interchangeable, hence the symmetry. Array parts of 0, 2, 3, 4 and 5 slots and hash parts of 2 and 4 nodes
occur, with growth and shrinking of the array part.

*Compiled programs.* Families in `Programs`, each of which varies one thing: operands
and operators of logical and comparison expressions as value, condition and argument;
multiple assignment over every pair of places that share a variable; calls, varargs
and multiple results in the last position; closures captured in and out of loops
with break, goto and continue; safe navigation and the other extensions; numeric and
generic loops; each metamethod as a Lua and as a C function; errors under `pcall`, also ones
that unwind several frames which captured locals; tail calls. Numbers are integers, and bit operators are applied to non-negative
words. `LJ_MAX_IDXCHAIN` is 5 (100).

*Traced programs.* 369 loops of up to six iterations over arithmetic, branches, tables,
upvalues, calls (Lua, C, varargs, tail), iterators, nested loops, metamethods,
allocations that sink, concatenation and errors; two recordings per behaviour, so a
root with a side trace, two roots, or a retry after an abort; exits become hot at
the first time. The unrolling limits are 2, a trace has at most 60 instructions.
Later iterations differ from the recorded one, so guards do fail. With the families above
233,503 states.

*Library.* `find` with all patterns of up to three of eleven items (with captures, back
references, `%b`, `%f`, sets and all four quantifiers), anchored or not, and longer ones
with several captures, the other functions with up to two of sixteen items, on texts of up to three characters; four capture slots (32) and a nesting
of 30 (200). Sorted tables have up to five elements; ranges of up to three are sorted by
insertion (16), quicksort may go 0 to 2 levels deep before heapsort takes over, so
all three algorithms run. Lists see up to five calls.

*Fairness* is assumed in `GcLiveness` only: weak fairness of the collector's
progress. The interpreter calls `gc_step` at allocating instructions whenever
the debt is due and `full_gc` loops until the cycle ends, so a program that
keeps allocating keeps taking collector steps. Nothing is assumed of the
program: it may never drop a reference or call `collectgarbage`.
`GarbageCollected` is stated for programs that stop calling
`collectgarbage`, since each call may abandon a cycle. Without that premise a
call in every cycle, in step with the automatic ones, only ever frees objects
of one of the two whites.

*Deadlock* is checked except in `traces`, where a panic ends the engine; a program or
a call that is over stutters explicitly.

## 5. Proofs

`GcHeapProofs` proves, for any sets of objects and any bounds that satisfy
`KindsAssumption` and `BoundsAssumption`:

* `HeapInvariant`: `Spec => []HeapInv`;
* `MemorySafety`: `Spec => []NoDangling`;
* `WorklistSafety`: `Spec => []WorklistsAllocated`;
* `TypeCorrect`: `Spec => []TypeOK`.

`NoDangling` says that some set of allocated objects contains the roots and is
closed under references. It is not inductive: whether an object may be freed
depends on marks, colours and the sweep's cursor. `HeapInv` adds

1. `ChainOK`, a resumer has the coroutine it resumed on its stack, so the running
   stack is reachable from the main thread;
2. `MarkingOK`, the tri-colour condition while marking: a marked object that
   waits on no list has only marked strong children, a table among them is
   black (the condition under which a store re-lists it), threads always wait
   on a list (their stacks are written with no barrier), weak tables are on
   the weak list;
3. a witness set `S`: closed, containing everything marked or listed, and of
   which the sweep will keep every member it has not reached (`SweepOK`).

The proof has a lemma per action. The witness changes where the argument does: an
allocation adds the new object; the atomic phase replaces the witness by the
set of marks, which the fixed point `NewMarks` closes (`NewMarksLeast`) once
weak entries that the sweep will free are dropped; a sweep step keeps it, since
it only frees what is not `Alive`; everything else leaves it or relies on the
value being held already. Reachability is deliberately expressed by closed sets
instead of paths, as paths would need induction.

**Finalizers.** `GcFinalizersProofs` proves `AtMostOnce` (`FinSpec =>
[]FinalizedAtMostOnce`) and `NeverWhilePending` (`[]NoCycleWhilePending`) for any number
of objects, any nesting of `run_finalizers` and any weak tables, up to a `full_gc` from the
API that opens a cycle over pending finalizers (`forced`). What makes them inductive is `PendingInv`: what waits in `mmudata` waits there once, has the FINALIZED
bit, has not been called, is allocated, and passes the sweep that is on its way
(`KeptBySweep`). Without the last part its name could be given to a new object, whose
FINALIZED bit is clear. That `mmudata` repeats nothing comes from its order being a
surjection between sets of one size.

It also proves `FinMemorySafety` (`FinHeapSafe`), `PendingStaysWhole`
(`PendingAllocated`) and `FinWorklistSafety`. The witness set of `HeapInv` must now hold
objects no program can reach: what is pending, and the metatables of all userdata that
may become so (`Needs`). The lemmas of `GcHeapProofs` are therefore stated for
`HeapInvWith(X)`, a witness set that contains `X`. What is special is the atomic phase,
which marks the metatables of what it separates and adds the separated objects to the
witness though they are not marked; `Drained`, which makes a half-finished cycle a
finished one; and `CallFinalizer`, which hands the program an object from outside.

Weak tables are arbitrary; `forced` and `misjudged` are the only two ways in which
memory safety fails. That is what the theorems say: nothing reachable is freed in any
state which neither precedes. Both are steps of the code, not assumptions on it. For
`misjudged` the run `weak_userdata` has the shortest case: userdata that an abandoned cycle
left black is not dead for `may_clear` (`gc.rs` 1513-1524, which goes by colour, under a
comment, 1530-1532, that calls this test exact) and stays in the weak table, though the
sweep takes it. In the other case userdata made during the mark phase has the current white
and stays too, and the metatable it shares with an older proxy goes. The proof needs of
`clear_weak` only that every entry left in a weak table is kept by the sweep with all it
refers to, and where it is not, `Misjudged` is true by definition.

**Upvalues.** `GcUpvaluesProofs` proves `UvMemorySafety` (`NoDangling`) and
`OpenSlotsAllocated` (`OpenSlotAllocated`) for any number of closures, cells and coroutines,
weak tables included (with `OwnerAssumption`: the mark of a closed cell is no thread). A cell is marked in place and followed at once, like userdata, so
`MarkValuesFollows` covers both (`InPlace`). A marked cell must have a marked value from
then on; nothing but a store into it changes that. `OwnerOK` adds that an open cell is on
the `openuv` list of the thread it points into, which is what `on_free` goes by when it
closes the cells of a dying thread. Any value may be assigned to a captured variable. The
theorems hold up to the first store that puts an unmarked value into a marked cell
(`missed`), so this is the only barrier that closures lack; what such a store leads to
is the run `upvalues_store`. `HeapInv` asks of cells only that closures and
stacks alone refer to them (`CellsOK`); the plain mutator and the finalizers make none
(`NoCellsMade`, `FinNoCellsMade`).

**Interner.** `InternerProofs` proves for every hash function, every set of strings and
every table size from 4 on: `ProbesAlwaysEnd`, `SlotsAlwaysLive`, `AlwaysFindable` (the
three invariants of the run) and `InternerImplements` (`Spec => ImplementsTable`: the
initial state and each step, a rehash or sweep in progress included, is one of
`StringTable` or a stutter). The inductive invariant `InternerInv` says that an array
*stores* a set of ids (`Stores`): it holds nothing else, nothing twice, and on the probe
for a string no empty slot lies before its id. It is stated of `slots` with the live
strings, and of the array that `grow` fills with the ids moved so far. The lemmas say
how `Stores` changes when an id is put into the slot a probe ends at, or a tombstone
replaces it. Probes end because `nuse` and `ndead` count the slots exactly and stay
below the size; exactness is cardinality arithmetic, which is where the bounds
of `grow` and of the load factor enter. The refinement then needs only `Stores`: a probe
that meets an empty slot has proved that the string is not live.

**Traces.** `JitTracesProofs` proves `EntriesLive`, `JumpsLive`, `NeverTwice` and
`ChildrenCounted`, the invariants of the run `traces`, for any program, any number of
traces and exits and any parameters. They hold together or not at all, and only with
`RecOK`, what a recording in progress relies on: its number stays free, the header of a
root stays unpatched, and the parent of a side trace keeps its free exit or everything has
been flushed. A header that `jit.flush` or `debug.sethook` came upon while it was patched is
an exception for good (`left`): no trace is ever recorded from it again, and `EntryLive` and
`LinksLive` say that it and the links recorded off it are the only entries to nothing. `SideCount` needs in addition that the children of a root are counted by
the exits that link to them.

**Coroutines.** `CoroutineProofs` proves `Scheduling` (`CoSpec => []StatusChain`) and
`DepthIsExact` (`CoSpec => []DepthExact`), for any number of coroutines and any nesting.
`StatusChain` is inductive once the types of `status` and `chain` are added: only a
suspended thread is appended to the chain, so it is not on it, and only a thread
other than `Main`, which has a resumer, leaves. `DepthExact` speaks of the running
thread only; inductive is that every thread's `c_depth` counts the calls from C among its
frames (and itself while it is on the chain), and that the frames a suspended
coroutine left have none, since only then does it yield. `YieldsPass` (`[]YieldPasses`)
is about one long step. A yield unwinds to one frame after the other, from the top down,
and each rewrites the note of the one above. `EveryNote` says that each of them notes the
values at its own slot, as protected exactly if a `pcall` is above it; its counterexample
with the highest frame would contradict how the frame above it hands on its note
(`NextNoting`). `YieldPasses` claims nothing about the yields that go wrong. `Noted` is a recursive function inside a definition; `NotedDef` shows
that there is one that satisfies its equations.

**Tables.** `LuaTableProofs` proves the five invariants of the run `table` for every
hash function, all sets of keys and values and all sizes up to the code's limits
(`TableAssumption`): `TableIsMap` (`IsMap`), `RehashAlwaysFits` (`RehashFits`),
`LengthIsBorder` (`LenIsBorder`), `TraversalEachOnce` (`EachOnce`), `NommIsSound`
(`NommSound`), and the refinement `TableImplements` (`Spec => ImplementsMap`). The
inductive invariant is `TableInv`:

1. `Shape`: the sizes agree, nodes are numbered by what `hmask` lets through, no key of
   the hash part belongs in the array part.
2. `Links`: links lead to nodes, no two to the same one and never in a circle; no key is in two
   nodes; the main position of every key is taken and leads to it (`Reached`); no node
   from `freetop` on is free. That a node is on a chain is said with closed sets: every
   set of nodes that contains the start and the successors of its members contains it.
3. `IsMap` and `NommSound` themselves.
4. `TravOK`: a traversal has a position; what it returned lies below it, deleted or not
   (`RawAt`), what it owes does not.

*Stores.* A key that finds its main position free, or taken by a node that is at home
there, lengthens a chain by one. In Brent's variation the node that is not at home moves to
a free place and its chain is redirected, which needs that exactly one node links to it.
*Resizing* starts from empty parts and stores entry by entry (`Filled`, by the least
position where it fails); it works if the keys that go to the hash part are no more than
its nodes. *Rehash* is where that is counted: `BestIs` says that the array size chosen
leaves what was counted outside it, `HbitsEnough` that `hsize2hbits` rounds up, for which
the powers of two up to 2^32 are tabulated, as the provers have no axioms for an exponent
that is a variable. *Traversals* go on over a store to a present key and over a weak clearing.
Most move nothing. The push path of `set_int` moves things also for a key that is
present, when it grows the array part: a traversal still in the array part finds what it owes
behind it (`Halfway` again), of one that was in the hash part nothing is claimed from then
on (`trav.moved`): the code then repeats keys, leaves some out or raises an error. *Length*: both binary searches keep a key at the lower end and none at the upper one
(`BorderFound`), the doubling finds such an upper end since keys are bounded.

The proof uses that integers are no objects (`TableAssumption`), so a weak clearing never
drops an entry for its integer key. `RehashFits` means that the loop of `set`
runs at most twice and that the `set` inside `resize` never resizes.

`CountLemmas` has the least and greatest element of a set of numbers, from the
well-foundedness of `<` (`WFMin`), which takes a set where the library's induction
theorems take an operator.

*Model-checked only*, and why:

* `GarbageCollected`: liveness under fairness.
* Compiled and traced programs (`Outcome`, `TracedOutcome`, `FramesLinked`, `OpenOnStack`,
  `FrameCovered`, `InFrame`, the `NoDangling` of `TracedVm`): compiler, reference evaluator, recorder and
  metamethod chains are recursive operators, and the bit operations come from `Bitwise`.
  `FramesLinked` and the three others depend on what the compiler emits: for bytecode
  that it does not emit they are false.
* The library (`FirstMatch`, `EveryMatch`, `Rebuilt`, `SubRange`, `IsList`,
  `SortsOrKeeps`): the matcher and the sort are recursive operators, the loops over lists
  are folds, whose steps are operator parameters.

The other way round, `ImplementsMap` is proved and not part of a run, which it would make
too long: TLC has checked it on the instance of the run `table` with one value for two.

## 6. Where the code and its own words differ

Shown by a run (details under "findings"):

* `upvalues_store`: USETV and its variants write a cell without a barrier.
* `weak_userdata`: `may_clear` decides by colour for userdata where its comment speaks of
  marks, so userdata that a weak table still holds is freed.
* `errors`: `run` (`vm/mod.rs` 1211-1221) closes the upvalues of the frame that failed; its
  comment speaks of closures captured before the error. A closure that captured a local of a
  frame further out, up to the protected call, then reads a slot that other frames use.

Part of the models, where a property of a passing run says what holds up to it or beside it:

* `full_gc` called by `lua_gc(LUA_GCCOLLECT)` in mid-cycle starts a new cycle although
  the drained one left finalizers pending: the `debug_assert` of `start_gc_cycle` (`gc.rs`
  1633) fails, and what is pending is not marked (`forced`).
* `jit.flush` and `debug.sethook` clear the registry and leave JFORL, JITERL, JLOOP and
  JFUNCF in the bytecode; the next execution meets `expect("executing a freed trace")`
  (`jit/exec.rs` 108), although `tests/luajit2_test/misc/jit_flush.lua` calls the function
  again after a flush (`left`).
* A yield inside a protected Lua function is continued after the `pcall`, which
  returns `true` and the resume values: the rest of the protected function never
  runs. The comment of `execute_yieldable` says such calls "may be yielded
  through"; the head of `stdlib/coroutine.rs` says they may not. `YieldPasses`
  makes no claim about where such a yield is continued.
* A yield through `xpcall`, through `pcall(pcall, f)` or through a tail-called `pcall`
  reads its values from the wrong slots, and `return coroutine.yield(a, b, c)` hands the
  resumer `c, b, c`, as `call_c` and `suspend_return` both move the values.
* The push path of `set_int` also runs for a key that exists in the hash part. It
  stores all hash entries again, so a loop over `pairs` that assigns to that key meets keys
  for a second time or not at all (`trav.moved`).
* An anchored `gsub` keeps matching after the first match (`("aaa"):gsub("^a", "x")` is
  "xxx"), where `lstrlib.c`, which `pattern/engine.rs` says it follows, stops (`Again`).
* `gsub_fn` and `gsub_tab` write the rest of the text twice when the empty match at the
  end was found from further left (`("a"):gsub("$", f)`), against "a nil/false result
  keeps the original match" (`stdlib/string.rs` 359). `Rebuilt` leaves this case out.
* `table.move` always copies upwards, so a move to a higher overlapping place clobbers
  what it has not read; `table.remove` behind the end removes the last element. `IsList`
  claims only that they leave no hole.

Met by TLC in instances of the modules that the passing runs leave out:

* An upvalue read again after a store in the same iteration: USET forgets the slot,
  but the SLOAD of the re-read is kept and `loop_unroll` forwards it as invariant.
  `local u = 1; local function f() u += 2; return u end; for i = 1, 4 do s += f() end`
  adds up to 22.
* `opt_sink` marks what snapshots refer to and does not take the marks back;
  `loop_emit_phi` drops the PHIs of marked references. `while k < 5 do k += 1; t[2] = k;
  t[2] = k + 1; s += t[2] end` gives 24 for 20.
* An upvalue that is open in a frame below the trace is recorded as the constant
  address of its slot, also after that frame has returned.
* `rec_tget` with an `__index` table does not guard that the table's own key stays
  nil, and ignores the metatable of the delegated table.
* `opt_sink` replaces a snapshot's reference to a sunk TDUP by nil; forwarding in
  `opt_mem` takes two table references for two tables; an ASTORE without the guard bit
  exits to a snapshot that was overwritten, and the store is applied twice.
* The address of a deleted string key is taken over by a string with another id, and
  `try_new_key` does not relink the entries that belong to the main position it
  frees (LuaJIT's `lj_tab_newkey` does, for this very case): an entry is lost.

Noticed while modelling, not run:

* The thread pool's `on_free` closes cells that an earlier cycle freed and another
  thread reuses: a survivor's white does not depend on the current white, so
  objects that die together need not be freed together.
* JFORL carries out a deferred flush under a side recording and frees the
  recording's parent, which `trace_stop` unwraps.
* `rawset` passes nil and NaN keys on to `set`, where nil matches an empty node.
* A coroutine that starts with a C function and yields (`coroutine.wrap(coroutine.yield)`)
  panics; `Suspend::Return` is documented to cover it.
* `MAX_RESUME_DEPTH` is compared with the resuming thread's own `c_depth`, so it does
  not bound a chain of coroutines that resume each other.
* A coroutine that an abandoned cycle had traversed has no colour bit: no sweep
  frees or repaints it.
* `setmetatable` (`stdlib/base.rs`) assigns the metatable without a barrier, like
  the upvalue store.
* `separate_finalizable` reads the metatable of an unmarked userdata, which an
  earlier cycle may have freed when it has no `__gc`.
* `barrier_back` pushes on `gc_gray` while propagating. With one object per step
  a program that stores into the same table forever keeps the mark phase from
  ending; the batches of 32 make that unlikely.
* `trace_flush_all` restores the original instruction of a loop that
  `trace_flush_blacklist` had blacklisted, although the blacklisting is said to
  be permanent.
* JLOOP, JITERL, JFUNCF and JFORI do not look at `invalidate_all`; only JFORL does.
* `gsub` with a string skips an empty match behind a nonempty one, with a
  function it does not, nor does `gmatch`; `str_match` ignores a negative init; plain
  `find` with an empty pattern or an init behind the text panics; `gmatch` swallows
  errors of the pattern; too many captures are no match instead of an error.
* The copy that `table.sort` works on is no root of the collector while the comparator runs.
* `a?.b.c` with `a` nil raises an index error for the second field. `parse_label` indexes
  out of range for a label at the end of some blocks (2898-2905). A `break` skips the
  KNIL that clears the locals of its block. `num2bit` of the parser rounds where that of
  the interpreter truncates. `meta_comp`'s comment (583-587) contradicts its code.
* RET pops `hook_lines` twice; the slow
  path of `do_tailcall` does not update `frame_top`.
* A C function called on a trace may call back into Lua and flush the running trace.
* By reading only: `dse_astore` ignores guards between two stores, `rawget` on a trace
  follows `__index` tables, `find_matching_fstore` does not compare the field.
* The `SNAPCOUNT_DONE` branch of `trace_start` cannot be reached: `trace_hot_side`
  returns before it.

## 7. Abstractions, and what is not modelled

* Gray lists are sets: the order of traversal is arbitrary, duplicates do not
  matter to a marker that skips nothing.
* Root tables (globals, registry, type metatables, the loaded table) are one
  table, `Globals`.
* Weak tables are weak in keys and values alike; their keys are not told apart.
* A pool's sweep visits its objects in any order; the code goes by position. An
  object allocated during the sweep of its own pool may be visited or not.
* Bytes, debts and thresholds are not modelled: a cycle may start whenever it is
  in `Pause`, a step may happen at any allocation.
* `collectgarbage("stop")` is left out: it only removes behaviours.
* Strings are swept in one action with respect to the heap (`SweepStrings`);
  `Interner` takes that sweep apart, entry by entry.
* Hash values are a parameter; equality of bytes is equality of names.
* Hot counter values are not modelled. In `JitTraces` what a recording makes of the
  instructions is open; `TracedVm` fills it in, with less of the life of traces:
  function-header roots (JFUNCF, up- and tail-recursion) are in `JitTraces` only.
* Lexing, the byte format of dumps, source lines and the wording of errors are left
  out of the compiler; operand widths and constant-table limits too.
* The interpreter of `Vm` runs one thread; coroutines are in `Coroutine`. Its tables are
  maps with an array size fixed at creation (`LuaTable` has the layout). Numbers are
  integers: no NaN, infinity or negative zero. Hooks and cdata are left out.
* Of the optimisations `opt_ivar`, which rewrites nothing, and the folds of cdata and
  64-bit integers are left out; machine code is, the portable executor is modelled.
  The limit on IR constants is left out, and RECERR, which nothing raises.
* The families of loops leave out the programs of section 6 that the code gets wrong: an
  upvalue of the loop's own frame read again after its write, stores next to sunk values, and
  the others listed there. `TracedOutcome` is false of them, and no run shows it.
* In the library, calls that panic (section 6), `string.format`, `rep`, `concat` and the
  character functions are left out. `find_all_matches` is unused.
* A C function does not call back into Lua while a trace runs.
* The hash of a number is a parameter like that of a string; the collector's
  barriers in table stores are those of `GcHeap`. `len_hash`'s linear search above
  2^30 is out of bounds.

Components without a module are listed in `PROJECT.json` with the reason. The
backends, the operating-system calls, floating-point functions and the unused
`gc_gen` stay out.

## 8. Plan

Done: the collector with finalizers and upvalues, the interner with its abstract
specification, the life of traces, coroutines, tables, the compiler, the interpreter, the
trace compiler with recorder, optimisations and executor, the pattern matcher, sort and
the table library; the proofs of memory safety with closures and with finalizers, of the
finalizers' order, of the interner with its refinement, of the life of traces and of the
scheduler's bookkeeping, of the yields, and of tables with their refinement.

Left, in this order:

1. `Vm` with coroutines on several stacks, and stack growth that moves the stack under
   the cached pointers.
2. Function-header roots in `TracedVm` (recursion, JFUNCF), and the flushes; a run of the
   loops that are compiled wrongly.
3. `Dump` for the round trip of prototypes; the lexer's long brackets and escapes.
4. `require` with its sentinel, io handles, FFI callback slots.

Composed further, the runs ask more of one instance rather than one thing of many.

Next proofs: the permutation half of `SortsOrKeeps`, for a sort with one comparison per
step (then neither recursion nor a fold is in its way); `FrameCovered` for code that
satisfies what `InFrame` checks of the compiler.
