----------------------------- MODULE JitTraces -----------------------------
(***************************************************************************)
(* The life of a trace (jit/trace.rs, jit/exec.rs, the loop arms of        *)
(* vm/mod.rs): hot headers start a recording, which is aborted, penalised  *)
(* and in the end blacklisted, or becomes a trace that is patched into the *)
(* bytecode; traces are entered, left by an exit, extended by side traces  *)
(* and flushed.  jit.flush and debug.sethook flush in their own way: they  *)
(* empty the registry and leave the patched headers as they are.           *)
(*                                                                         *)
(* What the recorder makes of the instructions in between is left open:    *)
(* it may stop with any link the bytecode offers, or abort with any error. *)
(* Hot counters are hashed and shared, so any counting header may turn hot *)
(* at any time; jit.off, which only stops the counting, is among that.     *)
(***************************************************************************)
EXTENDS Integers, FiniteSets

CONSTANTS
    Headers,        \* FORL, ITERL, LOOP and FUNCF instructions
    ForL,           \* those that are FORLs (paired with a FORI)
    FuncF,          \* those that are FUNCFs
    Protos,         \* function prototypes
    ProtoOf,        \* the prototype of a header
    MaxTrace,       \* JitParam::MaxTrace
    MaxSide,        \* JitParam::MaxSide
    HotExit,        \* JitParam::HotExit
    TrySide,        \* JitParam::TrySide
    Done,           \* SNAPCOUNT_DONE
    LastExit,       \* snapshots of a trace, less one
    PenaltySlots, PenaltyMin, PenaltyMax, Noise

ASSUME JitAssumption ==
    /\ ForL \subseteq Headers /\ FuncF \subseteq Headers /\ ForL \cap FuncF = {}
    /\ ProtoOf \in [Headers -> Protos]
    /\ {MaxTrace, MaxSide, LastExit, PenaltySlots, PenaltyMin, PenaltyMax} \subseteq Nat \ {0}
    /\ {HotExit, TrySide, Done} \subseteq Nat \ {0} /\ HotExit + TrySide + 1 < Done
    /\ Noise \subseteq Nat

VARIABLES
    op,         \* header -> "hot" (FORL), "inert" (IFORL) or "jit" (JFORL)
    opd,        \* header -> its D operand: a trace number, 0 for the jump
    jfori,      \* FORLs whose FORI is patched to JFORI
    nojit,      \* prototypes with PROTO_NOJIT
    trace,      \* the registry: number -> trace or NoTrace
    rec,        \* the recording (jit.rec, parent, exitno, start) or NoRec
    penalty,    \* penalty cache slot -> header and value
    pslot,      \* penaltyslot
    invalidate, \* invalidate_all
    left,       \* history: headers patched for a trace that jit.flush dropped
    panicked    \* an expect or unwrap met a freed trace, or a jump left the bytecode

jitVars == <<op, opd, jfori, nojit, trace, rec, penalty, pslot, invalidate, left, panicked>>

TraceNo == 1 .. MaxTrace
ExitNo == 0 .. LastExit
NoTrace == [root |-> -1]
NoRec == [no |-> 0]
NoHeader == "none"

Live(n) == n \in TraceNo /\ trace[n] # NoTrace
IsRoot(n) == Live(n) /\ trace[n].root = 0

\* The root of the tree that trace n belongs to.
RootOf(n) == IF trace[n].root = 0 THEN n ELSE trace[n].root

\* find_root_trace
HasRootTrace(h) == \E n \in TraceNo : IsRoot(n) /\ trace[n].start = h

\* A trace as trace_stop registers it.
NewTrace(h, root, link) ==
    [start |-> h, root |-> root, link |-> link, nchild |-> 0,
     count |-> [e \in ExitNo |-> 0], side |-> [e \in ExitNo |-> 0]]

---------------------------------------------------------------------------
(* Aborts, penalties, blacklisting *)

\* blacklist_pc: to the non-counting variant, from the plain or the patched one.
Blacklisted(h) == [op EXCEPT ![h] = "inert"]

\* penalty_pc: double the value of the header's slot, blacklist past the
\* maximum; a header without a slot takes the next one, round robin.
PenaltyPc(h) ==
    LET own == {i \in 0 .. PenaltySlots - 1 : penalty[i].pc = h} IN
    \/ /\ own = {}
       /\ penalty' = [penalty EXCEPT ![pslot] = [pc |-> h, val |-> PenaltyMin]]
       /\ pslot' = (pslot + 1) % PenaltySlots
       /\ UNCHANGED op
    \/ \E i \in own, noise \in Noise :
         LET val == 2 * penalty[i].val + noise IN
         /\ UNCHANGED pslot
         /\ IF val > PenaltyMax
              THEN op' = Blacklisted(h) /\ UNCHANGED penalty
              ELSE penalty' = [penalty EXCEPT ![i].val = val] /\ UNCHANGED op

\* trace_abort of a root recording at h with error e.
AbortRoot(h, e) ==
    \/ /\ e = "RETRY" \/ (e = "NYIRETL" /\ h \in FuncF)
       /\ UNCHANGED <<op, nojit, penalty, pslot>>
    \/ /\ e = "BLACKL"
       /\ nojit' = nojit \cup {ProtoOf[h]}
       /\ UNCHANGED <<op, penalty, pslot>>
    \/ /\ e = "NYIBC" \/ (e = "NYIRETL" /\ h \notin FuncF)
       /\ PenaltyPc(h)
       /\ UNCHANGED nojit

\* The errors that trace_abort tells apart; NYIBC stands for all others.
TraceErrors == {"RETRY", "BLACKL", "NYIRETL", "NYIBC"}

---------------------------------------------------------------------------
(* Starting a recording *)

\* trace_findfree: the lowest free number, if any is left.
FreeNos == {n \in TraceNo : trace[n] = NoTrace}
FindFree == CHOOSE n \in FreeNos : \A m \in FreeNos : n <= m

\* trace_hot: header h turned hot in the interpreter.
HotCount(h) == rec = NoRec /\ ~panicked /\ op[h] = "hot"

\* trace_start in a prototype with the JIT disabled: stop counting.
HotNoJit(h) ==
    /\ HotCount(h)
    /\ ProtoOf[h] \in nojit
    /\ op' = [op EXCEPT ![h] = "inert"]
    /\ UNCHANGED <<opd, jfori, nojit, trace, rec, penalty, pslot, invalidate, left, panicked>>

\* trace_start, as far as a root recording can be set up.
CanRecord(h) ==
    /\ HotCount(h)
    /\ ProtoOf[h] \notin nojit
    /\ ~HasRootTrace(h)

HotStart(h) ==
    /\ CanRecord(h)
    /\ FreeNos # {}
    /\ rec' = [no |-> FindFree, start |-> h, parent |-> 0, exitno |-> 0, root |-> 0]
    /\ UNCHANGED <<op, opd, jfori, nojit, trace, penalty, pslot, invalidate, left, panicked>>

\* rec_setup_root fails: the wrong iterator, a bad loop variable, the stack.
HotSetupFails(h) ==
    /\ CanRecord(h)
    /\ AbortRoot(h, "NYIBC")
    /\ UNCHANGED <<opd, jfori, trace, rec, invalidate, left, panicked>>

---------------------------------------------------------------------------
(* Recording *)

\* Any error ends a recording; only a root's start is penalised.
RecAbort(e) ==
    /\ rec # NoRec
    /\ rec' = NoRec
    /\ IF rec.parent = 0 THEN AbortRoot(rec.start, e) ELSE UNCHANGED <<op, nojit, penalty, pslot>>
    /\ UNCHANGED <<opd, jfori, trace, invalidate, left, panicked>>

\* What record_ins may link to: itself (a closed loop), nothing (a root kept
\* as a stitch prefix), the trace of a compiled loop or function it runs
\* into.  A root stops at a JFORI or a JFUNCF only; JFORL, JLOOP and JITERL
\* are an inner loop to it.  JFORI and JFUNCF do not ask whether the trace
\* they name is still there.
Links ==
    {rec.no}
        \cup (IF rec.parent = 0 THEN {0} ELSE {})
        \cup {opd[h] : h \in {x \in Headers : op[x] = "jit" /\
                    (x \in FuncF \cup jfori \/ (rec.parent # 0 /\ Live(opd[x])))}}

\* trace_stop of a root: register it and patch the header (and the FORI).
StopRoot(link) ==
    /\ rec # NoRec /\ rec.parent = 0
    /\ link \in Links
    /\ trace' = [trace EXCEPT ![rec.no] = NewTrace(rec.start, 0, link)]
    /\ op' = [op EXCEPT ![rec.start] = "jit"]
    /\ opd' = [opd EXCEPT ![rec.start] = rec.no]
    /\ jfori' = jfori \cup ({rec.start} \cap ForL)
    /\ rec' = NoRec
    /\ UNCHANGED <<nojit, penalty, pslot, invalidate, left, panicked>>

\* Mutant: only direct children are counted.
SideOwner_Parent == rec.parent

\* The trace whose nchild counts the side trace.
SideOwner == rec.root

\* trace_stop of a side trace: register it, link the parent's exit to it and
\* count it in the root.  Both are unwrapped.
StopSide(link) ==
    /\ rec # NoRec /\ rec.parent # 0
    /\ link \in Links
    /\ rec' = NoRec
    /\ IF Live(rec.parent) /\ Live(rec.root)
         THEN LET kept == [trace EXCEPT ![rec.no] = NewTrace(rec.start, rec.root, link)]
                  linked == [kept EXCEPT ![rec.parent].side[rec.exitno] = rec.no,
                                         ![rec.parent].count[rec.exitno] = Done]
              IN  /\ trace' = [linked EXCEPT ![SideOwner].nchild = @ + 1]
                  /\ UNCHANGED panicked
         ELSE panicked' = TRUE /\ UNCHANGED trace
    /\ UNCHANGED <<op, opd, jfori, nojit, penalty, pslot, invalidate, left>>

---------------------------------------------------------------------------
(* Flushing *)

\* Mutant: the headers stay patched.
Reverted_Patched(H) == <<op, opd, jfori>>

\* The bytecode with the headers in H as the compiler emitted them.
Reverted(H) ==
    <<[h \in Headers |-> IF h \in H THEN "hot" ELSE op[h]],
      [h \in Headers |-> IF h \in H THEN 0 ELSE opd[h]],
      jfori \ H>>

\* Mutant: only roots are dropped.
Flushed_Roots == [n \in TraceNo |-> IF IsRoot(n) THEN NoTrace ELSE trace[n]]

\* The registry after a flush.
Flushed == [n \in TraceNo |-> NoTrace]

\* trace_flush_all: revert every root's header, drop every trace.
FlushAll ==
    LET was == Reverted({trace[n].start : n \in {m \in TraceNo : IsRoot(m)}}) IN
    /\ op' = was[1] /\ opd' = was[2] /\ jfori' = was[3]
    /\ trace' = Flushed

\* Mutant: the header counts again.
FlushedOp_Counting(h) == [op EXCEPT ![h] = "hot"]

\* The header of a flushed loop: the saved instruction, then blacklisted.
FlushedOp(h) == [op EXCEPT ![h] = "inert"]

\* trace_flush_blacklist: the root's header is reverted and blacklisted; the
\* traces stay registered.
FlushBlacklist(n) ==
    LET h == trace[RootOf(n)].start IN
    /\ op' = FlushedOp(h)
    /\ opd' = [opd EXCEPT ![h] = 0]
    /\ jfori' = jfori \ {h}

\* setmetatable gives a table a __newindex or takes it away.
SetMetatable ==
    /\ ~panicked /\ ~invalidate
    /\ invalidate' = TRUE
    /\ UNCHANGED <<op, opd, jfori, nojit, trace, rec, penalty, pslot, left, panicked>>

\* JFORL acts on the flag: in the interpreter, or under a side recording that
\* continues across a compiled loop which is left.  It then takes the jump of
\* the reverted FORL; a header that jit.flush left is not reverted, and the
\* trace number in its D operand leads out of the bytecode (unless the loop
\* ends here).
JForlFlush(h) ==
    /\ ~panicked /\ invalidate
    /\ h \in ForL /\ op[h] = "jit"
    /\ rec # NoRec => rec.parent # 0 /\ Live(opd[h])
    /\ invalidate' = FALSE
    /\ FlushAll
    /\ panicked' = FALSE \/ (panicked' = TRUE /\ op'[h] = "jit")
    /\ UNCHANGED <<nojit, rec, penalty, pslot, left>>

\* jit.flush, and debug.sethook with a hook: drop every trace, whatever is
\* being recorded (a finalizer may be jit.flush).  The bytecode stays patched.
JitFlush ==
    /\ ~panicked
    /\ trace' = Flushed
    /\ left' = left \cup {h \in Headers : op[h] = "jit"}
    /\ UNCHANGED <<op, opd, jfori, nojit, rec, penalty, pslot, invalidate, panicked>>

---------------------------------------------------------------------------
(* Executing traces *)

\* Where an execution of trace n may go on without the interpreter: linked
\* side traces, and the target of a Root link.
Follow(n) == ({trace[n].side[e] : e \in ExitNo} \cup {trace[n].link}) \ {0, n}

Reach(n) ==
    {m \in TraceNo : \A S \in SUBSET TraceNo :
        n \in S /\ (\A k \in S : Live(k) => Follow(k) \cap TraceNo \subseteq S) => m \in S}

\* The interpreter enters the trace of h.  JFORL looks at the flag first,
\* JFORI, JLOOP, JITERL and JFUNCF do not.  A recording is under way only if
\* the loop optimisation of a side trace back to its own start asked for one
\* more iteration.
Enters(h) ==
    /\ ~panicked
    /\ op[h] = "jit" \/ h \in jfori
    /\ h \in ForL => ~invalidate \/ h \in jfori
    /\ rec # NoRec => rec.parent # 0 /\ rec.exitno = 0 /\ rec.start = h

\* trace_hot_side's early returns, for the exit with count c of trace n.
SideAllowed(n, c) ==
    /\ rec = NoRec
    /\ trace[RootOf(n)].nchild < MaxSide
    /\ c < HotExit + TrySide

\* trace_exec meets a number with no trace: one of its three expects.
EnterFreed(h, n) ==     \* n \in Reach(opd[h])
    /\ Enters(h)
    /\ ~Live(n)
    /\ panicked' = TRUE
    /\ UNCHANGED <<op, opd, jfori, nojit, trace, rec, penalty, pslot, invalidate, left>>

\* trace_exec up to an exit e of trace n that leads nowhere: count the exit;
\* flush a loop whose guard keeps failing, or record a side trace.
TraceExit(h, n, e) ==     \* n \in Reach(opd[h])
    LET c == trace[n].count[e] + 1
        counts == trace[n].count[e] # Done
        flush == counts /\ c > HotExit + TrySide /\ e # LastExit
        may == counts /\ c \in HotExit .. HotExit + TrySide /\ SideAllowed(n, c)
                 /\ ProtoOf[trace[n].start] \notin nojit /\ FreeNos # {}
    IN
    /\ Enters(h)
    /\ Live(n)
    /\ trace[n].side[e] = 0
    /\ e = LastExit => trace[n].link \in {0, n}
    /\ trace' = IF counts THEN [trace EXCEPT ![n].count[e] = c] ELSE trace
    /\ \/ flush /\ FlushBlacklist(n)
       \/ ~flush /\ UNCHANGED <<op, opd, jfori>>
    /\ \/ may /\ rec' = [no |-> FindFree, start |-> trace[n].start, parent |-> n,
                         exitno |-> e, root |-> RootOf(n)]
       \/ UNCHANGED rec     \* also when snap_replay fails
    /\ UNCHANGED <<nojit, penalty, pslot, invalidate, left, panicked>>

---------------------------------------------------------------------------
(* Specification *)

JitInit ==
    /\ op = [h \in Headers |-> "hot"]
    /\ opd = [h \in Headers |-> 0]
    /\ jfori = {}
    /\ nojit = {}
    /\ trace = [n \in TraceNo |-> NoTrace]
    /\ rec = NoRec
    /\ penalty = [i \in 0 .. PenaltySlots - 1 |-> [pc |-> NoHeader, val |-> 0]]
    /\ pslot = 0
    /\ invalidate = FALSE
    /\ left = {}
    /\ panicked = FALSE

JitNext ==
    \/ \E h \in Headers : HotNoJit(h)
    \/ \E h \in Headers : HotStart(h)
    \/ \E h \in Headers : HotSetupFails(h)
    \/ \E e \in TraceErrors : RecAbort(e)
    \/ \E n \in TraceNo \cup {0} : StopRoot(n)
    \/ \E n \in TraceNo \cup {0} : StopSide(n)
    \/ SetMetatable
    \/ \E h \in Headers : JForlFlush(h)
    \/ JitFlush
    \/ \E h \in Headers : \E n \in Reach(opd[h]) : EnterFreed(h, n)
    \/ \E h \in Headers : \E n \in Reach(opd[h]), e \in ExitNo : TraceExit(h, n, e)

JitSpec == JitInit /\ [][JitNext]_jitVars

---------------------------------------------------------------------------
(* Properties *)

\* A patched header (JFORL, JLOOP, JITERL, JFUNCF) names the registered root
\* trace that was recorded from it, so trace_exec neither meets a freed trace
\* nor runs another loop's code.  No claim is made about a header that
\* jit.flush or debug.sethook came upon while it was patched.
\* A FORI is patched exactly while its FORL is, since JFORI takes the number
\* from the FORL unseen.
EntryLive ==
    /\ \A h \in Headers \ left : op[h] = "jit" => IsRoot(opd[h]) /\ trace[opd[h]].start = h
    /\ \A h \in ForL : h \in jfori <=> op[h] = "jit"

\* The numbers that the headers left by jit.flush still hold.
StaleNos == {opd[h] : h \in left}

\* Every number that an execution may follow on its own, a linked side trace,
\* a Root link or the root of a side trace, is registered, as machine code
\* jumps there with no check at all.  The exception is a Root link that was
\* recorded off a header which jit.flush had left patched.
LinksLive ==
    \A n \in TraceNo : Live(n) =>
        /\ trace[n].link # 0 => Live(trace[n].link) \/ trace[n].link \in StaleNos
        /\ IsRoot(RootOf(n))
        /\ \A e \in ExitNo : trace[n].side[e] # 0 =>
              Live(trace[n].side[e]) /\ RootOf(trace[n].side[e]) = RootOf(n)

\* A root's nchild, which trace_hot_side holds against maxside, is the number
\* of side traces in its whole tree, each linked from exactly one exit,
\* whatever sequence of hot exits, aborts, retries and flushes led there.
SideCount ==
    \A r \in TraceNo : IsRoot(r) =>
        LET sides == {n \in TraceNo : Live(n) /\ trace[n].root = r}
            exits == {x \in TraceNo \X ExitNo : Live(x[1]) /\ trace[x[1]].side[x[2]] \in sides}
        IN  /\ trace[r].nchild = Cardinality(sides)
            /\ Cardinality(exits) = Cardinality(sides)

\* A loop that has a trace does not count any more: it is patched or, after
\* its exits failed too often, blacklisted.  So no loop is compiled twice.
CompiledOnce ==
    \A n \in TraceNo : IsRoot(n) =>
        /\ op[trace[n].start] # "hot"
        /\ \A m \in TraceNo : IsRoot(m) /\ trace[m].start = trace[n].start => m = n
=============================================================================
