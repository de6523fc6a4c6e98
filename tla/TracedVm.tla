------------------------------ MODULE TracedVm ------------------------------
(***************************************************************************)
(* The interpreter with its trace compiler (jit/trace.rs, the hot loops    *)
(* and the trace instructions of vm/mod.rs, trace_exec of jit/exec.rs):    *)
(* a hot loop is recorded while it runs, the finished trace replaces the   *)
(* loop instruction, exits that are taken often get side traces, and       *)
(* loops that do not pay are given up.                                     *)
(*                                                                         *)
(* jit.trace      the compiled traces, by number                           *)
(* jit.rec        <<>>, or the recording under way                         *)
(* jit.recorded   whether the next instruction is not to be recorded any   *)
(*                more                                                     *)
(* jit.run        <<>>, or the trace that is running (an execution of      *)
(*                TraceExec), and where its next pass starts               *)
(* jit.penalty    how often recording failed from a loop, and why          *)
(* jit.nojit      prototypes that are not compiled any more                *)
(* jit.left       how many root recordings may still be started; the bound *)
(*                comes with the program                                   *)
(*                                                                         *)
(* A loop may become hot at any of its instructions: the counters are      *)
(* hashed and shared, so nothing is assumed about when.  Root traces of    *)
(* functions are left out, and so is machine code.  The recorder, the      *)
(* passes and the executor are parameters: the operators of Recorder and   *)
(* TraceExec.                                                              *)
(***************************************************************************)
EXTENDS Vm, TraceIR

CONSTANTS SetupRoot(_, _, _, _),      \* a recording from a loop instruction
          SetupSide(_, _, _, _, _),   \* a recording from a snapshot
          RecordIns(_, _, _),         \* one more instruction
          LastSnapshot(_),
          LoopPasses(_),              \* the passes that end in unrolling the loop
          FinalPasses(_),             \* those over every finished trace
          RunIr(_, _)                 \* a pass over a running trace

CONSTANTS MaxTrace,     \* compiled traces
          MaxSide,      \* side traces of a root
          HotExit,      \* exits taken before a side trace is recorded
          TrySide,      \* attempts at one
          MinStitch,    \* instructions worth keeping before one that is not compiled
          BlacklistAt   \* failures after which a loop is given up

VARIABLE jit

jvars == <<m, jit>>

SNAPCOUNT_DONE == 255
PtIndex == m.clos[m.cl].proto
Idle == jit.rec = <<>>
JMPIns == AD("JMP", 0, 0)

\* Instructions of a prototype replaced in place; jit and code change together.
SetIns(code, p, pc, ins) == [code EXCEPT ![p].bc[pc + 1] = ins]
SetOp(code, p, pc, op) == [code EXCEPT ![p].bc[pc + 1].op = op]
Both(js, code) == [js |-> js, code |-> code]

JVariant == ("FORL" :> "JFORL") @@ ("LOOP" :> "JLOOP") @@ ("ITERL" :> "JITERL")
IVariant == ("FORL" :> "IFORL") @@ ("LOOP" :> "ILOOP") @@ ("ITERL" :> "IITERL")
         @@ ("JFORL" :> "IFORL") @@ ("JLOOP" :> "ILOOP") @@ ("JITERL" :> "IITERL")

---------------------------------------------------------------------------
(* Giving up. *)

blacklist_pc(code, p, pc) ==
  LET op == code[p].bc[pc + 1].op IN IF op \in DOMAIN IVariant THEN SetOp(code, p, pc, IVariant[op]) ELSE code

penalty_pc(js, code, p, pc, e) ==
  LET times == IF <<p, pc>> \in DOMAIN js.penalty THEN js.penalty[<<p, pc>>].times + 1 ELSE 1
  IN  IF times > BlacklistAt THEN Both(js, blacklist_pc(code, p, pc))
      ELSE Both([js EXCEPT !.penalty = (<<p, pc>> :> [reason |-> e, times |-> times]) @@ @], code)

\* A root recording that met a loop given up before makes its prototype
\* ineligible; aborted side traces are not penalised.
trace_abort(js0, code, root, p, pc, e) ==
  LET js == [js0 EXCEPT !.rec = <<>>, !.recorded = FALSE]
  IN  CASE ~root -> Both(js, code)
        [] e = "BLACKL" -> Both([js EXCEPT !.nojit = @ \cup {p}], code)
        [] OTHER -> penalty_pc(js, code, p, pc, e)

\* The original instructions of a root trace.
Reverted(code, tr) ==
  LET c == IF tr.startins.op = "FORL" THEN SetOp(code, tr.startpt, tr.startpc + tr.startins.d, "FORI") ELSE code
  IN  SetIns(c, tr.startpt, tr.startpc, tr.startins)
trace_flush_all(js, code) ==
  LET roots == {i \in DOMAIN js.trace : js.trace[i].root = 0}
  IN  Both([js EXCEPT !.trace = <<>>],
           FoldLeft(LAMBDA c, i : Reverted(c, js.trace[i]), code, SetToSortSeq(roots, <)))
\* The trace stays registered: exits of others may still lead to it.
trace_flush_blacklist(js, code, no) ==
  LET root == IF js.trace[no].root = 0 THEN no ELSE js.trace[no].root
      tr == js.trace[root]
  IN  blacklist_pc(Reverted(code, tr), tr.startpt, tr.startpc)

---------------------------------------------------------------------------
(* Starting a recording. *)

Free(js) == (1 .. MaxTrace) \ DOMAIN js.trace
trace_findfree(js) == Min(Free(js))

\* A root recording from the loop instruction at pc; a prototype that is not
\* compiled any more loses its counting instruction.
trace_start(js, s, p, pc) ==
  LET J == SetupRoot(trace_findfree(js), s, p, pc)
  IN  CASE p \in js.nojit -> Both(js, blacklist_pc(s.code, p, pc))
        [] Free(js) = {} -> Both(js, s.code)
        [] J.err # "" -> trace_abort(js, s.code, TRUE, p, pc, J.err)
        [] OTHER -> Both([js EXCEPT !.rec = <<[J EXCEPT !.startpc = pc]>>], s.code)

\* A side recording from a snapshot of a trace.
RootOf(js, no) == IF js.trace[no].root = 0 THEN no ELSE js.trace[no].root
trace_hot_side(js, s, parent, exitno) ==
  LET t == js.trace[parent]
      few == js.trace[RootOf(js, parent)].nchild < MaxSide /\ t.snap[exitno].count < HotExit + TrySide
      J == SetupSide(trace_findfree(js), s, t, parent, exitno)
  IN  CASE js.rec # <<>> \/ ~few \/ t.startpt \in js.nojit \/ Free(js) = {} -> Both(js, s.code)
        [] J.err # "" -> trace_abort(js, s.code, FALSE, 0, 0, J.err)
        [] OTHER -> Both([js EXCEPT !.rec = <<J>>], s.code)

---------------------------------------------------------------------------
(* Finishing a recording. *)

\* The trace is optimised once more and registered; a root trace takes the
\* place of its loop instruction, a side trace is linked to its exit.
trace_stop(js0, code, J, linktype, link) ==
  LET js == [js0 EXCEPT !.rec = <<>>, !.recorded = FALSE]
      root == J.parent = 0
      p == J.startpt
      pc == J.startpc
      ins == code[p].bc[pc + 1]
      t == FinalPasses([b |-> J.b, snap |-> J.snap, startpt |-> p, startpc |-> pc,
                     startins |-> IF root THEN ins ELSE JMPIns, linktype |-> linktype, link |-> link,
                     root |-> IF root THEN 0 ELSE RootOf(js, J.parent), nchild |-> 0])
      put == (J.traceno :> t) @@ js.trace
      patched == SetIns(code, p, pc, [ins EXCEPT !.op = JVariant[@], !.d = J.traceno])
      linked == [put EXCEPT ![J.parent].snap[J.exitno + 1].count = SNAPCOUNT_DONE,
                            ![J.parent].snap[J.exitno + 1].side = J.traceno,
                            ![t.root].nchild = @ + 1]
  IN  IF root THEN Both([js EXCEPT !.trace = put],
                        IF ins.op = "FORL" THEN SetOp(patched, p, pc + ins.d, "JFORI") ELSE patched)
      ELSE Both([js EXCEPT !.trace = linked], code)

\* After the last snapshot, a trace that loops onto itself is unrolled: when
\* that fails but may succeed later, recording goes on.
Finish(js, J) ==
  LET K == LastSnapshot(J)
      self == J.link = <<"Loop", J.traceno>> /\ J.frames = <<>>
      o == LoopPasses(K)
  IN  CASE ~self -> trace_stop(js, J.code, K, J.link[1], J.link[2])
        [] o.res = "done" -> trace_stop(js, J.code, o.rec, J.link[1], J.link[2])
        [] o.res = "again" -> Both([js EXCEPT !.rec = <<[o.rec EXCEPT !.loopref = nins(o.rec.b)]>>, !.recorded = TRUE], J.code)
        [] OTHER -> trace_abort(js, J.code, J.parent = 0, J.startpt, J.startpc, o.res)

\* What was recorded before an instruction that is not compiled is kept when
\* it is long enough.
Stitches(J) == MinStitch > 0 /\ J.parent = 0 /\ J.err = "NYIBC" /\ nins(J.b) - 1 >= MinStitch
Failed(js, J) ==
  IF Stitches(J) THEN trace_stop(js, J.code, LastSnapshot(J), "Stitch", 0)
  ELSE trace_abort(js, J.code, J.parent = 0, J.startpt, J.startpc, J.err)

rec_ins(js, s) ==
  LET J == js.rec[1]
      K == RecordIns(J, s, js)
  IN  CASE PtIndex # J.pt -> trace_abort(js, s.code, J.parent = 0, J.startpt, J.startpc, "NYIBC")
        [] K.err # "" -> Failed(js, K)
        [] K.link # <<>> -> Finish(js, K)
        [] OTHER -> Both([js EXCEPT !.rec = <<K>>, !.recorded = TRUE], s.code)

Become(s, both) == jit' = both.js /\ m' = [s EXCEPT !.code = both.code]

---------------------------------------------------------------------------
(* The interpreter. *)

Interpreting == jit.run = <<>> /\ (Idle \/ jit.recorded)

\* An instruction is executed, after it was recorded if a recording is under
\* way.
Interpret == Interpreting /\ Instruction /\ jit' = [jit EXCEPT !.recorded = FALSE]
InHost == jit.run = <<>> /\ InC /\ UNCHANGED jit

\* The hot counter of a loop underflows: the instruction is executed without
\* being recorded, what follows is recorded.
hot_loop ==
  /\ Interpreting /\ Idle /\ ~jit.recorded /\ jit.left > 0
  /\ Op(DOMAIN JVariant)
  /\ LET both == trace_start([jit EXCEPT !.left = @ - 1], m, PtIndex, m.pc)
     IN  Become(m, [both EXCEPT !.js.recorded = TRUE])

Record ==
  /\ jit.run = <<>> /\ ~Idle /\ ~jit.recorded /\ Running
  /\ Become(m, rec_ins(jit, m))

---------------------------------------------------------------------------
(* Running a trace. *)

Execution(s, js, no, cbase) ==
  [s |-> s, tr |-> js.trace[no], no |-> no, cbase |-> cbase, buf |-> js.buf, gc |-> FALSE, k |-> "run", exitno |-> 0,
   env |-> [i \in 1 .. Len(js.trace[no].b.ins) |-> Junk]]
\* While a trace runs, jit.run has what changes of the execution.
Running1(x, start) == <<[no |-> x.no, cbase |-> x.cbase, env |-> x.env, start |-> start]>>
enter_trace(s, no) ==
  /\ m' = s
  /\ jit' = [jit EXCEPT !.run = Running1(Execution(s, jit, no, s.base), 1), !.recorded = FALSE]
Skip(s) == m' = s /\ jit' = [jit EXCEPT !.recorded = FALSE]

Continues(next, stop, step) == IF step >= 0 THEN next <= stop ELSE next >= stop
JForI ==
  /\ Interpreting /\ Op({"JFORI"})
  /\ LET v == [i \in 0 .. 2 |-> reg(m, Ins.a + i)]
         s == set_reg(Fetched, Ins.a + 3, v[0])
     IN  CASE \E i \in 0 .. 2 : ~IsNum(v[i]) -> Skip(Raise(Fetched, Str("for")))
           [] Continues(v[0][2], v[1][2], v[2][2]) -> enter_trace(s, proto(m).bc[m.pc + Ins.d + 1].d)
           [] OTHER -> Skip(jump(s, Ins))

ForlBody(s, ins) ==
  LET step == reg(s, ins.a + 2)[2]
      next == reg(s, ins.a)[2] + step
      goes == Continues(next, reg(s, ins.a + 1)[2], step)
  IN  [s |-> IF goes THEN set_reg(set_reg(s, ins.a, Num(next)), ins.a + 3, Num(next)) ELSE s, goes |-> goes]

\* A flush that setmetatable asked for is made here.
JForL ==
  /\ Interpreting /\ Op({"JFORL"})
  /\ LET f == ForlBody(Fetched, Ins)
         flushed == trace_flush_all([jit EXCEPT !.recorded = FALSE], m.code)
         back == flushed.code[PtIndex].bc[m.pc + 1]
         s == [f.s EXCEPT !.invalidate_all = FALSE]
     IN  CASE m.invalidate_all -> Become(IF f.goes THEN jump(s, back) ELSE s, flushed)
           [] f.goes -> enter_trace(f.s, Ins.d)
           [] OTHER -> Skip(f.s)

JLoop == Interpreting /\ Op({"JLOOP"}) /\ enter_trace(Fetched, Ins.d)

JIterL ==
  /\ Interpreting /\ Op({"JITERL"})
  /\ LET first == reg(m, Ins.a)
     IN  IF first = Nil THEN Skip(Fetched) ELSE enter_trace(set_reg(Fetched, Ins.a - 1, first), Ins.d)

\* The interpreter continues in the innermost frame of the snapshot.
trace_exit_frame_Root(s, pc, base) == [s EXCEPT !.pc = pc, !.cl = at(s, base - 2)[2]]
trace_exit_frame(s, pc, base) ==
  LET t == [s EXCEPT !.pc = pc, !.base = base, !.cl = at(s, base - 2)[2]]
  IN  IF base = s.base THEN t ELSE FrameTop(t, base + proto(t).framesize)

\* An exit that is taken often gets a side trace, or its loop is given up.
\* The last exit of a trace is never a reason to.
ExitCounted(js, x) ==
  LET snap == js.trace[x.no].snap[x.exitno]
      n == snap.count + 1
      counted == [js EXCEPT !.trace[x.no].snap[x.exitno].count = n]
      final == x.exitno = Len(js.trace[x.no].snap)
  IN  CASE snap.count = SNAPCOUNT_DONE -> Both(js, x.s.code)
        [] n < HotExit -> Both(counted, x.s.code)
        [] n > HotExit + TrySide /\ ~final -> Both(counted, trace_flush_blacklist(counted, x.s.code, x.no))
        [] n <= HotExit + TrySide -> trace_hot_side(counted, x.s, x.no, x.exitno)
        [] OTHER -> Both(counted, x.s.code)

\* After an exit: on in a linked side trace, or in the trace a tail links to,
\* or in the interpreter.
AfterExit(x) ==
  LET tr == x.tr
      snap == tr.snap[x.exitno]
      js == [jit EXCEPT !.run = <<>>, !.buf = x.buf]
      base == x.cbase + snap.baseslot - 2
      tail == x.exitno = Len(tr.snap) /\ tr.linktype = "Root" /\ tr.link # 0
      Go(no, b) == jit' = [js EXCEPT !.run = Running1(Execution(x.s, js, no, b), 1)] /\ m' = x.s
      out == trace_exit_frame(x.s, snap.pc, base)
      counted == ExitCounted(js, x)
  IN  CASE x.k = "gc" -> jit' = js /\ m' = out
        [] snap.side # 0 -> Go(snap.side, x.cbase)
        [] tail -> Go(tr.link, base)
        [] OTHER -> Become(out, counted)

\* One pass over the running trace; a collection may be due where it checks.
trace_exec ==
  /\ jit.run # <<>>
  /\ LET r == jit.run[1]
         tr == jit.trace[r.no]
         checks == \E i \in DOMAIN tr.b.ins : tr.b.ins[i].op = "GCSTEP"
         Now(gc) == [Execution(m, jit, r.no, r.cbase) EXCEPT !.env = r.env, !.gc = gc]
     IN  \E gc \in IF checks THEN BOOLEAN ELSE {FALSE} :
           LET e == RunIr(Now(gc), r.start)
           IN  IF e.start = 0 THEN AfterExit(e.x)
               ELSE m' = e.x.s /\ jit' = [jit EXCEPT !.run = Running1(e.x, e.start), !.buf = e.x.buf]

---------------------------------------------------------------------------
JFinished == Ended /\ UNCHANGED jvars

JInit ==
  /\ Init
  /\ jit = [trace |-> <<>>, rec |-> <<>>, recorded |-> FALSE, run |-> <<>>, penalty |-> <<>>, nojit |-> {}, buf |-> "",
            left |-> m.prog.records]

JNext == Interpret \/ InHost \/ hot_loop \/ Record \/ JForI \/ JForL \/ JLoop \/ JIterL \/ trace_exec \/ JFinished

TracedSpec == JInit /\ [][JNext]_jvars

\* The passes over a trace remove instructions in any order (dead code,
\* sunk allocations, redundant loop-carried values) and a snapshot may
\* outlive each of them: whatever an instruction or a snapshot of a
\* registered trace refers to was kept, and comes before it unless it is
\* carried around the loop.
NoDangling ==
  \A no \in DOMAIN jit.trace :
    LET t == jit.trace[no]
        Before(r, i) == r <= 0 \/ (r < i /\ t.b.ins[r].op # "NOP")
    IN  /\ \A i \in DOMAIN t.b.ins : t.b.ins[i].op \in {"NOP", "PHI"} \/ (Before(t.b.ins[i].op1, i) /\ Before(t.b.ins[i].op2, i))
        /\ \A k \in DOMAIN t.snap : \A s \in DOMAIN t.snap[k].ents : Before(t.snap[k].ents[s].r, t.snap[k].iref)
=============================================================================
