------------------------------ MODULE TraceOpt ------------------------------
(***************************************************************************)
(* The passes over a finished recording (jit/opt/opt_dce.rs, opt_sink.rs,  *)
(* opt_narrow.rs, opt_loop.rs).  A recording rec has the buffer b, the     *)
(* snapshots snap, and the references slot of the stack slots.  A snapshot *)
(* names the instruction before which it was taken (iref), where the       *)
(* interpreter continues (pt, pc, baseslot, nslots) and, for each slot it  *)
(* restores, an entry of a reference and whether the slot has its value    *)
(* already (keep).                                                         *)
(***************************************************************************)
EXTENDS TraceIR

LJ_MAX_PHI == 64
Refs(b) == 1 .. Len(b.ins)
RefSeq(b) == [i \in 1 .. Len(b.ins) |-> i]
SnapRefs(snap) == {snap.ents[s].r : s \in DOMAIN snap.ents}
AllSnapRefs(t) == UNION {SnapRefs(t.snap[i]) : i \in DOMAIN t.snap}
SetMarks(b, R) == [b EXCEPT !.ins = [i \in DOMAIN @ |-> IF i \in R THEN [@[i] EXCEPT !.mark = TRUE] ELSE @[i]]]
ClearMarks(b, R) == [b EXCEPT !.ins = [i \in DOMAIN @ |-> IF i \in R THEN [@[i] EXCEPT !.mark = FALSE] ELSE @[i]]]

---------------------------------------------------------------------------
(* Dead code elimination. *)

is_uset(ins) == ins.op = "CALLL" /\ ins.lit = "USET"
is_bufop(ins) == ins.op \in {"BUFHDR", "BUFPUT", "BUFSTR"}
dce_marksnap_Last(t) == SnapRefs(t.snap[Len(t.snap)])
dce_marksnap(t) == AllSnapRefs(t)
Kept(ins) == sideeff(ins) \/ is_uset(ins) \/ is_bufop(ins)

\* From the last instruction down: what is live makes its operands live.
dce_propagate(t, marked) ==
  LET n == Len(t.b.ins)
      Visit(acc, j) ==
        LET r == n + 1 - j
            ins == t.b.ins[r]
        IN  IF r \in acc.live \/ Kept(ins)
            THEN [acc EXCEPT !.live = @ \cup {ins.op1, ins.op2}]
            ELSE [acc EXCEPT !.dead = @ \cup {r}]
      done == FoldLeft(Visit, [live |-> marked, dead |-> {}], RefSeq(t.b))
  IN  [t EXCEPT !.b.ins = [r \in DOMAIN @ |-> IF r \in done.dead THEN NOP ELSE [@[r] EXCEPT !.mark = FALSE]]]

opt_dce(t) == dce_propagate(t, dce_marksnap(t))

---------------------------------------------------------------------------
(* Allocation sinking.  An allocation whose uses are only reads is removed; *)
(* the reads of a template table's elements become constants.  Snapshots   *)
(* that name the allocation name nil afterwards, and the marks stay set.   *)

Sinkable == {"TDUP", "CNEW"}
Readers == {"ALOAD", "HLOAD", "ALEN", "GCSTEP"} \cup Sinkable
Escapes(b, r) == \E i \in Refs(b) : r \in {b.ins[i].op1, b.ins[i].op2} /\ b.ins[i].op \notin Readers

\* The numbers at 1, 2, ... of a template, up to the first hole.
TemplateKeys(b, al) ==
  LET kv == ir(b, b.ins[al].op1).lit[2]
      At(i) == {j \in DOMAIN kv : kv[j][1] = Num(i)}
      n == CHOOSE i \in 0 .. Len(kv) : At(i + 1) = {} /\ \A j \in 1 .. i : At(j) # {}
  IN  {<<Num(i), kv[Max(At(i))][2]>> : i \in {j \in 1 .. n : IsNum(kv[Max(At(j))][2])}}

RemoveAlloc(t, al) ==
  LET b == IF al + 1 \in Refs(t.b) /\ t.b.ins[al + 1].op = "GCSTEP" THEN [t.b EXCEPT !.ins[al + 1] = NOP] ELSE t.b
  IN  [t EXCEPT !.b = [b EXCEPT !.ins[al] = NOP],
                !.snap = [i \in DOMAIN @ |-> [@[i] EXCEPT !.ents =
                           [s \in DOMAIN @ |-> IF @[s].r = al THEN [@[s] EXCEPT !.r = REF_NIL] ELSE @[s]]]]]

SinkTable(t, al) ==
  LET kvs == SetToSeq(TemplateKeys(t.b, al))
      Intern(acc, kv) == LET k == knum(acc.b, kv[1])
                             v == knum(k.b, kv[2])
                         IN  [b |-> v.b, map |-> (k.r :> v.r) @@ acc.map]
      c == FoldLeft(Intern, [b |-> t.b, map |-> <<>>], kvs)
      fwd == {r \in Refs(c.b) : c.b.ins[r].op \in {"ALOAD", "HLOAD"} /\ c.b.ins[r].op1 = al /\ c.b.ins[r].op2 \in DOMAIN c.map}
      To(r) == IF r \in fwd THEN c.map[c.b.ins[r].op2] ELSE r
      subst == [c.b EXCEPT !.ins = [r \in DOMAIN @ |->
                  IF r \in fwd THEN NOP ELSE [@[r] EXCEPT !.op1 = To(@), !.op2 = To(@)]]]
  IN  IF kvs = <<>> THEN t ELSE RemoveAlloc([t EXCEPT !.b = subst], al)

opt_sink(t0) ==
  LET marked == AllSnapRefs(t0)
      t == [t0 EXCEPT !.b = SetMarks(ClearMarks(@, Refs(@)), marked)]
      allocs == {r \in Refs(t.b) : t.b.ins[r].op \in Sinkable /\ ~Escapes(t.b, r)}
      order == SetToSortSeq(allocs \ marked, <) \o SetToSortSeq(allocs \cap marked, <)
  IN  FoldLeft(LAMBDA acc, al : IF acc.b.ins[al].op = "CNEW" THEN RemoveAlloc(acc, al) ELSE SinkTable(acc, al), t, order)

---------------------------------------------------------------------------
(* Narrowing: instructions on integer operands become integer ones. *)

narrowable_operand(b, N, r) == IF r > 0 THEN r \in N ELSE r # NONE /\ ir(b, r).op = "KINT"
Narrowable(b, N, ins) ==
  LET one == narrowable_operand(b, N, ins.op1)
      both == one /\ narrowable_operand(b, N, ins.op2)
  IN  CASE ins.op = "SLOAD" -> ins.t = "int"
        [] ins.op \in {"ADD", "SUB", "MUL"} -> ins.t = "num" /\ both
        [] ins.op = "NEG" -> ins.t = "num" /\ one
        [] ins.op = "PHI" -> ins.t \in {"num", "int"} /\ both
        [] ins.op \in DOMAIN Mirror -> both
        [] OTHER -> FALSE
opt_narrow(b) ==
  LET N == FoldLeft(LAMBDA acc, r : IF Narrowable(b, acc, b.ins[r]) THEN acc \cup {r} ELSE acc, {}, RefSeq(b))
  IN  [b EXCEPT !.ins = [r \in DOMAIN @ |-> IF r \in N /\ @[r].t \in {"num", "int"} THEN [@[r] EXCEPT !.t = "int"] ELSE @[r]]]

---------------------------------------------------------------------------
(* Loop unrolling by copy and substitution: the recorded iteration becomes *)
(* the pre-roll, and its instructions are emitted once more behind LOOP,   *)
(* with their operands substituted.                                        *)

Subst(subst, r) == IF irref_isk(r) THEN r ELSE subst[r]

\* The copy of a snapshot; it replaces the previous copy when no guard was
\* emitted in between.
Overwrites(b) == ~b.guardemit
loop_subst_snap(rec, osnap, loopmap, subst) ==
  LET kept == IF Overwrites(rec.b) THEN Front(rec.snap) ELSE rec.snap
      mapped == [s \in DOMAIN osnap.ents |-> [osnap.ents[s] EXCEPT !.r = Subst(subst, @)]]
      fill == [s \in {x \in DOMAIN loopmap : x < osnap.nslots} |-> loopmap[s]]
  IN  [rec EXCEPT !.b.guardemit = FALSE,
                  !.snap = Append(kept, [osnap EXCEPT !.iref = nins(rec.b), !.ents = mapped @@ fill])]

\* A load of a stack slot becomes the value the slot has at the end of the
\* iteration; a slot without one is loaded again.
Reemit(rec, ins, op1, op2) ==
  LET tr == rec.slot[ins.lit.slot]
      copy == [ins EXCEPT !.phi = FALSE, !.mark = ins.mark, !.op1 = op1, !.op2 = op2]
  IN  IF ins.op = "SLOAD" /\ tr # NONE THEN Emitted(rec.b, tr) ELSE emitir(rec.b, copy)

Invariant(ins, op1, op2) ==
  (irm_kind(ins.op) = "N" \/ ins.op = "FLOAD") /\ op1 = ins.op1 /\ op2 = ins.op2

UnrollIns(acc, i, invar, onsnap, loopmap) ==
  LET os == acc.rec.snap[acc.osnap]
      due == acc.osnap <= onsnap /\ i >= os.iref
      rec == IF due THEN loop_subst_snap(acc.rec, os, loopmap, acc.subst) ELSE acc.rec
      osnap == IF due THEN acc.osnap + 1 ELSE acc.osnap
      ins == rec.b.ins[i]
      op1 == Subst(acc.subst, ins.op1)
      op2 == Subst(acc.subst, ins.op2)
      e == Reemit(rec, ins, op1, op2)
      carried == e.r # i /\ e.r # REF_DROP /\ e.r < invar
      irr == ir(e.b, e.r)
      newphi == carried /\ ~irref_isk(e.r) /\ ~irr.phi /\ ~irt_ispri(irr.t)
  IN  CASE acc.err # "" -> acc
        [] Invariant(ins, op1, op2) -> [acc EXCEPT !.rec = rec, !.osnap = osnap, !.subst = Append(@, i)]
        [] e.r = GFAIL -> [acc EXCEPT !.err = "GFAIL"]
        [] newphi /\ Len(acc.phi) >= LJ_MAX_PHI -> [acc EXCEPT !.err = "PHIOV"]
        [] carried /\ ~irt_sametype(ins.t, irr.t) -> [acc EXCEPT !.err = "TYPEINS"]
        [] OTHER -> [acc EXCEPT !.rec = [rec EXCEPT !.b = IF newphi THEN [e.b EXCEPT !.ins[e.r].phi = TRUE] ELSE e.b],
                                !.osnap = osnap, !.subst = Append(@, e.r),
                                !.phi = IF newphi THEN Append(@, e.r) ELSE @]

\* Pass 1: drop invariants, mark those that are no simple recurrence.
PhiMark(acc, lref, subst) ==
  LET rref == subst[lref]
      irr == ir(acc.b, rref)
  IN  IF lref = rref \/ rref = REF_DROP THEN [acc EXCEPT !.b.ins[lref].phi = FALSE]
      ELSE IF lref \in {irr.op1, irr.op2} THEN [acc EXCEPT !.phi = Append(@, lref)]
      ELSE [b |-> [acc.b EXCEPT !.ins[lref].mark = TRUE], phi |-> Append(acc.phi, lref), passx |-> TRUE]

\* Pass 3: values of slots that no load forwards.
RECURSIVE PhiSlot(_, _, _, _)
PhiSlot(acc, r, subst, invar) ==
  LET b == ClearMarks(acc.b, {r})
      ins == b.ins[r]
      n == [b |-> [b EXCEPT !.ins[r].phi = TRUE], phi |-> Append(acc.phi, r)]
  IN  CASE irref_isk(r) \/ r > Len(subst) -> acc
        [] r = subst[r] -> acc
        [] ins.phi \/ irt_ispri(ins.t) -> [acc EXCEPT !.b = b]
        [] OTHER -> PhiSlot(n, subst[r], subst, invar)

\* Pass 4: a PHI that feeds another one keeps it.
RECURSIVE PhiPropagate(_, _, _)
PhiPropagate(b, phi, subst) ==
  LET fed == {subst[l] : l \in {x \in Range(phi) : ~b.ins[x].mark}}
      hit == {r \in fed \cap Refs(b) : b.ins[r].mark}
  IN  IF hit = {} THEN b ELSE PhiPropagate(ClearMarks(b, hit), phi, subst)

\* Pass 5: emit those that are left.
PhiEmit(b, lref, subst, invar) ==
  LET rref == subst[lref]
      c == IF rref > invar THEN [b EXCEPT !.ins[rref].phi = TRUE] ELSE b
  IN  IF b.ins[lref].mark THEN [b EXCEPT !.ins[lref].mark = FALSE, !.ins[lref].phi = FALSE]
      ELSE emit_ins(c, IRIns("PHI", b.ins[lref].t, lref, rref, NONE)).b

loop_emit_phi(rec, subst, phi, onsnap, invar) ==
  LET p1 == FoldLeft(LAMBDA acc, l : PhiMark(acc, l, subst), [b |-> rec.b, phi |-> <<>>, passx |-> FALSE], phi)
      used == UNION {{rec.b.ins[i].op1, rec.b.ins[i].op2} : i \in (invar + 1) .. Len(rec.b.ins)}
              \cup UNION {SnapRefs(rec.snap[i]) : i \in (onsnap + 1) .. Len(rec.snap)}
      p2 == IF p1.passx THEN ClearMarks(p1.b, used) ELSE p1.b
      slots == [i \in 1 .. (rec.baseslot + rec.maxslot - 1) |-> rec.slot[i]]
      p3 == FoldLeft(LAMBDA acc, r : PhiSlot(acc, r, subst, invar), [b |-> p2, phi |-> p1.phi], slots)
      p4 == IF p1.passx THEN PhiPropagate(p3.b, p3.phi, subst) ELSE p3.b
  IN  [rec EXCEPT !.b = FoldLeft(LAMBDA acc, l : PhiEmit(acc, l, subst, invar), p4, p3.phi)]

loop_unroll(rec) ==
  LET invar == nins(rec.b)
      onsnap == Len(rec.snap)
      start == [rec EXCEPT !.b = emit_ins(rec.b, Guarded(IRIns("LOOP", "nil", NONE, NONE, NONE))).b]
      Step(acc, i) == UnrollIns(acc, i, invar, onsnap, rec.snap[onsnap].ents)
      u == FoldLeft(Step, [rec |-> start, subst |-> <<>>, phi |-> <<>>, osnap |-> 2, err |-> ""], RefSeq(rec.b))
      trimmed == IF u.rec.b.guardemit THEN u.rec ELSE [u.rec EXCEPT !.snap = Front(@)]
  IN  IF u.err # "" THEN [rec |-> rec, err |-> u.err]
      ELSE [rec |-> loop_emit_phi(trimmed, u.subst, u.phi, onsnap, invar), err |-> ""]

\* An unstable type or a guard that would always fail undoes the unrolling,
\* and one more iteration is recorded.
loop_undo(rec) ==
  [rec EXCEPT !.b.guardemit = FALSE,
              !.b.ins = [i \in DOMAIN @ |-> [@[i] EXCEPT !.phi = FALSE, !.mark = FALSE]]]
opt_loop(rec) ==
  LET u == loop_unroll(rec)
      less == [rec EXCEPT !.instunroll = @ - 1]
  IN  CASE u.err = "" -> [rec |-> u.rec, res |-> "done"]
        [] u.err # "PHIOV" /\ less.instunroll >= 0 -> [rec |-> loop_undo(less), res |-> "again"]
        [] OTHER -> [rec |-> less, res |-> u.err]
=============================================================================
