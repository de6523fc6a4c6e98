------------------------------ MODULE Recorder ------------------------------
(***************************************************************************)
(* The trace recorder (jit/record.rs).  While the interpreter runs, every  *)
(* instruction about to be executed is translated to IR, specialised to    *)
(* the types and the branches that are met; snapshots say how to get back  *)
(* to the interpreter when a guard fails.                                  *)
(*                                                                         *)
(* A recording J is a record:                                              *)
(*   b, snap, slot, baseslot, maxslot, instunroll  see TraceOpt            *)
(*   frames    the inlined calls                                           *)
(*   needsnap, mergesnap   when to take a snapshot, when to replace it     *)
(*   scev      the loop whose index was advanced last                      *)
(*   code      the prototypes                                              *)
(*   pt, pc    the prototype and the instruction being recorded            *)
(*   startpt, startpc, bcmin, bcext   where a loop closes, and the range   *)
(*             a root trace must not leave                                 *)
(*   traceno, parent, exitno, loopref, loopunroll, callunroll, tailcalled, *)
(*   catslot   as in the source                                            *)
(*   err       why the recording failed: once set, nothing more is emitted *)
(*   r         the reference the last step produced                        *)
(*   link      <<>>, or the link type and trace that end the recording     *)
(* s is the state of the interpreter.                                      *)
(*                                                                         *)
(* FFI, coroutines and the library functions other than those of the       *)
(* instance are left out: they end the recording with NYIBC.               *)
(***************************************************************************)
EXTENDS TraceOpt, Vm

CONSTANTS MAX_JSLOTS,   \* slots a recording can use (250 in the source)
          LoopUnroll,   \* times an inner loop is unrolled
          InstUnroll,   \* attempts to unroll an unstable loop
          CallUnroll,   \* depth to which a function is inlined into itself
          MaxRecord     \* instructions of a trace

NoPc == -1
NoSlot == -1
NoLimit == 100000
FORL_IDX == 0
FORL_STOP == 1
FORL_STEP == 2
FORL_EXT == 3

new(code, traceno, startpt, pc, parent, exitno) ==
  [code |-> code, b |-> IrBuf, snap |-> <<>>, slot |-> [i \in 0 .. MAX_JSLOTS |-> NONE], baseslot |-> 2, maxslot |-> 0,
   frames |-> <<>>, needsnap |-> FALSE, mergesnap |-> FALSE,
   scev |-> [pc |-> NoPc, idx |-> NONE, stop |-> NONE, step |-> NONE],
   pt |-> startpt, pc |-> pc, startpt |-> startpt, startpc |-> pc, bcmin |-> 0, bcext |-> NoLimit,
   traceno |-> traceno, parent |-> parent, exitno |-> exitno, loopref |-> NONE,
   loopunroll |-> LoopUnroll, instunroll |-> InstUnroll, callunroll |-> CallUnroll, tailcalled |-> 0,
   catslot |-> NoSlot, err |-> "", r |-> NONE, link |-> <<>>]

\* Nothing happens to a recording that has failed.
On(J, K) == IF J.err # "" THEN J ELSE K
Fail(J, e) == On(J, [J EXCEPT !.err = e])
Require(J, cond, e) == IF cond THEN J ELSE Fail(J, e)
Root(J) == J.parent = 0 /\ J.exitno = 0
framedepth(J) == Len(J.frames)

\* Emit with and without simplification; a constant.
Emit(J, ins) ==
  LET e == emitir(J.b, ins)
  IN  On(J, IF e.r = GFAIL THEN Fail([J EXCEPT !.b = e.b], "GFAIL") ELSE [J EXCEPT !.b = e.b, !.r = e.r])
Guard(J, op, t, x, y) == Emit(J, Guarded(IRIns(op, t, x, y, NONE)))
Use(J, e) == On(J, [J EXCEPT !.b = e.b, !.r = e.r])
Raw(J, ins) == Use(J, emit_ins(J.b, ins))
RawGuard(J, op, t, x, y, lit) == Raw(J, Guarded(IRIns(op, t, x, y, lit)))
value_irt(v) == CASE v[1] \in {"num", "rat"} -> "num"
                  [] v[1] = "bool" -> IF v[2] THEN "true" ELSE "false"
                  [] v[1] = "table" -> "tab"
                  [] v[1] \in {"lua", "cfun"} -> "func"
                  [] OTHER -> v[1]
KNum(J, v) == Use(J, knum(J.b, v))
KInt(J, n) == Use(J, kint(J.b, n))
KGc(J, v) == Use(J, kgc(J.b, v, value_irt(v)))
KPri(J, v) == On(J, [J EXCEPT !.r = tref_pri(value_irt(v))])
KFrame(J, v) == Use(J, InternK(J.b, "KINT64", "frame", v))
constify(J, v) ==
  CASE irt_ispri(value_irt(v)) -> KPri(J, v)
    [] IsNum(v) -> KNum(J, v)
    [] OTHER -> KGc(J, v)

type(J, r) == ir(J.b, r).t
isnum(J, r) == type(J, r) \in {"num", "int"}
isint(J, r) == type(J, r) = "int"

---------------------------------------------------------------------------
(* Slots. *)

base_ref(J, n) == J.slot[J.baseslot + n]
set_abs(J, i, r) == On(J, [J EXCEPT !.slot[i] = r])
set_base(J, n, r) == set_abs(J, J.baseslot + n, r)
set_last(J, n) == set_base(J, n, J.r)
shrink(J, n) == On(J, [J EXCEPT !.maxslot = Min({@, n})])
grow(J, n) == On(J, [J EXCEPT !.maxslot = Max({@, n})])

\* The value of an absolute slot: the interpreter is in the frame of baseslot.
slot_val(J, s, i) == at(s, s.base - J.baseslot + i)

SLOADIns(t, i, inherit, readonly) ==
  IRIns("SLOAD", t, NONE, NONE, [slot |-> i, inherit |-> inherit, readonly |-> readonly])

sloadt(J, n, t, readonly) == LET K == Raw(J, SLOADIns(t, J.baseslot + n, TRUE, readonly)) IN set_last(K, n)

\* A slot not seen yet is loaded, specialised to the type it has now.
getslot_abs(J, s, i) ==
  LET t == value_irt(slot_val(J, s, i))
      K == Raw(J, Guarded(SLOADIns(t, i, FALSE, FALSE)))
      L == IF irt_ispri(t) THEN [K EXCEPT !.r = tref_pri(t)] ELSE K
  IN  IF J.slot[i] # NONE THEN On(J, [J EXCEPT !.r = J.slot[i]]) ELSE set_abs(L, i, L.r)
getslot(J, s, n) == getslot_abs(J, s, J.baseslot + n)
getslots(J, s, n, cnt) == FoldLeft(LAMBDA K, i : getslot(K, s, n + i - 1), J, [i \in 1 .. cnt |-> i])

---------------------------------------------------------------------------
(* Snapshots. *)

\* The slots that a step of the trace may have changed.  A slot inherited
\* and only read is remembered, not restored.
Modified(J) ==
  {i \in 0 .. (J.baseslot + J.maxslot - 1) :
     /\ i # 1 /\ J.slot[i] # NONE
     /\ LET ins == ir(J.b, J.slot[i]) IN ~(ins.op = "SLOAD" /\ ins.lit.slot = i /\ ~ins.lit.inherit)}
snapshot_slots(J) ==
  [i \in Modified(J) |->
     LET ins == ir(J.b, J.slot[i])
     IN  [r |-> J.slot[i], keep |-> ins.op = "SLOAD" /\ ins.lit.slot = i /\ ins.lit.readonly]]
snapshot_stack(J) ==
  [iref |-> nins(J.b), pc |-> J.pc, baseslot |-> J.baseslot, nslots |-> J.baseslot + J.maxslot,
   ents |-> snapshot_slots(J), count |-> 0, side |-> 0]

\* A snapshot replaces the last one when nothing was emitted in between, or
\* no guard where that is enough; the first one always stays.
EmitNop(J) == Raw(J, NOP)
snap_add(J) ==
  LET n == Len(J.snap)
      merge == (n > 0 /\ J.snap[n].iref = nins(J.b)) \/ (J.mergesnap /\ ~J.b.guardemit)
      K == CASE merge /\ n = 1 -> EmitNop(J)
             [] merge /\ n # 1 -> [J EXCEPT !.snap = Front(@)]
             [] OTHER -> J
      L == [K EXCEPT !.mergesnap = FALSE, !.b.guardemit = FALSE]
  IN  On(J, [L EXCEPT !.snap = Append(@, snapshot_stack(L))])

\* The entries of a parent's snapshot: constants are interned again, the
\* others inherited, one load for all the slots with the same value.
replay_const(J, k) == Use(J, InternK(J.b, k.op, k.t, k.lit))
ReplaySlot(acc, p, snap, i) ==
  LET r == snap.ents[i].r
      ins == ir(p.b, r)
      J == acc.J
      fresh == IF irref_isk(r) THEN replay_const(J, ins)
               ELSE Raw(J, SLOADIns(ins.t, i, TRUE, ins.op = "SLOAD" /\ ins.lit.readonly))
      K == IF r \in DOMAIN acc.seen THEN On(J, [J EXCEPT !.r = acc.seen[r]]) ELSE fresh
  IN  [J |-> set_abs(K, i, K.r), seen |-> (r :> K.r) @@ acc.seen]

\* A frame link in the snapshot: an inlined call that is rebuilt from the
\* constants, when its call has a fixed number of results.
ReplayFrame(J, s, p, snap, i) ==
  LET link == ir(p.b, snap.ents[i].r).lit
      f == ir(p.b, snap.ents[i - 1].r)
      call == J.code[link[2]].bc[link[3]]
      callee == s.clos[f.lit[2]].proto
      known == irref_isk(snap.ents[i].r) /\ i - 1 \in DOMAIN snap.ents /\ irref_isk(snap.ents[i - 1].r)
      ok == known /\ f.t = "func" /\ f.lit[1] = "lua" /\ link[2] = J.pt /\ call.op = "CALL" /\ call.b # 0
  IN  IF ~ok THEN Fail(J, "NYIBC")
      ELSE On(J, [J EXCEPT !.frames = Append(@, [pt |-> J.pt, callee |-> callee, cbase |-> call.a,
                                                 want |-> call.b - 1, prev |-> J.baseslot]),
                           !.pt = callee, !.baseslot = i + 1])

isframe(J, r) == ir(J.b, r).t = "frame"

snap_replay(J, s, p, exitno) ==
  LET snap == p.snap[exitno + 1]
      Step(acc, i) == LET a == ReplaySlot(acc, p, snap, i)
                      IN  IF isframe(p, snap.ents[i].r)
                          THEN [a EXCEPT !.J = ReplayFrame(@, s, p, snap, i)] ELSE a
      K == FoldLeft(Step, [J |-> J, seen |-> <<>>], SetToSortSeq(DOMAIN snap.ents, <)).J
      fits == Require(K, 1 + K.baseslot + K.code[K.pt].framesize < MAX_JSLOTS, "STACKOV")
  IN  snap_add(On(fits, [fits EXCEPT !.maxslot = snap.nslots - fits.baseslot, !.pc = snap.pc]))

---------------------------------------------------------------------------
(* Loops. *)

for_direction(v) == v[2] >= 0

\* Whether the loop goes on with the values the interpreter has.
for_iter(s, ra, isforl) ==
  LET stop == reg(s, ra + FORL_STOP)[2]
      step == reg(s, ra + FORL_STEP)[2]
      idx == reg(s, ra)[2] + (IF isforl THEN step ELSE 0)
      up == step >= 0
      stays == IF up THEN idx <= stop ELSE stop <= idx
      low == IF up THEN idx + 2 * step > stop ELSE idx + 2 * step < stop
  IN  [op |-> IF up THEN (IF stays THEN "LE" ELSE "GT") ELSE (IF stays THEN "GE" ELSE "LT"),
       ev |-> IF ~stays THEN "Leave" ELSE IF low THEN "EnterLo" ELSE "Enter"]

\* A constant that initialises the slot, with no jump over it.
ModeBase == {"KNIL", "TSETM", "CALLM", "CALL", "CALLMT", "CALLT", "ITERC", "ITERN", "VARG", "ISNEXT", "RETM", "FORI",
             "JFORI", "FORL", "IFORL", "JFORL", "ITERL", "IITERL", "JITERL"}
ModeDst == {"ISTC", "ISFC", "MOV", "NOT", "UNM", "LEN", "ARITHVV", "ARITHVN", "ARITHNV", "BITVV", "BNOT", "CAT", "KSTR",
            "KNUM", "KPRI", "UGET", "FNEW", "TNEW", "TDUP", "GGET", "TGETV", "TGETS", "TGETB"}
find_kinit(J, endpc, slot) ==
  LET bc == J.code[J.pt].bc
      At(i) == bc[i + 1]
      Touches(i) == \/ At(i).op \in ModeBase /\ At(i).a <= slot
                    \/ At(i).op \in ModeDst /\ At(i).a = slot
      before == {i \in 1 .. (endpc - 1) : Touches(i)}
      k == Max(before)
      over == \E i \in 1 .. (k - 1) : At(i).op = "JMP" /\ i + At(i).d + 1 \in (k + 1) .. endpc
  IN  IF before = {} \/ At(k).op # "KNUM" \/ over THEN [J EXCEPT !.r = NONE] ELSE KNum(J, At(k).d)

fori_arg(J, fori, slot) ==
  LET K == find_kinit(J, fori, slot)
  IN  CASE base_ref(J, slot) # NONE -> On(J, [J EXCEPT !.r = base_ref(J, slot)])
        [] K.r # NONE -> K
        [] OTHER -> sloadt(J, slot, "num", TRUE)

\* The sign of a step that is not constant is guarded.
for_check(J, dir, step) ==
  LET t == IF isint(J, step) THEN "int" ELSE "num"
      K == IF t = "int" THEN KInt(J, 0) ELSE KNum(J, Num(0))
  IN  IF irref_isk(step) THEN J ELSE Guard(K, IF dir THEN "GE" ELSE "LT", t, step, K.r)

\* The bookkeeping of the loop whose FORI is at fori: bound and step are
\* integers when both are constant.
for_loop(J, s, fori, init) ==
  LET ra == J.code[J.pt].bc[fori + 1].a
      v(i) == reg(s, ra + i)
      dir == for_direction(v(FORL_STEP))
      J1 == Require(J, \A i \in 0 .. 2 : IsNum(v(i)), "NYIBC")
      J2 == fori_arg(J1, fori, ra + FORL_STOP)
      J3 == fori_arg(J2, fori, ra + FORL_STEP)
      narrow == irref_isk(J2.r) /\ irref_isk(J3.r)
      J4 == IF narrow THEN KInt(J3, v(FORL_STEP)[2]) ELSE J3
      J5 == IF narrow THEN KInt(J4, v(FORL_STOP)[2]) ELSE J4
      J6 == for_check(On(J5, [J5 EXCEPT !.scev.stop = IF narrow THEN J5.r ELSE J2.r, !.scev.step = J4.r]), dir, J4.r)
      J7 == IF base_ref(J, ra) = NONE THEN sloadt(J6, ra, "num", FALSE)
            ELSE On(J6, [J6 EXCEPT !.r = base_ref(J, ra)])
      J8 == IF init THEN J7 ELSE set_last(Emit(J7, IRIns("ADD", "num", J7.r, J7.scev.step, NONE)), ra)
      J9 == set_last(J8, ra + FORL_EXT)
  IN  On(J9, [J9 EXCEPT !.scev.idx = J9.r, !.scev.pc = fori, !.maxslot = ra + FORL_EXT + 1])

\* FORL advances the index, FORI takes it as it is; the guard's snapshot
\* continues on the path that is not taken.
ForNext(J, s, fori, ra) ==
  LET idx == base_ref(J, ra)
      K == Emit(J, IRIns("ADD", "num", idx, J.scev.step, NONE))
  IN  IF J.scev.pc = fori /\ idx = J.scev.idx
      THEN [J |-> set_last(set_last(K, ra), ra + FORL_EXT), stop |-> J.scev.stop]
      ELSE LET L == for_loop(J, s, fori, FALSE) IN [J |-> L, stop |-> L.scev.stop]
ForFirst(J, s, ra) ==
  LET J1 == getslot(J, s, ra)
      J2 == getslot(J1, s, ra + FORL_STOP)
      J3 == getslot(J2, s, ra + FORL_STEP)
      J4 == set_base(J3, ra + FORL_EXT, J1.r)
  IN  [J |-> for_check(J4, for_direction(reg(s, ra + FORL_STEP)), J3.r), stop |-> J2.r]

ExitPath(ev, leave, stay) == IF ev = "Leave" THEN stay ELSE leave
rec_for(J, s, fori, isforl) ==
  LET ins == J.code[J.pt].bc[fori + 1]
      ra == ins.a
      J0 == Require(J, \A i \in 0 .. 2 : IsNum(reg(s, ra + i)), "GFAIL")
      f == IF isforl THEN ForNext(J0, s, fori, ra) ELSE ForFirst(J0, s, ra)
      it == for_iter(s, ra, isforl)
      stay == [maxslot |-> ra + FORL_EXT + 1, pc |-> fori + 1]
      leave == [maxslot |-> ra, pc |-> fori + 1 + ins.d]
      To(K, w) == On(K, [K EXCEPT !.maxslot = w.maxslot, !.pc = w.pc])
      J1 == snap_add(To(f.J, ExitPath(it.ev, leave, stay)))
      J2 == Guard(J1, it.op, "num", base_ref(J1, ra), f.stop)
      J3 == To(J2, IF it.ev = "Leave" THEN leave ELSE stay)
  IN  [J |-> On(J3, [J3 EXCEPT !.needsnap = TRUE]), ev |-> it.ev]

rec_loop(J, ra) == LET K == shrink(J, ra) IN [J |-> On(K, [K EXCEPT !.pc = @ + 1]), ev |-> "Enter"]

\* A loop the interpreter runs: the recording closes where it started; an
\* inner loop is left to be traced first, or unrolled if it never loops.
loop_interp(J, pc, ev, left) ==
  LET ins == J.code[J.pt].bc[pc + 1]
      inner == ins.d # -1 /\ ~left
      much == ev # "EnterLo" /\ J.loopref # NONE /\ nins(J.b) - J.loopref > 24
  IN  CASE ~Root(J) -> J
        [] pc = J.startpc /\ framedepth(J) = 0 ->
             IF ev = "Leave" THEN Fail(J, "LLEAVE") ELSE On(J, [J EXCEPT !.link = <<"Loop", J.traceno>>])
        [] ev = "Leave" -> J
        [] OTHER -> IF inner THEN Fail(J, "LINNER") ELSE IF much \/ J.loopunroll = 0 THEN Fail(J, "LUNROLL")
                    ELSE On(J, [J EXCEPT !.loopunroll = @ - 1, !.loopref = nins(J.b)])

\* A loop that has a trace: a side trace links to it.
loop_jit(J, lnk, ev) ==
  LET own == J.pc = J.startpc /\ framedepth(J) = 0
  IN  CASE Root(J) -> Fail(J, "LINNER")
        [] ev = "Leave" -> J
        [] OTHER -> On(J, [J EXCEPT !.instunroll = 0, !.link = IF own THEN <<"Loop", J.traceno>> ELSE <<"Root", lnk>>])

---------------------------------------------------------------------------
(* Comparisons and arithmetic. *)

comp_prep(J) ==
  snap_add(IF Len(J.snap) = 1 /\ J.snap[1].iref = nins(J.b) THEN EmitNop(J) ELSE J)

\* The last snapshot continues on the branch that is not taken.
comp_fixup(J, pc, cond) ==
  LET jmp == J.code[J.pt].bc[pc + 2]
      n == Len(J.snap)
      K == On(J, [J EXCEPT !.snap[n].pc = pc + 2 + (IF cond THEN jmp.d ELSE 0), !.needsnap = TRUE])
  IN  shrink(K, jmp.a)

\* Raw equality; J.r is 0 same, 1 different, 2 of different types.
has_eq(s, v) == v[1] = "table" /\ meta_lookup(s, v, "__eq") # Nil
objcmp(J, s, a, b, av, bv) ==
  LET diff == av # bv
      t == type(J, a)
      K == CASE irref_isk(a) /\ irref_isk(b) -> J
             [] irt_ispri(t) -> J
             [] has_eq(s, av) \/ has_eq(s, bv) -> Fail(J, "NYIBC")
             [] OTHER -> Guard(J, IF diff THEN "NE" ELSE "EQ", t, a, b)
      bothk == irref_isk(a) /\ irref_isk(b)
  IN  IF ~bothk /\ t # type(J, b) THEN On(J, [J EXCEPT !.r = 2])
      ELSE On(K, [K EXCEPT !.r = IF diff THEN 1 ELSE 0])

arith(J, rb, rc, op) ==
  LET int == isint(J, rb) /\ isint(J, rc) /\ op \in {"ADD", "SUB", "MUL", "MOD"}
      J1 == Emit(J, IRIns("DIV", "num", rb, rc, NONE))
      J2 == Emit(J1, IRIns("FPMATH", "num", J1.r, NONE, "floor"))
      J3 == Emit(J2, IRIns("MUL", "num", J2.r, rc, NONE))
  IN  CASE ~isnum(J, rb) \/ ~isnum(J, rc) -> Fail(J, "NYIBC")
        [] int -> Emit(J, IRIns(op, "int", rb, rc, NONE))
        [] op = "MOD" -> Emit(J3, IRIns("SUB", "num", rb, J3.r, NONE))
        [] OTHER -> Emit(J, IRIns(op, "num", rb, rc, NONE))

\* Bit operators on numbers: each operand is guarded to be in range, unless
\* it is the result of one.
is_bitop_ref(J, x) == x > 0 /\ ir(J.b, x).op \in BitResults
bitrange_guard(J, x, lo) ==
  LET J1 == KNum(J, Num(lo))
      J2 == KNum(J1, Num(MaxInt))
  IN  Guard(Guard(J2, "GE", "num", x, J1.r), "LE", "num", x, J2.r)
rec_bitop(J, irop, x, y) ==
  LET J1 == Require(J, isnum(J, x) /\ (y = NONE \/ isnum(J, y)), "NYIBC")
      J2 == IF is_bitop_ref(J, x) THEN J1 ELSE bitrange_guard(J1, x, MinInt)
      J3 == IF y = NONE \/ is_bitop_ref(J, y) THEN J2
            ELSE bitrange_guard(J2, y, IF irop \in {"BSHL", "BSHR", "BSAR"} THEN 0 ELSE MinInt)
  IN  Raw(J3, IRIns(irop, "num", x, y, NONE))

---------------------------------------------------------------------------
(* Frames. *)

\* The callee is guarded to be the function it is now.
GuardFn(J, r, v) == LET K == KGc(J, v) IN
  IF irref_isk(r) THEN K ELSE LET L == Guard(K, "EQ", "func", r, K.r) IN On(L, [L EXCEPT !.r = K.r])

\* rec_func_setup: missing arguments are nil, the rest is unknown.
SetupFrame(J, p, nargs) ==
  LET b == J.baseslot
      np == b + J.code[p].numparams
      given == Min({b + nargs, np})
  IN  On(J, [J EXCEPT !.slot = [i \in given .. (np - 1) |-> REF_NIL] @@ [i \in np .. (b + J.code[p].framesize - 1) |-> NONE] @@ @,
                      !.maxslot = np - b])

rec_call_lua(J, s, pc, a, nargs, want, fv) ==
  LET p == s.clos[fv[2]].proto
      same == Cardinality({i \in DOMAIN J.frames : J.frames[i].callee = p})
      newbase == J.baseslot + a + 2
      J1 == Require(Require(J, want >= 0 /\ ~J.code[p].vararg, "NYIBC"), same < J.callunroll, "CUNROLL")
      J2 == Require(J1, 1 + newbase + J.code[p].framesize < MAX_JSLOTS, "STACKOV")
      J3 == set_last(GuardFn(J2, base_ref(J, a), fv), a)
      J4 == set_last(KFrame(J3, <<"ret", J.pt, pc + 1>>), a + 1)
      J5 == getslots(J4, s, a + 2, nargs)
      J6 == [J5 EXCEPT !.frames = Append(@, [pt |-> J.pt, callee |-> p, cbase |-> a, want |-> want, prev |-> J.baseslot]),
                       !.baseslot = newbase, !.pt = p]
  IN  On(J5, SetupFrame(J6, p, nargs))

\* The results go to the call's slots in the caller's frame.
rec_ret(J, s, rbase, gotres) ==
  LET J1 == getslots(J, s, rbase, gotres)
      fr == Last(J.frames)
      top == J.baseslot + J.code[J.pt].framesize
      Res(i) == IF i < gotres THEN J1.slot[J.baseslot + rbase + i] ELSE REF_NIL
      dst == fr.prev + fr.cbase
      slot == [i \in dst .. (dst + fr.want - 1) |-> Res(i - dst)] @@ [i \in (dst + fr.want) .. (top - 1) |-> NONE] @@ J1.slot
  IN  IF J.frames = <<>> THEN Fail(J, "NYIRETL")
      ELSE On(J1, [J1 EXCEPT !.frames = Front(@), !.baseslot = fr.prev, !.pt = fr.pt, !.slot = slot,
                             !.maxslot = fr.cbase + fr.want])

specialize_curfn(J, s) ==
  LET i == J.baseslot - 2
      K == getslot_abs(J, s, i)
      L == GuardFn(K, K.r, at(s, s.base - 2))
  IN  IF J.slot[i] # NONE /\ irref_isk(J.slot[i]) THEN J ELSE set_abs(L, i, L.r)

---------------------------------------------------------------------------
(* Upvalues: the address of an open one is a stack slot, that of a closed   *)
(* one is in the cell.                                                     *)

value_ptr(s, u) == IF s.uv[u].open THEN <<"slot", s.uv[u].slot>> ELSE <<"cell", u>>
KPtr(J, ptr) == Use(J, InternK(J.b, "KINT64", "u64", ptr))
\* The recorder's slot of an open upvalue; below 2 it is not in a recorded frame.
Alias(J, s, u) == s.uv[u].slot - (s.base - J.baseslot)

rec_uget(J, s, idx) ==
  LET u == s.clos[s.cl].up[idx]
      v == upval_get(s, u)
      t == value_irt(v)
      J1 == specialize_curfn(J, s)
      J2 == KPtr(J1, value_ptr(s, u))
      J3 == RawGuard(J2, "ULOAD", t, J2.r, NONE, NONE)
  IN  CASE s.uv[u].imm /\ v[1] # "table" -> constify(J1, v)
        [] s.uv[u].open /\ Alias(J, s, u) \in 2 .. (MAX_JSLOTS - 1) -> getslot_abs(J1, s, Alias(J, s, u))
        [] irt_ispri(t) -> On(J3, [J3 EXCEPT !.r = tref_pri(t)])
        [] OTHER -> J3

\* The slot of an upvalue that is written is loaded anew when it is read.
rec_uset(J, s, idx, val) ==
  LET u == s.clos[s.cl].up[idx]
      J1 == specialize_curfn(J, s)
      J2 == KPtr(J1, value_ptr(s, u))
      J3 == Raw(J2, IRIns("CARG", "nil", J2.r, val, NONE))
      J4 == Raw(J3, IRIns("CALLL", "nil", J3.r, NONE, "USET"))
      abs == Max({Alias(J, s, u), 2})
  IN  IF s.uv[u].open /\ abs < MAX_JSLOTS THEN set_abs(J4, abs, NONE) ELSE J4

---------------------------------------------------------------------------
(* Tables. *)

\* A collection may be due; one check per trace.
rec_gcstep(J) ==
  LET K == IF \E i \in DOMAIN J.b.ins : J.b.ins[i].op = "GCSTEP" THEN J ELSE RawGuard(J, "GCSTEP", "nil", NONE, NONE, NONE)
  IN  On(K, [K EXCEPT !.needsnap = TRUE])

meta_guard(J, tab) == RawGuard(J, "FLOAD", "nil", tab, NONE, IRFL_TAB_META)
\* The metatable is the recorded one, and so is its metamethod.
GuardMeta(J, tab, mt) ==
  LET J1 == RawGuard(J, "FLOAD", "tab", tab, NONE, IRFL_TAB_META)
      J2 == KGc(J1, Table(mt))
      J3 == Guard(J2, "EQ", "tab", J1.r, J2.r)
  IN  On(J3, [J3 EXCEPT !.r = J1.r])
GuardMM(J, tab, mt, name, mo) ==
  LET J1 == GuardMeta(J, tab, mt)
      J2 == KGc(J1, Str(name))
      J3 == RawGuard(J2, "HLOAD", "func", J1.r, J2.r, NONE)
      J4 == KGc(J3, mo)
      J5 == Guard(J4, "EQ", "func", J3.r, J4.r)
  IN  On(J5, [J5 EXCEPT !.r = J4.r])

\* An integer key in the array part.
InArray(s, t, keyv, from) == IsNum(keyv) /\ keyv[2] \in from .. (s.tabs[t].asize - 1)

Load(J, s, tabv, tab, keyv, key) ==
  LET v == tget(s, tabv[2], keyv)
      t == value_irt(v)
      op == IF type(J, key) = "num" /\ InArray(s, tabv[2], keyv, 0) THEN "ALOAD" ELSE "HLOAD"
      K == RawGuard(J, op, t, tab, key, NONE)
  IN  IF irt_ispri(t) THEN On(K, [K EXCEPT !.r = tref_pri(t)]) ELSE K

RECURSIVE rec_callff_core(_, _, _, _, _, _, _)

\* The metamethod takes the place of the instruction's destination, its
\* arguments follow.
inline_mm_call(J, s, a, mo, refs, argv) ==
  LET J1 == set_last(KGc(J, mo), a)
      J2 == FoldLeft(LAMBDA K, i : set_base(K, a + 1 + i, refs[i]), J1, [i \in DOMAIN refs |-> i])
      J3 == IF mo[1] = "lua" THEN rec_call_lua(J2, s, J.pc, a, Len(refs), 1, mo)
            ELSE rec_callff_core(J2, s, a, 1, Len(refs), mo, argv)
  IN  On(J3, [J3 EXCEPT !.r = NONE])

\* A nil result is looked up once more in a table __index, or by calling a
\* function __index.
rec_tget(J, s, a, tabv, tab, keyv, key, inline) ==
  LET v == tget(s, tabv[2], keyv)
      mt == s.tabs[tabv[2]].mt
      mo == meta_lookup(s, tabv, "__index")
      J1 == GuardMeta(J, tab, mt)
      J2 == KGc(J1, mo)
      J3 == GuardMM(J, tab, mt, "__index", mo)
  IN  CASE type(J, tab) # "tab" -> Fail(J, "NYIBC")
        [] v # Nil -> Load(J, s, tabv, tab, keyv, key)
        [] mt = 0 -> Load(meta_guard(J, tab), s, tabv, tab, keyv, key)
        [] mo[1] = "table" -> Load(J2, s, mo, J2.r, keyv, key)
        [] is_func(mo) /\ inline -> inline_mm_call(J3, s, a, mo, <<tab, key>>, <<tabv, keyv>>)
        [] OTHER -> Fail(J, "NYIBC")

\* The check for a collection comes before the store.
Store(J, s, tabv, tab, keyv, key, val) ==
  LET J1 == rec_gcstep(J)
      J2 == Raw(J1, IRIns("CARG", "nil", key, val, NONE))
      arr == type(J, key) = "num" /\ InArray(s, tabv[2], keyv, 1)
      J3 == Raw(J2, IRIns(IF arr THEN "ASTORE" ELSE "HSTORE", "nil", tab, J2.r, NONE))
  IN  On(J3, [J3 EXCEPT !.r = NONE, !.needsnap = @ \/ arr])

rec_tset(J, s, a, tabv, tab, keyv, key, val, inline) ==
  LET mt == s.tabs[tabv[2]].mt
      mm == meta_lookup(s, tabv, "__newindex")
      J1 == RawGuard(J, "HLOAD", "nil", tab, key, NONE)
      J2 == GuardMM(J1, tab, mt, "__newindex", mm)
  IN  CASE type(J, tab) # "tab" \/ keyv = Nil -> Fail(J, "NYIBC")
        [] mt = 0 -> Store(meta_guard(J, tab), s, tabv, tab, keyv, key, val)
        [] mm = Nil -> Store(J, s, tabv, tab, keyv, key, val)
        [] ~inline -> Fail(J, "NYIBC")
        [] tget(s, tabv[2], keyv) # Nil -> Store(J1, s, tabv, tab, keyv, key, val)
        [] ~is_func(mm) -> Fail(J1, "NYIBC")
        [] OTHER -> inline_mm_call(J2, s, a, mm, <<tab, key, val>>, <<tabv, keyv, Nil>>)

---------------------------------------------------------------------------
(* Builtins that are recorded as IR. *)

Builtins == {"next", "setmetatable", "type", "rawget", "rawset", "abs", "min", "max", "tonumber", "insert", "remove"}

\* jit_tnextk, and the step through the array part without a call.
RecNext(J, s, tab, key, tabv, keyv) ==
  LET nkv == lib_next(s, <<tabv, keyv>>)[1]
      dense == /\ type(J, key) = "num" /\ nkv # Nil /\ IsNum(nkv) /\ nkv[2] = keyv[2] + 1
               /\ InArray(s, tabv[2], nkv, 0)
      J1 == KNum(J, Num(1))
      J2 == Emit(J1, IRIns("ADD", "num", key, J1.r, NONE))
      J3 == Raw(J, IRIns("CARG", "nil", tab, key, NONE))
      J4 == RawGuard(J3, "CALLL", value_irt(nkv), J3.r, NONE, "TAB_NEXTK")
      J5 == IF dense THEN J2 ELSE J4
      J6 == rec_tget(J5, s, 0, tabv, tab, nkv, J5.r, FALSE)
  IN  CASE type(J, tab) # "tab" -> [J |-> Fail(J, "NYIBC"), res |-> <<>>]
        [] nkv = Nil -> [J |-> J4, res |-> <<REF_NIL>>]
        [] OTHER -> [J |-> J6, res |-> <<J5.r, J6.r>>]

RecSetmetatable(J, s, tab, mt, tabv, mtv) ==
  LET ok == type(J, tab) = "tab" /\ mtv[1] \in {"table", "nil"} /\ meta_lookup(s, tabv, "__metatable") = Nil
  IN  [J |-> Raw(Require(J, ok, "NYIBC"), IRIns("FSTORE", "nil", tab, IF mtv = Nil THEN NONE ELSE mt, NONE)), res |-> <<tab>>]

TypeName(t) == CASE t \in {"true", "false"} -> "boolean" [] t \in {"num", "int"} -> "number" [] t = "str" -> "string"
                 [] t = "tab" -> "table" [] t = "func" -> "function" [] t = "nil" -> "nil"

\* The push and pop forms work on the array part only.
RecInsert(J, s, tab, tabv, val) ==
  LET ok == type(J, tab) = "tab" /\ tlen(s, tabv[2]) + 1 < s.tabs[tabv[2]].asize
      J1 == Raw(Require(J, ok, "NYIBC"), IRIns("CALLL", "num", tab, NONE, "TAB_LEN"))
      J2 == KNum(J1, Num(1))
      J3 == Emit(J2, IRIns("ADD", "num", J1.r, J2.r, NONE))
      J4 == Raw(J3, IRIns("CARG", "nil", J3.r, val, NONE))
      J5 == Raw(J4, IRIns("ASTORE", "nil", tab, J4.r, NONE))
  IN  [J |-> On(J5, [J5 EXCEPT !.needsnap = TRUE]), res |-> <<>>]
TakeOut(J, s, tab, tabv, key, keyv) ==
  LET v == tget(s, tabv[2], keyv)
      J1 == RawGuard(J, "ALOAD", value_irt(v), tab, key, NONE)
      J2 == Raw(J1, IRIns("CARG", "nil", key, REF_NIL, NONE))
      J3 == Raw(J2, IRIns("ASTORE", "nil", tab, J2.r, NONE))
  IN  [J |-> On(J3, [J3 EXCEPT !.needsnap = TRUE]), res |-> <<J1.r>>]
RecRemove(J, s, tab, tabv, nargs, pos, posv) ==
  LET n == tlen(s, tabv[2])
      J1 == Require(J, type(J, tab) = "tab" /\ n # 0 /\ n < s.tabs[tabv[2]].asize, "NYIBC")
      J2 == Raw(J1, IRIns("CALLL", "num", tab, NONE, "TAB_LEN"))
      J3 == KNum(J2, Num(0))
      J4 == Guard(J3, "GT", "num", J2.r, J3.r)
      there == type(J, tab) = "tab" /\ InArray(s, tabv[2], posv, 1) /\ tget(s, tabv[2], posv) # Nil
  IN  IF nargs = 1 THEN TakeOut(J4, s, tab, tabv, J2.r, Num(n))
      ELSE TakeOut(Require(J, there, "NYIBC"), s, tab, tabv, pos, posv)

\* Adding zero makes a negative zero positive.
PlusZero(J) == LET K == KNum(J, Num(0)) IN Raw(K, IRIns("ADD", "num", J.r, K.r, NONE))
RecMath(J, op, refs) ==
  LET J1 == Require(J, \A i \in DOMAIN refs : type(J, refs[i]) = "num", "NYIBC")
      J2 == FoldLeft(LAMBDA K, i : Emit(K, IRIns(op, "num", refs[i], K.r, NONE)),
                     On(J1, [J1 EXCEPT !.r = refs[1]]), [i \in 1 .. (Len(refs) - 1) |-> i + 1])
      J3 == IF op = "ABS" THEN Emit(J1, IRIns("ABS", "num", refs[1], NONE, NONE)) ELSE PlusZero(J2)
  IN  [J |-> J3, res |-> <<J3.r>>]

RecBuiltin(J, s, f, refs, argv) ==
  LET n == Len(refs)
      tab == refs[1]
      One(K) == [J |-> K, res |-> <<K.r>>]
      Bad == [J |-> Fail(J, "NYIBC"), res |-> <<>>]
  IN  CASE f = "next" -> RecNext(J, s, tab, IF n >= 2 THEN refs[2] ELSE REF_NIL, argv[1], IF n >= 2 THEN argv[2] ELSE Nil)
        [] f = "setmetatable" -> IF n < 2 THEN Bad ELSE RecSetmetatable(J, s, tab, refs[2], argv[1], argv[2])
        [] f = "type" -> One(KGc(J, Str(TypeName(type(J, tab)))))
        [] f = "rawget" -> One(rec_tget(J, s, 0, argv[1], tab, argv[2], refs[2], FALSE))
        [] f = "rawset" -> [J |-> rec_tset(J, s, 0, argv[1], tab, argv[2], refs[2], refs[3], FALSE), res |-> <<>>]
        [] f = "tonumber" -> IF isnum(J, tab) THEN One([J EXCEPT !.r = tab]) ELSE Bad
        [] f = "abs" -> RecMath(J, "ABS", <<tab>>)
        [] f \in {"min", "max"} -> RecMath(J, IF f = "min" THEN "MIN" ELSE "MAX", refs)
        [] f = "insert" -> IF n # 2 THEN Bad ELSE RecInsert(J, s, tab, argv[1], refs[2])
        [] f = "remove" -> IF n > 2 THEN Bad ELSE RecRemove(J, s, tab, argv[1], n, refs[n], argv[n])

rec_callff_core(J, s, a, want, nargs, fv, argv) ==
  LET J1 == Require(J, fv[2] \in Builtins /\ want >= 0 /\ nargs >= 1, "NYIBC")
      J2 == GuardFn(J1, base_ref(J, a), fv)
      refs == [i \in 1 .. nargs |-> base_ref(J, a + 1 + i)]
      c == RecBuiltin(J2, s, fv[2], refs, argv)
      lo == J.baseslot + a
      slot == [i \in lo .. (lo + want - 1) |-> IF i - lo < Len(c.res) THEN c.res[i - lo + 1] ELSE REF_NIL]
              @@ [i \in (lo + want) .. (lo + 1 + nargs) |-> NONE]
  IN  IF J2.err # "" THEN J2
      ELSE On(c.J, [c.J EXCEPT !.slot = slot @@ @, !.maxslot = a + want])

---------------------------------------------------------------------------
(* Calls. *)

\* A table that is called: __call with the table as first argument.
rec_call_mm(J, s, pc, a, nargs, want, fv) ==
  LET mt == metatable_of(s, fv)
      mo == meta_lookup(s, fv, "__call")
      self == base_ref(J, a)
      J1 == Require(J, fv[1] = "table" /\ is_func(mo), "NYIBC")
      J2 == set_last(GuardMM(J1, self, mt, "__call", mo), a)
      J3 == getslots(J2, s, a + 2, nargs)
      Up(K, i) == set_base(K, a + 3 + nargs - i, J3.slot[J.baseslot + a + 2 + nargs - i])
      J4 == set_base(FoldLeft(Up, J3, [i \in 1 .. nargs |-> i]), a + 2, self)
      argv == [i \in 1 .. nargs |-> reg(s, a + 2 + i)]
  IN  CASE J1.err # "" -> J1
        [] mo[1] = "lua" -> rec_call_lua(J4, s, pc, a, nargs + 1, want, mo)
        [] OTHER -> rec_callff_core(J4, s, a, want, nargs, mo, argv)

CallValue(J, s, pc, a, nargs, want, fv, argv) ==
  IF fv[1] = "lua" THEN rec_call_lua(J, s, pc, a, nargs, want, fv)
  ELSE rec_callff_core(getslots(J, s, a + 2, nargs), s, a, want, nargs, fv, argv)

rec_call(J0, s, pc, ins) ==
  LET fv == reg(s, ins.a)
      nargs == ins.c - 1
      J == getslot(J0, s, ins.a)
  IN  IF is_func(fv) THEN CallValue(J, s, pc, ins.a, nargs, ins.b - 1, fv, slots(s, s.base + ins.a + 2, nargs))
      ELSE rec_call_mm(J, s, pc, ins.a, nargs, ins.b - 1, fv)

rec_iterc(J, s, pc, ins) ==
  LET a == ins.a
      J1 == getslots(J, s, a - 3, 3)
      J2 == set_base(set_base(J1, a, base_ref(J1, a - 3)), a + 1, NONE)
      J3 == set_base(set_base(J2, a + 2, base_ref(J1, a - 2)), a + 3, base_ref(J1, a - 1))
      fv == reg(s, a - 3)
  IN  IF is_func(fv) THEN CallValue(J3, s, pc, a, 2, ins.b - 1, fv, <<reg(s, a - 2), reg(s, a - 1)>>) ELSE Fail(J3, "NYIBC")

\* Whether the loop goes on is known from the type of the first result.
rec_iterl(J, s, pc, ins) ==
  LET K == getslot(J, s, ins.a)
      iterc == J.code[J.pt].bc[pc]
      L == set_base(K, ins.a - 1, K.r)
  IN  IF K.r # REF_NIL
      THEN [J |-> On(L, [L EXCEPT !.maxslot = ins.a - 1 + iterc.b, !.pc = pc + 1 + ins.d]), ev |-> "Enter"]
      ELSE [J |-> On(K, [K EXCEPT !.maxslot = ins.a - 3, !.pc = pc + 1]), ev |-> "Leave"]

\* A tail call replaces the innermost inlined frame.
rec_callt(J, s, ins) ==
  LET fv == reg(s, ins.a)
      nargs == ins.d - 1
      J1 == getslots(J, s, ins.a + 2, nargs)
      c == rec_callff_core(J1, s, ins.a, 1, nargs, fv, slots(s, s.base + ins.a + 2, nargs))
      p == s.clos[fv[2]].proto
      J2 == Require(J, ~J.code[p].vararg /\ J.frames # <<>>, "NYIBC")
      J3 == On(J2, [J2 EXCEPT !.tailcalled = @ + 1])
      J4 == Require(J3, J3.tailcalled <= J.loopunroll, "LUNROLL")
      J5 == Require(J4, 1 + J.baseslot + J.code[p].framesize < MAX_JSLOTS, "STACKOV")
      J6 == getslot(J5, s, ins.a)
      J7 == GuardFn(J6, J6.r, fv)
      J8 == getslots(J7, s, ins.a + 2, nargs)
      args == [i \in J.baseslot .. (J.baseslot + nargs - 1) |-> J8.slot[i + ins.a + 2]]
      J9 == [J8 EXCEPT !.slot = (J.baseslot - 2 :> J7.r) @@ args @@ @, !.pt = p,
                       !.frames = [@ EXCEPT ![Len(@)].callee = p]]
  IN  CASE fv[1] = "cfun" -> rec_ret(c, s, ins.a, 1)
        [] fv[1] = "lua" -> IF J8.err # "" THEN J8 ELSE SetupFrame(J9, p, nargs)
        [] OTHER -> Fail(J, "NYIBC")

---------------------------------------------------------------------------
(* Concatenation. *)

isstrnum(J, r) == type(J, r) \in {"str", "num"}

\* Whether no other instruction of the loop reads the slot.
VarA == {"ISLT", "ISGE", "ISLE", "ISGT", "ISEQV", "ISNEV", "ISEQK", "ISNEK", "GSET", "TSETV", "TSETS", "TSETB"}
VarB == {"ARITHVV", "ARITHVN", "ARITHNV", "BITVV", "TGETV", "TGETS", "TGETB", "TSETV", "TSETS", "TSETB"}
VarC == {"ARITHVV", "BITVV", "TGETV", "TSETV"}
VarD == {"ISLT", "ISGE", "ISLE", "ISGT", "ISEQV", "ISNEV", "ISTC", "ISFC", "IST", "ISF", "MOV", "NOT", "UNM", "LEN", "BNOT", "USETV"}
Reads(ins, slot) ==
  \/ ins.op \in VarB /\ ins.b = slot
  \/ ins.op \in VarC /\ ins.c = slot
  \/ ins.op \in VarD \ {"MOV"} /\ ins.d = slot
  \/ ins.op = "CAT" /\ slot \in ins.b .. ins.c
cat_slot_clean(J, slot, pc) ==
  /\ J.bcext # NoLimit
  /\ \A p \in (J.bcmin .. (J.bcmin + J.bcext - 1)) \ {pc} : ~Reads(J.code[J.pt].bc[p + 1], slot)

CatPairs(J, s, ins) ==
  LET Pair(K, i) ==
        LET acc == K.r
            V == getslot(K, s, ins.b + i)
            C == Raw(Require(V, isstrnum(V, acc) /\ isstrnum(V, V.r), "NYIBC"), IRIns("CARG", "nil", acc, V.r, NONE))
            R == Raw(C, IRIns("CALLL", "str", C.r, NONE, "CAT"))
            G == rec_gcstep(R)
        IN  On(G, [G EXCEPT !.r = R.r])
  IN  FoldLeft(Pair, getslot(J, s, ins.b), [i \in 1 .. (ins.c - ins.b) |-> i])

\* s = s .. x in a loop that does nothing else with s: the text grows in a
\* buffer, and s stands for it.
rec_cat(J, s, pc, ins) ==
  LET J1 == getslot(J, s, ins.b)
      J2 == getslot(J1, s, ins.c)
      buffer == /\ ins.c = ins.b + 1 /\ ins.a # ins.b /\ J.catslot = NoSlot
                /\ cat_slot_clean(J, ins.a, pc)
      alias == base_ref(J, ins.a) # NONE /\ base_ref(J, ins.a) = J1.r /\ J1.r # J2.r
      text == isstrnum(J2, J1.r) /\ isstrnum(J2, J2.r)
      J3 == Raw(J2, IRIns("BUFHDR", "str", J1.r, NONE, NONE))
      J4 == rec_gcstep(Raw(J3, IRIns("BUFPUT", "str", J3.r, J2.r, NONE)))
  IN  CASE buffer /\ alias /\ text -> On(J4, [J4 EXCEPT !.catslot = ins.a, !.r = J3.r])
        [] buffer -> CatPairs(J2, s, ins)
        [] OTHER -> CatPairs(J, s, ins)

---------------------------------------------------------------------------
(* One instruction.  o holds its operands: references a, b and c of the    *)
(* registers and constants it reads, and the values av and cv.             *)

Operands(J, s, ins) ==
  LET A == IF ins.op \in VarA THEN getslot(J, s, ins.a) ELSE J
      B == IF ins.op \in VarB THEN getslot(A, s, ins.b) ELSE A
      cv == CASE ins.op \in VarC -> reg(s, ins.c)
              [] ins.op \in VarD -> reg(s, ins.d)
              [] ins.op \in {"ISEQK", "ISNEK", "KSTR", "KNUM", "KPRI", "USETK"} -> ins.d
              [] ins.op \in {"ARITHVN", "ARITHNV", "TGETS", "TSETS"} -> ins.c
              [] ins.op \in {"TGETB", "TSETB"} -> Num(ins.c)
              [] ins.op \in {"GGET", "GSET"} -> Str(ins.d)
              [] OTHER -> Nil
      C == CASE ins.op \in VarC -> getslot(B, s, ins.c)
             [] ins.op \in VarD -> getslot(B, s, ins.d)
             [] OTHER -> constify(B, cv)
  IN  [J |-> C, a |-> A.r, b |-> B.r, c |-> C.r, av |-> IF ins.op \in VarA THEN reg(s, ins.a) ELSE Nil, cv |-> cv]

Negated == ("LT" :> "UGE") @@ ("UGE" :> "LT") @@ ("LE" :> "UGT") @@ ("UGT" :> "LE")
IrComp == ("ISLT" :> "LT") @@ ("ISGE" :> "UGE") @@ ("ISLE" :> "LE") @@ ("ISGT" :> "UGT")
\* Strings are not ordered here.
RecCompare(o, pc, op) ==
  LET holds == fold_numcmp(o.av, o.cv, IrComp[op])
      irop == IF holds THEN IrComp[op] ELSE Negated[IrComp[op]]
      num == type(o.J, o.a) = "num" /\ type(o.J, o.c) = "num"
  IN  CASE ~num -> Fail(o.J, "NYIBC")
        [] irref_isk(o.a) /\ irref_isk(o.c) -> o.J
        [] OTHER -> comp_fixup(Guard(comp_prep(o.J), irop, "num", o.a, o.c), pc, ~holds)

RecEqual(o, s, pc, op) ==
  LET ne == op \in {"ISNEV", "ISNEK"}
      diff == o.av # o.cv
      num == type(o.J, o.a) = "num" /\ type(o.J, o.c) = "num"
      K == comp_prep(o.J)
      L == objcmp(K, s, o.a, o.c, o.av, o.cv)
  IN  CASE irref_isk(o.a) /\ irref_isk(o.c) /\ type(o.J, o.a) # "tab" -> o.J
        [] num -> comp_fixup(Guard(K, IF diff THEN "NE" ELSE "EQ", "num", o.a, o.c), pc, ne # diff)
        [] OTHER -> IF L.err = "" /\ L.r = 1 /\ type(L, o.a) = "tab" THEN Fail(L, "NYIBC")
                    ELSE comp_fixup(L, pc, ne = (L.r = 0))

RecTest(o, pc, ins) ==
  LET copies == ins.op \in {"ISTC", "ISFC"} /\ Truthy(o.cv) = (ins.op = "ISTC")
      K == IF copies THEN set_base(o.J, ins.a, o.c) ELSE o.J
  IN  shrink(K, o.J.code[o.J.pt].bc[pc + 2].a)

rec_len_mm(J, s, a, v, tab) ==
  LET mo == meta_lookup(s, v, "__len")
      K == GuardMM(J, tab, metatable_of(s, v), "__len", mo)
  IN  IF is_func(mo) THEN inline_mm_call(K, s, a, mo, <<tab>>, <<v>>) ELSE Fail(J, "NYIBC")
RecLen(o, s, a) ==
  CASE type(o.J, o.c) = "str" -> Raw(o.J, IRIns("CALLL", "num", o.c, NONE, "STR_LEN"))
    [] type(o.J, o.c) = "tab" /\ meta_lookup(s, o.cv, "__len") # Nil -> rec_len_mm(o.J, s, a, o.cv, o.c)
    [] type(o.J, o.c) = "tab" -> Raw(o.J, IRIns("CALLL", "num", o.c, NONE, "TAB_LEN"))
    [] OTHER -> Fail(o.J, "NYIBC")

RecUnm(o) ==
  LET K == KNum(o.J, Num(0))
  IN  IF type(o.J, o.c) # "num" THEN Fail(o.J, "NYIBC") ELSE Emit(K, IRIns("NEG", "num", o.c, K.r, NONE))

RecKnil(J, ins) ==
  LET K == Require(J, ins.d < MAX_JSLOTS - J.baseslot, "STACKOV")
      nils == [i \in (J.baseslot + ins.a) .. (J.baseslot + ins.d) |-> REF_NIL]
  IN  grow(On(K, [K EXCEPT !.slot = nils @@ @]), ins.d + 1)

ArithIr == ("+" :> "ADD") @@ ("-" :> "SUB") @@ ("*" :> "MUL") @@ ("%" :> "MOD") @@ ("^" :> "POW")
BitIr == [x \in BitOps |-> CHOOSE n \in DOMAIN BitName : BitName[n] = x]
RecArith(o, ins) ==
  CASE ins.op \in {"ARITHVV", "ARITHVN"} -> arith(o.J, o.b, o.c, ArithIr[ins.d])
    [] ins.op = "ARITHNV" -> arith(o.J, o.c, o.b, ArithIr[ins.d])
    [] ins.op = "BITVV" -> rec_bitop(o.J, BitIr[ins.d], o.b, o.c)
    [] ins.op = "BNOT" -> rec_bitop(o.J, "BNOT", o.c, NONE)

\* The reasons for which an inner loop was given up before.
PenaltyLeft == 2
innerloopleft(js, p, pc) ==
  /\ <<p, pc>> \in DOMAIN js.penalty
  /\ js.penalty[<<p, pc>>].reason \in {"LLEAVE", "LINNER"} /\ js.penalty[<<p, pc>>].times >= PenaltyLeft

LoopOps == {"FORL", "LOOP", "ITERL", "JFORL", "JLOOP", "JITERL", "FORI", "JFORI", "IFORL", "ILOOP", "IITERL"}
RecLoop(J, s, js, pc, ins) ==
  LET left == innerloopleft(js, J.pt, pc)
      lnk == ins.d
      known == lnk \in DOMAIN js.trace
      start == js.trace[lnk].startins
      forl == rec_for(J, s, pc + ins.d, TRUE)
      fori == rec_for(J, s, pc, FALSE)
      jforl == rec_for(J, s, pc + start.d, TRUE)
      iterl == rec_iterl(J, s, pc, ins)
      jiterl == rec_iterl(J, s, pc, start)
      loop == rec_loop(J, ins.a)
      Interp(e) == loop_interp(e.J, pc, e.ev, left)
      Jit(e) == IF known THEN loop_jit(e.J, lnk, e.ev) ELSE Fail(J, "NYIBC")
  IN  CASE ins.op = "FORL" -> Interp(forl)
        [] ins.op = "LOOP" -> Interp(loop)
        [] ins.op = "ITERL" -> Interp(iterl)
        [] ins.op = "JFORL" -> Jit(jforl)
        [] ins.op = "JLOOP" -> Jit(loop)
        [] ins.op = "JITERL" -> Jit(jiterl)
        [] ins.op = "FORI" -> fori.J
        [] ins.op = "JFORI" -> IF fori.ev = "Leave" THEN fori.J
                               ELSE On(fori.J, [fori.J EXCEPT !.link = <<"Root", J.code[J.pt].bc[pc + ins.d + 1].d>>])
        [] OTHER -> Fail(J, "BLACKL")

\* The varargs are read from where the interpreter keeps them.
RecVarg(J, s, ins) ==
  LET link == at(s, s.base - 1)
      np == J.code[J.pt].numparams
      n == IF link[2] - 2 > np THEN link[2] - 2 - np ELSE 0
      J1 == KPtr(J, link)
      J2 == Raw(J1, IRIns("CARG", "nil", NONE, J1.r, NONE))
      Arg(K, i) ==
        LET v == at(s, s.base - link[2] + np + i - 1)
            K1 == KPtr(K, <<"packed", np, i>>)
            K2 == Raw(K1, IRIns("CARG", "nil", J2.r, K1.r, NONE))
            K3 == RawGuard(K2, "CALLL", value_irt(v), K2.r, NONE, "VARG")
        IN  IF i <= n THEN set_last(K3, ins.a + i - 1) ELSE set_base(K, ins.a + i - 1, REF_NIL)
      K == FoldLeft(Arg, J2, [i \in 1 .. (ins.b - 1) |-> i])
  IN  IF link[1] # "varg" \/ ins.b = 0 THEN Fail(J, "NYIBC") ELSE grow(K, ins.a + ins.b - 1)

RecAlloc(J, ins) ==
  LET J1 == Use(J, InternK(J.b, "KINT64", "u64", <<"template", ins.d>>))
      J2 == IF ins.op = "TNEW" THEN Raw(J, IRIns("TNEW", "tab", NONE, NONE, NONE))
            ELSE Raw(J1, IRIns("TDUP", "tab", J1.r, NONE, NONE))
      K == rec_gcstep(J2)
  IN  On(K, [K EXCEPT !.r = J2.r])

RecTable(o, s, ins) ==
  LET tabv == reg(s, ins.b)
      G == Table(GLOBALS)
      J1 == specialize_curfn(o.J, s)
      J2 == KGc(J1, G)
      J3 == IF ins.op = "GSET" THEN getslot(J2, s, ins.a) ELSE J2
  IN  CASE ins.op \in {"TGETV", "TGETS", "TGETB"} -> rec_tget(o.J, s, ins.a, tabv, o.b, o.cv, o.c, TRUE)
        [] ins.op \in {"TSETV", "TSETS", "TSETB"} -> rec_tset(o.J, s, ins.a, tabv, o.b, o.cv, o.c, o.a, TRUE)
        [] ins.op = "GGET" -> rec_tget(J2, s, 0, G, J2.r, o.cv, o.c, FALSE)
        [] ins.op = "GSET" -> rec_tset(J3, s, ins.a, G, J2.r, o.cv, o.c, J3.r, TRUE)

Silent(J) == On(J, [J EXCEPT !.r = NONE])
RecOp(o, s, js, pc, ins) ==
  LET op == ins.op
      J == o.J
      At(r) == On(J, [J EXCEPT !.r = r])
  IN  CASE op \in DOMAIN IrComp -> Silent(RecCompare(o, pc, op))
        [] op \in {"ISEQV", "ISNEV", "ISEQK", "ISNEK"} -> Silent(RecEqual(o, s, pc, op))
        [] op \in {"ISTC", "ISFC", "IST", "ISF"} -> Silent(RecTest(o, pc, ins))
        [] op \in {"MOV", "KSTR", "KNUM", "KPRI"} -> At(o.c)
        [] op = "NOT" -> At(IF Truthy(o.cv) THEN REF_FALSE ELSE REF_TRUE)
        [] op = "UNM" -> RecUnm(o)
        [] op = "LEN" -> RecLen(o, s, ins.a)
        [] op = "KNIL" -> Silent(RecKnil(J, ins))
        [] op \in {"ARITHVV", "ARITHVN", "ARITHNV", "BITVV", "BNOT"} -> RecArith(o, ins)
        [] op \in {"JMP", "ISNEXT"} -> Silent(shrink(J, ins.a))
        [] op \in LoopOps -> Silent(RecLoop(J, s, js, pc, ins))
        [] op \in {"ITERC", "ITERN"} -> Silent(rec_iterc(J, s, pc, ins))
        [] op = "UGET" -> rec_uget(J, s, ins.d)
        [] op \in {"USETV", "USETK"} -> Silent(rec_uset(J, s, ins.a, o.c))
        [] op = "VARG" -> Silent(RecVarg(J, s, ins))
        [] op \in {"TNEW", "TDUP"} -> RecAlloc(J, ins)
        [] op \in {"TGETV", "TGETS", "TGETB", "GGET"} -> RecTable(o, s, ins)
        [] op \in {"TSETV", "TSETS", "TSETB", "GSET"} -> Silent(RecTable(o, s, ins))
        [] op = "CALL" -> Silent(rec_call(J, s, pc, ins))
        [] op = "CALLT" -> Silent(rec_callt(J, s, ins))
        [] op \in {"RET0", "RET1", "RET"} -> Silent(rec_ret(J, s, ins.a, ins.d - 1))
        [] op = "CAT" -> rec_cat(J, s, pc, ins)
        [] OTHER -> Fail(J, "NYIBC")

\* The result of an instruction that has one goes to its slot.
StoreResult(J, ins) ==
  LET gap == IF ins.a > J.maxslot THEN set_base(J, J.maxslot, NONE) ELSE J
  IN  IF ins.op \in ModeDst /\ J.r # NONE THEN grow(set_base(gap, ins.a, J.r), ins.a + 1) ELSE J

\* Record the instruction the interpreter is about to execute.
record_ins(J0, s, js) ==
  LET pc == s.pc
      J1 == [J0 EXCEPT !.pc = pc, !.code = s.code]
      J2 == IF J0.needsnap THEN [snap_add([J1 EXCEPT !.needsnap = FALSE]) EXCEPT !.mergesnap = TRUE] ELSE J1
      inside == framedepth(J0) # 0 \/ pc \in J0.bcmin .. (J0.bcmin + J0.bcext - 1)
      ins == s.code[J0.pt].bc[pc + 1]
      J3 == RecOp(Operands(J2, s, ins), s, js, pc, ins)
      J4 == StoreResult(J3, ins)
  IN  CASE ~inside -> Fail(J2, "LLEAVE")
        [] J3.err # "" \/ J3.link # <<>> -> J3
        [] OTHER -> Require(J4, nins(J4.b) <= 1 + MaxRecord, "TRACEOV")
---------------------------------------------------------------------------
(* The first and the last step of a recording. *)

Fits(J, p) == Require(J, 1 + J.code[p].framesize < MAX_JSLOTS, "STACKOV")

\* rec_setup_root: the range of the loop at pc, and what the first snapshot
\* covers.
SetupLoop(J, s, ins, bc) ==
  LET pc == J.pc
      body == [J EXCEPT !.bcext = -ins.d, !.bcmin = pc + 1 + ins.d, !.pc = pc + 1 + ins.d]
      prev == bc[pc]
      back == bc[pc + ins.d + 1]
      ranged == ins.d >= 0 /\ pc + ins.d < Len(bc) /\ back.op = "JMP" /\ back.d < 0
      loop == IF ranged THEN [J EXCEPT !.bcmin = pc + ins.d + 1 + back.d, !.bcext = -back.d] ELSE J
  IN  CASE ins.op = "FORL" -> LET K == snap_add(body) IN for_loop(K, s, K.pc - 1, TRUE)
        [] ins.op = "ITERL" -> IF prev.op \notin {"ITERC", "ITERN"} THEN Fail(J, IF prev.op = "JLOOP" THEN "LINNER" ELSE "NYIBC")
                               ELSE snap_add([body EXCEPT !.maxslot = ins.a + prev.b - 1])
        [] ins.op = "LOOP" -> snap_add([loop EXCEPT !.maxslot = ins.a, !.pc = pc + 1])
setup_root(traceno, s, p, pc) ==
  LET bc == s.code[p].bc
  IN  Fits(SetupLoop(new(s.code, traceno, p, pc, 0, 0), s, bc[pc + 1], bc), p)

\* A side trace starts from a snapshot of its parent t; only the first one
\* is where a loop may close.
setup_side(traceno, s, t, parent, exitno) ==
  LET J0 == new(s.code, traceno, t.startpt, t.snap[exitno].pc, parent, exitno - 1)
      J1 == IF exitno = 1 THEN J0 ELSE [J0 EXCEPT !.startpc = NoPc]
  IN  Fits(snap_replay(J1, s, t, exitno - 1), t.startpt)

\* The last snapshot.
last_snapshot(J) ==
  [snap_add([J EXCEPT !.err = "", !.needsnap = FALSE, !.mergesnap = TRUE, !.link = <<>>]) EXCEPT !.mergesnap = TRUE]

\* The passes over a trace that loops onto itself, and those over every
\* finished trace.
loop_passes(J) == LET t == opt_sink(opt_dce(J)) IN opt_loop([t EXCEPT !.b = opt_narrow(@)])
final_passes(t) == opt_sink([t EXCEPT !.b = opt_narrow(@)])
=============================================================================
