----------------------------- MODULE TraceExec ------------------------------
(***************************************************************************)
(* The executor of compiled traces (jit/exec.rs, the portable tier): the   *)
(* IR is interpreted over an environment of values, loads and stores act   *)
(* on the stack, the tables and the upvalues of the interpreter, and the   *)
(* guard that fails restores the stack from its snapshot.                  *)
(*                                                                         *)
(* An execution x is a record: the interpreter state s, the trace tr, its  *)
(* number no, the frame base cbase, the environment env, the concatenation *)
(* buffer buf, whether a collection is due (gc), and how the pass ended    *)
(* (k: "run", "exit" or "gc") through which snapshot (exitno, from 1).     *)
(***************************************************************************)
EXTENDS Recorder

\* What stands for the text in the buffer.
BUF_MARK == <<"buf mark">>

val(x, r) == IF r > 0 THEN x.env[r] ELSE x.tr.b.k[-r].lit
typecheck(v, t) == IF t \in {"num", "int"} THEN v[1] \in {"num", "rat"} ELSE value_irt(v) = t

\* A guard exits through the last snapshot taken before it.
SnapBefore(tr, r) == Max({1} \cup {i \in DOMAIN tr.snap : tr.snap[i].iref <= r})
Leave(x, r, how) == [x EXCEPT !.k = how, !.exitno = SnapBefore(x.tr, r)]
Put(x, r, v) == [x EXCEPT !.env[r] = v]
\* The value is kept also when its type is not the recorded one.
Checked(x, r, v) ==
  LET ins == x.tr.b.ins[r]
      y == Put(x, r, v)
  IN  IF ins.g /\ ~typecheck(v, ins.t) THEN Leave(y, r, "exit") ELSE y
HoldsOr(x, r, cond) == IF cond THEN x ELSE Leave(x, r, "exit")

ReadPtr(s, p) == IF p[1] = "slot" THEN at(s, p[2]) ELSE s.uv[p[2]].val
WritePtr(s, p, v) == IF p[1] = "slot" THEN set_at(s, p[2], v) ELSE [s EXCEPT !.uv[p[2]].val = v]

jit_varg(x, link, packed) ==
  LET own == at(x.s, x.cbase - 1)
      callee == own[1] = "varg"
      delta == IF callee THEN own[2] ELSE link[2]
      n == IF delta - 2 > packed[2] THEN delta - 2 - packed[2] ELSE 0
      i == packed[2] + packed[3] - 1
  IN  IF packed[3] > n THEN Nil ELSE at(x.s, IF callee THEN x.cbase - delta + i ELSE x.cbase + i)

---------------------------------------------------------------------------
(* One group of instructions each.  a and b are the operands' values.      *)

LoadIns(x, r, ins, a, b) ==
  LET mt == x.s.tabs[a[2]].mt
      inarr == IsNum(b) /\ b[2] \in 0 .. (x.s.tabs[a[2]].asize - 1)
  IN  CASE ins.op = "SLOAD" -> Checked(x, r, at(x.s, x.cbase + ins.lit.slot - 2))
        [] ins.op = "ULOAD" -> Checked(x, r, ReadPtr(x.s, a))
        [] ins.op = "FLOAD" -> IF ins.t = "tab" THEN Checked(x, r, IF mt = 0 THEN Nil ELSE Table(mt)) ELSE HoldsOr(x, r, mt = 0)
        [] ins.op = "HLOAD" -> Checked(x, r, tget(x.s, a[2], b))
        [] ins.op = "ALOAD" -> IF inarr THEN Checked(x, r, tget(x.s, a[2], b)) ELSE Leave(x, r, "exit")

\* A store into the array part exits when the key is not in it.
StoreIns(x, r, ins, a, key, v) ==
  LET set == [x EXCEPT !.s = tset(@, a[2], key, v)]
      inarr == IsNum(key) /\ key[2] \in 1 .. (x.s.tabs[a[2]].asize - 1)
  IN  CASE ins.op = "HSTORE" -> set
        [] ins.op = "ASTORE" -> IF inarr THEN set ELSE Leave(x, r, "exit")
        [] ins.op = "FSTORE" -> [x EXCEPT !.s.tabs[a[2]].mt = IF ins.op2 = NONE THEN 0 ELSE val(x, ins.op2)[2]]

NewIns(x, r, ins) ==
  LET template == IF ins.op = "TDUP" THEN val(x, ins.op1)[2] ELSE <<>>
  IN  Put([x EXCEPT !.s = alloc_table(@, TableOf(template), ArraySize(template))], r, Table(Len(x.s.tabs) + 1))

BufIns(x, r, ins, a, b) ==
  CASE ins.op = "BUFHDR" -> IF a = BUF_MARK THEN Put(x, r, BUF_MARK)
                            ELSE IF concat_ok(a) THEN Put([x EXCEPT !.buf = Text(a)], r, BUF_MARK) ELSE Leave(x, r, "exit")
    [] ins.op = "BUFPUT" -> IF concat_ok(b) THEN Put([x EXCEPT !.buf = @ \o Text(b)], r, BUF_MARK) ELSE Leave(x, r, "exit")

CallIns(x, r, ins, a) ==
  LET carg == x.tr.b.ins[ins.op1]
      c1 == val(x, carg.op1)
      c2 == val(x, carg.op2)
      first == x.tr.b.ins[carg.op1]
  IN  CASE ins.lit = "TAB_LEN" -> Checked(x, r, Num(tlen(x.s, a[2])))
        [] ins.lit = "STR_LEN" -> Checked(x, r, Num(Len(a[2])))
        [] ins.lit = "TAB_NEXTK" -> Checked(x, r, lib_next(x.s, <<c1, c2>>)[1])
        [] ins.lit = "CAT" -> Checked(x, r, Str(Text(c1) \o Text(c2)))
        [] ins.lit = "USET" -> Put([x EXCEPT !.s = WritePtr(@, c1, c2)], r, c2)
        [] ins.lit = "VARG" -> Checked(x, r, jit_varg(x, val(x, first.op2), c2))

ArithIns(x, r, ins, a, b) ==
  Put(x, r, CASE ins.op = "BNOT" -> Num(BitNot(P(a)))
              [] ins.op \in DOMAIN BitName -> kfold_intop(a, b, ins.op)
              [] ins.op = "FPMATH" -> Floor(a)
              [] ins.op \in {"NEG", "ABS"} -> fold_numarith(a, a, ins.op)
              [] OTHER -> IF ins.t = "int" THEN kfold_intop(a, b, ins.op) ELSE fold_numarith(a, b, ins.op))

CompIns(x, r, ins, a, b) ==
  HoldsOr(x, r, CASE ins.op = "EQ" -> a = b [] ins.op = "NE" -> a # b [] OTHER -> fold_numcmp(a, b, ins.op))

ExecIns(x, r) ==
  LET ins == x.tr.b.ins[r]
      a == val(x, ins.op1)
      b == val(x, ins.op2)
      carg == x.tr.b.ins[ins.op2]
  IN  CASE x.k # "run" \/ ins.op \in {"NOP", "LOOP", "PHI", "CARG"} -> x
        [] ins.op \in {"SLOAD", "ULOAD", "FLOAD", "HLOAD", "ALOAD"} -> LoadIns(x, r, ins, a, b)
        [] ins.op \in {"HSTORE", "ASTORE"} -> StoreIns(x, r, ins, a, val(x, carg.op1), val(x, carg.op2))
        [] ins.op = "FSTORE" -> StoreIns(x, r, ins, a, Nil, Nil)
        [] ins.op \in {"TNEW", "TDUP"} -> NewIns(x, r, ins)
        [] ins.op \in {"BUFHDR", "BUFPUT"} -> BufIns(x, r, ins, a, b)
        [] ins.op = "GCSTEP" -> IF x.gc THEN Leave(x, r, "gc") ELSE x
        [] ins.op = "CALLL" -> CallIns(x, r, ins, a)
        [] ins.op \in DOMAIN Mirror -> CompIns(x, r, ins, a, b)
        [] OTHER -> ArithIns(x, r, ins, a, b)

---------------------------------------------------------------------------
(* Snapshots and the loop edge. *)

\* The text in the buffer becomes a string where its marker is restored.
restore_snapshot(x, i) ==
  LET snap == x.tr.snap[i]
      Slot(y, n) ==
        LET v == val(y, snap.ents[n].r)
        IN  CASE snap.ents[n].keep -> y
              [] v = BUF_MARK -> [y EXCEPT !.s = set_at(@, x.cbase + n - 2, Str(y.buf)), !.buf = ""]
              [] OTHER -> [y EXCEPT !.s = set_at(@, x.cbase + n - 2, v)]
  IN  FoldLeft(Slot, x, SetToSortSeq(DOMAIN snap.ents, <))
exit_snapshot(x) == restore_snapshot(x, x.exitno)

looping(tr, no) == tr.linktype = "Loop" /\ tr.link = no
LoopRef(tr) == LET L == {i \in DOMAIN tr.b.ins : tr.b.ins[i].op = "LOOP"} IN IF L = {} THEN NONE ELSE Max(L)

\* All right operands are read before a left one is written.
Phis(tr) == {i \in DOMAIN tr.b.ins : \A j \in i .. Len(tr.b.ins) : tr.b.ins[j].op = "PHI"}
PhiAssign_OneByOne(x) ==
  FoldLeft(LAMBDA y, p : Put(y, x.tr.b.ins[p].op1, val(y, x.tr.b.ins[p].op2)), x, Reverse(SetToSortSeq(Phis(x.tr), <)))
PhiAssign(x) ==
  FoldLeft(LAMBDA y, p : Put(y, x.tr.b.ins[p].op1, val(x, x.tr.b.ins[p].op2)), x, Reverse(SetToSortSeq(Phis(x.tr), <)))

\* A pass from an instruction to the end of the trace: an exit, or the next
\* pass of a loop and where it starts.
run_ir(x, start) ==
  LET n == Len(x.tr.b.ins)
      y == FoldLeft(ExecIns, x, [i \in 1 .. (n + 1 - start) |-> start + i - 1])
      last == Len(x.tr.snap)
      loop == LoopRef(x.tr)
  IN  CASE y.k # "run" -> [x |-> exit_snapshot(y), start |-> 0]
        [] looping(x.tr, x.no) /\ loop # NONE -> [x |-> PhiAssign(y), start |-> loop + 1]
        [] looping(x.tr, x.no) -> [x |-> restore_snapshot(y, last), start |-> 1]
        [] OTHER -> [x |-> exit_snapshot([y EXCEPT !.k = "exit", !.exitno = last]), start |-> 0]
=============================================================================
