------------------------------- MODULE Emitter -------------------------------
(***************************************************************************)
(* The code emitter of the compiler (compiler/parse.rs): jump lists,       *)
(* register allocation, and the discharge of expression descriptors.  A    *)
(* value f is the state of the function being compiled (FuncState); an     *)
(* operator takes f to the f that the method of the same name leaves.      *)
(* Where a method also changes its expression descriptor, the operator     *)
(* returns both, as [f |-> ..., e |-> ...].  Positions count from 0, the   *)
(* sequence bc from 1.  Source lines and the limits of the operand fields  *)
(* are left out.                                                           *)
(***************************************************************************)
EXTENDS Bytecode, FiniteSets, FiniteSetsExt, SequencesExt

\* FuncState::new
FuncState(vbase) ==
  [bc |-> <<>>, lasttarget |-> 0, jpc |-> NO_JMP, freereg |-> 0, nactvar |-> 0,
   vbase |-> vbase, flags |-> {}, numparams |-> 0, framesize |-> 1,
   uvmap |-> <<>>, uvtmp |-> <<>>, scopes |-> <<>>, varmap |-> <<>>, kgc |-> <<>>]

\* ExpDesc::init and the tests on a descriptor.
Exp(k, info) ==
  [k |-> k, info |-> info, aux |-> 0, val |-> Nil, t |-> NO_JMP, f |-> NO_JMP]
Const(k, v) == [Exp(k, 0) EXCEPT !.val = v]
hasjump(e) == e.t # e.f
isk(e) == e.k \in {"KNil", "KFalse", "KTrue", "KStr", "KNum"}
isk_nojump(e) == isk(e) /\ ~hasjump(e)
isnumk_nojump(e) == e.k = "KNum" /\ ~hasjump(e)

Pc(f) == Len(f.bc)
Ins(f, pc) == f.bc[pc + 1]
SetIns(f, pc, ins) == [f EXCEPT !.bc[pc + 1] = ins]
SetA(f, pc, a) == [f EXCEPT !.bc[pc + 1].a = a]

---------------------------------------------------------------------------
(* Jump lists: the unpatched jumps of a list are chained through their own *)
(* distance operand.                                                       *)

jmp_next(f, pc) ==
  LET delta == Ins(f, pc).d IN IF delta = -1 THEN NO_JMP ELSE pc + 1 + delta

\* The positions on a list, in order.
RECURSIVE JmpList(_, _)
JmpList(f, list) ==
  IF list = NO_JMP THEN <<>> ELSE <<list>> \o JmpList(f, jmp_next(f, list))

\* The instruction before a jump that decides it.
TestPc(pc) == IF pc >= 1 THEN pc - 1 ELSE pc
\* The test can deliver its operand to a register.
HasValue(ins) == ins.op \in {"ISTC", "ISFC"} \/ ins.a = NO_REG

\* Some jump of the list carries no value.
jmp_novalue(f, list) ==
  \E i \in Range(JmpList(f, list)) : ~HasValue(Ins(f, TestPc(i)))

jmp_patchtestreg(f, pc, reg) ==
  LET i == TestPc(pc)
      ins == Ins(f, i)
  IN  CASE ins.op \in {"ISTC", "ISFC"} /\ reg # NO_REG /\ reg # ins.d -> SetA(f, i, reg)
        [] ins.op \in {"ISTC", "ISFC"} ->
             SetIns(f, i, AD(IF ins.op = "ISTC" THEN "IST" ELSE "ISF", 0, ins.d))
        [] ins.a = NO_REG /\ reg = NO_REG -> SetIns(f, i, AD("JMP", Ins(f, pc).a, 0))
        [] ins.a = NO_REG ->
             IF reg >= Ins(f, i + 1).a
             THEN SetA(SetA(f, i, reg), i + 1, reg + 1) ELSE SetA(f, i, reg)
        [] OTHER -> f

jmp_dropval(f, list) ==
  FoldLeft(LAMBDA g, pc : jmp_patchtestreg(g, pc, NO_REG), f, JmpList(f, list))

jmp_patchins(f, pc, dest) == [f EXCEPT !.bc[pc + 1].d = dest - (pc + 1)]

\* Append list l2 to list l1; the result is [f, l].
jmp_append(f, l1, l2) ==
  IF l2 = NO_JMP THEN [f |-> f, l |-> l1]
  ELSE IF l1 = NO_JMP THEN [f |-> f, l |-> l2]
  ELSE [f |-> jmp_patchins(f, Last(JmpList(f, l1)), l2), l |-> l1]

\* Jumps that carry a value go to vtarget with the value in reg, the others
\* to dtarget.
jmp_patchval(f, list, vtarget, reg, dtarget) ==
  FoldLeft(LAMBDA g, pc :
             jmp_patchins(jmp_patchtestreg(g, pc, reg), pc,
                          IF HasValue(Ins(g, TestPc(pc))) THEN vtarget ELSE dtarget),
           f, JmpList(f, list))

jmp_tohere(f, list) ==
  LET r == jmp_append([f EXCEPT !.lasttarget = Pc(f)], f.jpc, list)
  IN  [r.f EXCEPT !.jpc = r.l]

jmp_patch(f, list, target) ==
  IF target = Pc(f) THEN jmp_tohere(f, list)
  ELSE jmp_patchval(f, list, target, NO_REG, target)

---------------------------------------------------------------------------
(* Registers and emission. *)

bcreg_bump_Short(f, n) ==
  IF f.freereg + n > f.framesize THEN [f EXCEPT !.framesize = f.freereg + n - 1] ELSE f
bcreg_bump(f, n) ==
  IF f.freereg + n > f.framesize THEN [f EXCEPT !.framesize = f.freereg + n] ELSE f

\* The scopes keep the highest register reached while they were open.
bcreg_reserve(f, n) ==
  LET g == bcreg_bump(f, n)
      top == f.freereg + n
      Outer == {i \in DOMAIN f.scopes : f.scopes[i].max >= top}
      from == IF Outer = {} THEN 1 ELSE Max(Outer) + 1
  IN  [g EXCEPT !.freereg = top,
         !.scopes = SubSeq(@, 1, from - 1) \o
                    [i \in 1 .. (Len(@) - from + 1) |-> [@[from + i - 1] EXCEPT !.max = top]]]

bcreg_free(f, reg) ==
  IF reg >= f.nactvar /\ reg = f.freereg - 1 THEN [f EXCEPT !.freereg = @ - 1] ELSE f

expr_free(f, e) == IF e.k = "NonReloc" THEN bcreg_free(f, e.info) ELSE f

\* Emission patches the pending jumps to the new instruction first.
bcemit(f, ins) ==
  [jmp_patchval(f, f.jpc, Pc(f), NO_REG, Pc(f)) EXCEPT
     !.jpc = NO_JMP, !.bc = Append(@, ins)]

\* A jump to be patched; it takes over the pending jumps, and an UCLO right
\* before it becomes the jump.  Returns [f, l].
bcemit_jmp(f) ==
  LET j == Pc(f) - 1
      g == [f EXCEPT !.jpc = NO_JMP]
      merge == j >= f.lasttarget /\ Ins(f, j).op = "UCLO"
      h == IF merge THEN [[g EXCEPT !.bc[j + 1].d = -1] EXCEPT !.lasttarget = j + 1]
                    ELSE bcemit(g, AD("JMP", f.freereg, -1))
  IN  jmp_append(h, IF merge THEN j ELSE j + 1, f.jpc)

bcemit_nil(f, from, n) ==
  LET pc == Pc(f)
      ip == Ins(f, pc - 1)
      Fresh == bcemit(f, IF n = 1 THEN AD("KPRI", from, Nil) ELSE AD("KNIL", from, from + n - 1))
  IN  CASE pc > f.lasttarget /\ ip.op = "KPRI" /\ ip.d = Nil /\ from = ip.a ->
             IF n = 1 THEN f ELSE SetIns(f, pc - 1, AD("KNIL", from, from + n - 1))
        [] pc > f.lasttarget /\ ip.op = "KPRI" /\ ip.d = Nil /\ from = ip.a + 1 ->
             SetIns(f, pc - 1, AD("KNIL", ip.a, ip.a + n))
        [] pc > f.lasttarget /\ ip.op = "KNIL" /\ ip.a <= from /\ from <= ip.d + 1 ->
             IF from + n - 1 > ip.d THEN [f EXCEPT !.bc[pc].d = from + n - 1] ELSE f
        [] OTHER -> Fresh

---------------------------------------------------------------------------
(* Discharging an expression: a variable becomes an instruction whose     *)
(* target register is still open, a call a value in its base register.    *)

\* Key operands: a string constant, a small integer, or a register.
IndexIns(op, a, e) ==
  CASE e.aux[1] = "s" -> ABC(op \o "S", a, e.info, e.aux[2])
    [] e.aux[1] = "b" -> ABC(op \o "B", a, e.info, e.aux[2])
    [] e.aux[1] = "r" -> ABC(op \o "V", a, e.info, e.aux[2])

expr_discharge(f, e) ==
  LET Relocable(g, ins) == [f |-> bcemit(g, ins), e |-> [e EXCEPT !.k = "Relocable", !.info = Pc(g)]]
  IN  CASE e.k = "Upval" -> Relocable(f, AD("UGET", 0, e.info))
        [] e.k = "Global" -> Relocable(f, AD("GGET", 0, e.val))
        [] e.k = "Indexed" ->
             Relocable(bcreg_free(IF e.aux[1] = "r" THEN bcreg_free(f, e.aux[2]) ELSE f, e.info),
                       IndexIns("TGET", 0, e))
        [] e.k \in {"Call", "CallNav"} ->
             [f |-> f, e |-> [e EXCEPT !.k = "NonReloc", !.info = e.aux]]
        [] e.k = "Local" -> [f |-> f, e |-> [e EXCEPT !.k = "NonReloc"]]
        [] OTHER -> [f |-> f, e |-> e]

expr_toreg_nobranch(f, e0, reg) ==
  LET r == expr_discharge(f, e0)
      e == r.e
      InReg(g) == [f |-> g, e |-> [e EXCEPT !.k = "NonReloc", !.info = reg]]
  IN  CASE e.k \in {"KStr", "KNum"} ->
             InReg(bcemit(r.f, AD(IF e.k = "KStr" THEN "KSTR" ELSE "KNUM", reg, e.val)))
        [] e.k = "Relocable" -> InReg(SetA(r.f, e.info, reg))
        [] e.k = "NonReloc" -> IF reg = e.info THEN r ELSE InReg(bcemit(r.f, AD("MOV", reg, e.info)))
        [] e.k = "KNil" -> InReg(bcemit_nil(r.f, reg, 1))
        [] e.k \in {"KFalse", "KTrue"} -> InReg(bcemit(r.f, AD("KPRI", reg, e.val)))
        [] OTHER -> r

\* Both outcomes of pending jumps meet here with the value in reg.
expr_toreg(f, e0, reg) ==
  LET r == expr_toreg_nobranch(f, e0, reg)
      ja == IF r.e.k = "Jmp" THEN jmp_append(r.f, r.e.t, r.e.info) ELSE [f |-> r.f, l |-> r.e.t]
      e == [r.e EXCEPT !.t = ja.l]
      loads == jmp_novalue(ja.f, e.t) \/ jmp_novalue(ja.f, e.f)
      jv == IF e.k = "Jmp" THEN [f |-> ja.f, l |-> NO_JMP] ELSE bcemit_jmp(ja.f)
      jfalse == Pc(jv.f)
      f1 == bcemit(jv.f, AD("KPRI", reg, Bool(FALSE)))
      f2 == bcemit(f1, AD("JMP", f1.freereg, 1))
      f3 == jmp_tohere(bcemit(f2, AD("KPRI", reg, Bool(TRUE))), jv.l)
      g == IF loads THEN f3 ELSE ja.f
      jend == Pc(g)
      g1 == jmp_patchval([g EXCEPT !.lasttarget = jend], e.f, jend, reg, IF loads THEN jfalse ELSE NO_JMP)
      g2 == jmp_patchval(g1, e.t, jend, reg, IF loads THEN jfalse + 2 ELSE NO_JMP)
  IN  [f |-> IF hasjump(e) THEN g2 ELSE ja.f,
       e |-> [e EXCEPT !.k = "NonReloc", !.info = reg, !.t = NO_JMP, !.f = NO_JMP]]

expr_tonextreg(f, e) ==
  LET r == expr_discharge(f, e)
      g == bcreg_reserve(expr_free(r.f, r.e), 1)
  IN  expr_toreg(g, r.e, g.freereg - 1)

expr_toanyreg(f, e) ==
  LET r == expr_discharge(f, e)
  IN  CASE r.e.k = "NonReloc" /\ ~hasjump(r.e) -> r
        [] r.e.k = "NonReloc" /\ hasjump(r.e) /\ r.e.info >= r.f.nactvar -> expr_toreg(r.f, r.e, r.e.info)
        [] OTHER -> expr_tonextreg(r.f, r.e)

expr_toval(f, e) == IF hasjump(e) THEN expr_toanyreg(f, e) ELSE expr_discharge(f, e)

---------------------------------------------------------------------------
(* Branches and operators. *)

\* Store into a local is handled by the caller: this is the instruction.
StoreIns(f, var, e) ==
  CASE var.k = "Upval" ->
         LET r == expr_toval(f, e)
             a == expr_toanyreg(r.f, r.e)
         IN  IF isk(r.e) THEN [f |-> r.f, e |-> r.e, ins |-> AD("USETK", var.info, r.e.val)]
             ELSE [f |-> a.f, e |-> a.e, ins |-> AD("USETV", var.info, a.e.info)]
    [] var.k = "Global" ->
         LET a == expr_toanyreg(f, e)
         IN  [f |-> a.f, e |-> a.e, ins |-> AD("GSET", a.e.info, var.val)]
    [] var.k = "Indexed" ->
         LET a == expr_toanyreg(f, e)
         IN  [f |-> a.f, e |-> a.e, ins |-> IndexIns("TSET", a.e.info, var)]

\* The emitted code of bcemit_store; that the variable was written is noted
\* by the caller, which owns the variable stack.
bcemit_store(f, var, e) ==
  IF var.k = "Local" THEN expr_toreg(expr_free(f, e), e, var.info).f
  ELSE LET s == StoreIns(f, var, e) IN expr_free(bcemit(s.f, s.ins), s.e)

\* obj:name: the function in a fresh register, the object as first argument
\* beyond the frame slot.
bcemit_method(f, e, key) ==
  LET o == expr_toanyreg(f, e)
      g == expr_free(o.f, o.e)
      func == g.freereg
      h == bcreg_reserve(bcemit(g, AD("MOV", func + 2, o.e.info)), 3)
  IN  [f |-> bcemit(h, ABC("TGETS", func, o.e.info, Str(key))),
       e |-> [o.e EXCEPT !.k = "NonReloc", !.info = func]]

invertcond(f, e) == [f EXCEPT !.bc[e.info].op = Opposite[@]]

\* Jump if e is cond; returns [f, e, l].
bcemit_branch(f, e, cond) ==
  IF e.k = "Relocable" /\ Ins(f, e.info).op = "NOT"
  THEN LET j == bcemit_jmp(SetIns(f, e.info, AD(IF cond THEN "ISF" ELSE "IST", 0, Ins(f, e.info).d)))
       IN  [f |-> j.f, e |-> e, l |-> j.l]
  ELSE LET g == bcreg_reserve(f, 1)
           r == IF e.k = "NonReloc" THEN [f |-> f, e |-> e] ELSE expr_toreg_nobranch(g, e, g.freereg - 1)
           j == bcemit_jmp(bcemit(r.f, AD(IF cond THEN "ISTC" ELSE "ISFC", NO_REG, r.e.info)))
       IN  [f |-> expr_free(j.f, r.e), e |-> r.e, l |-> j.l]

\* Fall through if e is true (bcemit_branch_t) or false (bcemit_branch_f):
\* the other outcome is added to the list of jumps.
BranchOut(f, e, truth) ==
  LET always == IF truth THEN {"KStr", "KNum", "KTrue"} ELSE {"KNil", "KFalse"}
      never == IF truth THEN {"KNil", "KFalse"} ELSE {"KStr", "KNum", "KTrue"}
  IN  CASE e.k \in always -> [f |-> f, e |-> e, l |-> NO_JMP]
        [] e.k = "Jmp" -> [f |-> IF truth THEN invertcond(f, e) ELSE f, e |-> e, l |-> e.info]
        [] e.k \in never ->
             LET r == expr_toreg_nobranch(f, e, NO_REG)
                 j == bcemit_jmp(r.f)
             IN  [f |-> j.f, e |-> r.e, l |-> j.l]
        [] OTHER -> bcemit_branch(f, e, ~truth)

bcemit_branch_t(f, e) ==
  LET d == expr_discharge(f, e)
      b == BranchOut(d.f, d.e, TRUE)
      a == jmp_append(b.f, b.e.f, b.l)
  IN  [f |-> jmp_tohere(a.f, b.e.t), e |-> [b.e EXCEPT !.f = a.l, !.t = NO_JMP]]

bcemit_branch_f(f, e) ==
  LET d == expr_discharge(f, e)
      b == BranchOut(d.f, d.e, FALSE)
      a == jmp_append(b.f, b.e.t, b.l)
  IN  [f |-> jmp_tohere(a.f, b.e.f), e |-> [b.e EXCEPT !.t = a.l, !.f = NO_JMP]]

\* Arithmetic on the small integers the numbers are reduced to; a division
\* by zero has no value here.
vm_foldarith(op, x, y) ==
  CASE op = "+" -> x + y [] op = "-" -> x - y [] op = "*" -> x * y [] op = "%" -> x % y
    [] op = "^" -> x ^ y

\* foldarith leaves out results that are not a number or are minus zero.
foldable(op, e1, e2) ==
  /\ isnumk_nojump(e1) /\ isnumk_nojump(e2)
  /\ op = "%" => e2.val[2] > 0
  /\ op = "^" => e2.val[2] >= 0
  /\ ~(op = "*" /\ e1.val[2] * e2.val[2] = 0 /\ (e1.val[2] < 0 \/ e2.val[2] < 0))

FreeTemp(f, e) ==
  IF e.k = "NonReloc" /\ e.info >= f.nactvar THEN [f EXCEPT !.freereg = @ - 1] ELSE f

bcemit_arith(f, op, e1, e2) ==
  LET v2 == expr_toval(f, e2)
      regs == op \in BitOps \cup {"^"}
      kc == ~regs /\ v2.e.k = "KNum"
      c == IF kc THEN v2 ELSE expr_toanyreg(v2.f, v2.e)
      v1 == expr_toval(c.f, e1)
      kb == ~regs /\ v1.e.k = "KNum" /\ ~kc
      b == IF kb THEN v1 ELSE expr_toanyreg(v1.f, v1.e)
      g == FreeTemp(FreeTemp(b.f, b.e), c.e)
      ins == CASE kb -> ABC("ARITHNV", 0, c.e.info, b.e.val)
               [] kc -> ABC("ARITHVN", 0, b.e.info, c.e.val)
               [] op \in BitOps -> ABC("BITVV", 0, b.e.info, c.e.info)
               [] OTHER -> ABC("ARITHVV", 0, b.e.info, c.e.info)
  IN  [f |-> bcemit(g, [ins EXCEPT !.d = op]),
       e |-> [b.e EXCEPT !.k = "Relocable", !.info = Pc(g)]]

foldbitop(op, e1, e2) == [e1 EXCEPT !.val = Num(Bits(op, e1.val[2], e2.val[2]))]

\* ISLT, ISGE, ISLE, ISGT in the order of the comparison operators.
Comp == ("<" :> "ISLT") @@ (">=" :> "ISGE") @@ ("<=" :> "ISLE") @@ (">" :> "ISGT")

bcemit_comp(f, op, e1, e2) ==
  LET v1 == expr_toval(f, e1)
      eq == op \in {"==", "~="}
      swap == IF eq THEN isk(v1.e) ELSE op \in {">=", ">"}
      x == IF swap THEN e2 ELSE v1.e
      y == IF swap THEN v1.e ELSE e2
      \* Equality: the left operand first, a constant on the right.
      ra == expr_toanyreg(v1.f, x)
      rv == expr_toval(ra.f, y)
      rd == IF isk(rv.e) THEN rv ELSE expr_toanyreg(rv.f, rv.e)
      eqins == IF isk(rv.e) THEN AD(IF op = "==" THEN "ISEQK" ELSE "ISNEK", ra.e.info, rv.e.val)
               ELSE AD(IF op = "==" THEN "ISEQV" ELSE "ISNEV", ra.e.info, rd.e.info)
      \* Order: a swapped comparison evaluates its new left operand first.
      sx == expr_toval(v1.f, x)
      sa == expr_toanyreg(sx.f, sx.e)
      sd == expr_toanyreg(sa.f, y)
      nd == expr_toanyreg(v1.f, y)
      na == expr_toanyreg(nd.f, x)
      a == IF eq THEN ra.e ELSE IF swap THEN sa.e ELSE na.e
      d == IF eq THEN rd.e ELSE IF swap THEN sd.e ELSE nd.e
      g == IF eq THEN rd.f ELSE IF swap THEN sd.f ELSE na.f
      ins == IF eq THEN eqins
             ELSE AD(IF swap THEN Comp[IF op = ">=" THEN "<=" ELSE "<"] ELSE Comp[op], a.info, d.info)
      j == bcemit_jmp(bcemit(FreeTemp(FreeTemp(g, a), d), ins))
  IN  [f |-> j.f, e |-> [a EXCEPT !.k = "Jmp", !.info = j.l]]

bcemit_binop_left(f, op, e) ==
  CASE op = "and" -> bcemit_branch_t(f, e)
    [] op = "or" -> bcemit_branch_f(f, e)
    [] op = "??" ->
         LET r == expr_tonextreg(f, e)
             j == bcemit_jmp(bcemit(r.f, AD("ISNEK", r.e.info, Nil)))
         IN  [f |-> bcreg_free(j.f, r.e.info), e |-> [r.e EXCEPT !.aux = j.l]]
    [] op = ".." -> expr_tonextreg(f, e)
    [] op \in {"==", "~="} -> IF isk_nojump(e) THEN [f |-> f, e |-> e] ELSE expr_toanyreg(f, e)
    [] OTHER -> IF isnumk_nojump(e) THEN [f |-> f, e |-> e] ELSE expr_toanyreg(f, e)

bcemit_cat(f, e1, e2) ==
  LET v == expr_toval(f, e2)
      r == expr_tonextreg(v.f, v.e)
      g == expr_free(expr_free(r.f, r.e), e1)
  IN  IF v.e.k = "Relocable" /\ Ins(v.f, v.e.info).op = "CAT"
      THEN [f |-> [expr_free(v.f, e1) EXCEPT !.bc[v.e.info + 1].b = e1.info],
            e |-> [e1 EXCEPT !.k = "Relocable", !.info = v.e.info]]
      ELSE [f |-> bcemit(g, ABC("CAT", 0, e1.info, r.e.info)),
            e |-> [e1 EXCEPT !.k = "Relocable", !.info = Pc(g)]]

bcemit_binop(f, op, e1, e2) ==
  CASE op \in {"+", "-", "*", "%", "^"} ->
         IF foldable(op, e1, e2)
         THEN [f |-> f, e |-> [e1 EXCEPT !.val = Num(vm_foldarith(op, e1.val[2], e2.val[2]))]]
         ELSE bcemit_arith(f, op, e1, e2)
    [] op \in BitOps ->
         IF isnumk_nojump(e1) /\ isnumk_nojump(e2) THEN [f |-> f, e |-> foldbitop(op, e1, e2)]
         ELSE bcemit_arith(f, op, e1, e2)
    [] op = "and" ->
         LET d == expr_discharge(f, e2)
             a == jmp_append(d.f, d.e.f, e1.f)
         IN  [f |-> a.f, e |-> [d.e EXCEPT !.f = a.l]]
    [] op = "or" ->
         LET d == expr_discharge(f, e2)
             a == jmp_append(d.f, d.e.t, e1.t)
         IN  [f |-> a.f, e |-> [d.e EXCEPT !.t = a.l]]
    [] op = "??" -> [f |-> jmp_tohere(expr_tonextreg(f, e2).f, e1.aux), e |-> e1]
    [] op = ".." -> bcemit_cat(f, e1, e2)
    [] OTHER -> bcemit_comp(f, op, e1, e2)

bcemit_unop(f, op, e0) ==
  LET swapped == [e0 EXCEPT !.t = e0.f, !.f = e0.t]
      d == expr_discharge(jmp_dropval(jmp_dropval(f, swapped.f), swapped.t), swapped)
      g == bcreg_reserve(d.f, 1)
      Emit(h, e) == [f |-> bcemit(expr_free(h, e), AD(op, 0, e.info)),
                     e |-> [e EXCEPT !.k = "Relocable", !.info = Pc(h)]]
      r == expr_toanyreg(f, e0)
  IN  CASE op = "NOT" /\ d.e.k \in {"KNil", "KFalse"} ->
             [f |-> d.f, e |-> [d.e EXCEPT !.k = "KTrue", !.val = Bool(TRUE)]]
        [] op = "NOT" /\ isk(d.e) -> [f |-> d.f, e |-> [d.e EXCEPT !.k = "KFalse", !.val = Bool(FALSE)]]
        [] op = "NOT" /\ d.e.k = "Jmp" -> [f |-> invertcond(d.f, d.e), e |-> d.e]
        [] op = "NOT" /\ d.e.k = "Relocable" ->
             Emit(SetA(g, d.e.info, g.freereg - 1), [d.e EXCEPT !.k = "NonReloc", !.info = g.freereg - 1])
        [] op = "NOT" -> Emit(d.f, d.e)
        [] op = "UNM" /\ ~hasjump(e0) /\ e0.k = "KNum" /\ e0.val # Num(0) ->
             [f |-> f, e |-> [e0 EXCEPT !.val = Num(-e0.val[2])]]
        [] op = "BNOT" /\ ~hasjump(e0) /\ e0.k = "KNum" -> [f |-> f, e |-> [e0 EXCEPT !.val = Num(BitNot(e0.val[2]))]]
        [] OTHER -> Emit(r.f, r.e)
=============================================================================
