------------------------------ MODULE Compiler ------------------------------
(***************************************************************************)
(* The one-pass compiler (compiler/parse.rs): variables and upvalues,      *)
(* scopes, goto and labels, expressions and statements, down to function   *)
(* prototypes.  The input is a program whose statements and primary        *)
(* expressions are already grouped (tagged tuples); operator expressions   *)
(* are still flat, since operator precedence is resolved here.             *)
(*                                                                         *)
(* p.f     the function being compiled, p.up the functions around it       *)
(* p.vs    the variable stack: locals, labels and gotos of all functions   *)
(* p.act   the active locals, innermost last (the chains of vhash)         *)
(* p.pend  where the declarations of the main function's current local     *)
(*         statement start (pend_start)                                    *)
(* p.err   the first compile-time error, or ""                             *)
(***************************************************************************)
EXTENDS Emitter

Fail(p, msg) == IF p.err = "" THEN [p EXCEPT !.err = msg] ELSE p
OnF(p, f) == [p EXCEPT !.f = f]
NONAME == ""

---------------------------------------------------------------------------
(* Variables. *)

\* Redeclaring a visible constant is refused.
var_new(p, n, name) ==
  LET q == IF \E i \in DOMAIN p.act : p.vs[p.act[i]].name = name /\ p.vs[p.act[i]].const
           THEN Fail(p, "redeclare constant") ELSE p
      v == [name |-> name, startpc |-> 0, slot |-> 0, kind |-> "var", rw |-> FALSE, const |-> FALSE]
  IN  [q EXCEPT !.vs = Append(@, v), !.f.varmap = Append(SubSeq(@, 1, p.f.nactvar + n), Len(p.vs) + 1)]

\* The newest nvars declarations become active.
var_add(p, nvars) ==
  LET idx == [i \in 1 .. nvars |-> p.f.varmap[p.f.nactvar + i]]
      Start(vs, i) == [vs EXCEPT ![idx[i]].startpc = Pc(p.f), ![idx[i]].slot = p.f.nactvar + i - 1]
  IN  [p EXCEPT !.vs = FoldLeft(Start, @, [i \in 1 .. nvars |-> i]), !.act = @ \o idx, !.f.nactvar = @ + nvars]

var_remove(p, tolevel) ==
  [p EXCEPT !.act = SubSeq(@, 1, Len(@) - (p.f.nactvar - tolevel)), !.f.nactvar = tolevel]

\* The scope of an enclosing function that owns a captured slot.
fscope_uvmark(f, level) ==
  LET Owners == {i \in DOMAIN f.scopes : f.scopes[i].nactvar <= level}
  IN  IF Owners = {} THEN f ELSE [f EXCEPT !.scopes[Max(Owners)].flags = @ \cup {"UPVAL"}]

\* A captured variable gets an upvalue in every function between its owner
\* and its use: taken from a local of the owner, or inherited.  i counts the
\* function inwards, Len(p.up) + 1 being the current one.
RECURSIVE Capture(_, _, _)
Capture(p, i, vidx) ==
  LET top == Len(p.up) + 1
      fi == IF i = top THEN p.f ELSE p.up[i]
      known == {u \in DOMAIN fi.uvmap : fi.uvmap[u] = vidx}
      q == IF vidx > p.up[i - 1].vbase THEN p ELSE Capture(p, i - 1, vidx)
      own == q.up[i - 1]
      src == IF vidx > own.vbase THEN <<"var", vidx>>
             ELSE <<"uv", (CHOOSE u \in DOMAIN own.uvmap : own.uvmap[u] = vidx)>>
      marked == IF vidx > own.vbase
                THEN [q EXCEPT !.up[i - 1] = fscope_uvmark(own, p.vs[vidx].slot)] ELSE q
      Add(g) == [g EXCEPT !.uvmap = Append(@, vidx), !.uvtmp = Append(@, src)]
  IN  IF known # {} THEN p
      ELSE IF i = top THEN [marked EXCEPT !.f = Add(@)] ELSE [marked EXCEPT !.up[i] = Add(@)]

var_resolve(p, vidx) ==
  LET q == Capture(p, Len(p.up) + 1, vidx)
      u == CHOOSE i \in DOMAIN q.f.uvmap : q.f.uvmap[i] = vidx
  IN  IF vidx > p.f.vbase
      THEN [p |-> p, e |-> [Exp("Local", p.vs[vidx].slot) EXCEPT !.aux = vidx]]
      ELSE [p |-> q, e |-> [Exp("Upval", u) EXCEPT !.aux = vidx]]

\* A local of the enclosing functions whose declaration is still being
\* initialised is visible to a nested function, when nothing else has that
\* name.
var_lookup(p, name) ==
  LET Active == {i \in DOMAIN p.act : p.vs[p.act[i]].name = name}
      Pending == {i \in (p.pend + 1) .. Len(p.vs) :
                    p.vs[i].startpc = 0 /\ p.vs[i].name = name /\ i <= p.f.vbase}
  IN  IF Active # {} THEN var_resolve(p, p.act[Max(Active)])
      ELSE IF p.up # <<>> /\ Pending # {} THEN var_resolve(p, Max(Pending))
      ELSE [p |-> p, e |-> [Exp("Global", 0) EXCEPT !.val = name]]

var_assign_check(p, e) ==
  IF e.k \in {"Local", "Upval"} /\ p.vs[e.aux].const THEN Fail(p, "assign to constant") ELSE p

\* A store also notes that the variable is written after its declaration.
Store(p, var, e) ==
  LET q == [p EXCEPT !.f = bcemit_store(p.f, var, e)]
  IN  IF var.k \in {"Local", "Upval"} THEN [q EXCEPT !.vs[var.aux].rw = TRUE] ELSE q

---------------------------------------------------------------------------
(* Goto and labels. *)

gola_new(p, name, kind, pc) ==
  [p EXCEPT !.vs = Append(@, [name |-> name, startpc |-> pc, slot |-> p.f.nactvar,
                              kind |-> kind, rw |-> FALSE, const |-> FALSE])]

gola_patch(p, vg, vl) ==
  LET pc == p.vs[vg].startpc
  IN  [p EXCEPT !.vs[vg].name = NONAME,
                !.f = jmp_patch(SetA(p.f, pc, vl.slot), pc, vl.startpc)]

\* A goto that leaves the scope of captured locals closes their upvalues.
gola_close(p, vg) ==
  LET pc == p.vs[vg].startpc
      f == SetA(p.f, pc, p.vs[vg].slot)
      next == jmp_next(p.f, pc)
      g == IF next = NO_JMP THEN f ELSE jmp_patch(f, next, pc)
  IN  IF Ins(p.f, pc).op = "JMP"
      THEN [p EXCEPT !.f = SetIns(g, pc, AD("UCLO", p.vs[vg].slot, -1))]
      ELSE [p EXCEPT !.f = f]

Gotos(p, from, name) ==
  SelectSeq([i \in 1 .. (Len(p.vs) - from) |-> from + i],
            LAMBDA v : p.vs[v].name = name /\ p.vs[v].kind = "goto")

\* Resolve the gotos of a scope to the label vl (an entry, not an index).
gola_resolve(p, vstart, vl) ==
  FoldLeft(LAMBDA q, vg :
             gola_patch(IF q.vs[vg].slot < vl.slot THEN Fail(q, "goto into scope") ELSE q, vg, vl),
           p, Gotos(p, vstart, vl.name))

\* At the end of a scope: its labels take the gotos behind them, gotos that
\* are still open move to the scope around.
gola_fixup(p, bl) ==
  LET hasprev == p.f.scopes # <<>>
      Label(q, v) ==
        FoldLeft(LAMBDA r, vg :
                   gola_patch(IF "UPVAL" \in bl.flags /\ r.vs[vg].slot > r.vs[v].slot
                              THEN gola_close(r, vg) ELSE r, vg, q.vs[v]),
                 [q EXCEPT !.vs[v].name = NONAME], Gotos(q, v, q.vs[v].name))
      Flag(name) == IF name = "break" THEN "BREAK" ELSE IF name = "continue" THEN "CONT" ELSE "GOLA"
      Move(q, v) ==
        LET r == [q EXCEPT !.f.scopes[Len(q.f.scopes)].flags = @ \cup {Flag(q.vs[v].name)},
                           !.vs[v].slot = bl.nactvar]
        IN  IF "UPVAL" \in bl.flags THEN gola_close(r, v) ELSE r
      One(q, v) ==
        CASE q.vs[v].name = NONAME \/ q.vs[v].kind = "var" -> q
          [] q.vs[v].kind = "label" -> Label(q, v)
          [] hasprev -> Move(q, v)
          [] OTHER -> Fail(q, "no visible label")
  IN  FoldLeft(One, p, [i \in 1 .. (Len(p.vs) - bl.vstart) |-> bl.vstart + i])

gola_findlabel(p, name) ==
  LET vstart == Last(p.f.scopes).vstart
  IN  {v \in (vstart + 1) .. Len(p.vs) : p.vs[v].name = name /\ p.vs[v].kind = "label"}

---------------------------------------------------------------------------
(* Scopes. *)

fscope_begin(p, flags) ==
  [p EXCEPT !.f.scopes = Append(@, [vstart |-> Len(p.vs), nactvar |-> p.f.nactvar,
                                    flags |-> flags, max |-> p.f.freereg])]

\* A label that lives only while the gotos of the scope are resolved to it.
TempLabel(p, name, pc) == [name |-> name, startpc |-> pc, slot |-> p.f.nactvar]

\* Close captured locals, clear the registers the block used, resolve break.
fscope_end(p) ==
  LET bl == Last(p.f.scopes)
      q == var_remove([p EXCEPT !.f.scopes = Front(@)], bl.nactvar)
      f1 == IF bl.flags \cap {"UPVAL", "NOCLOSE"} = {"UPVAL"}
            THEN bcemit(q.f, AD("UCLO", bl.nactvar, 0)) ELSE q.f
      f2 == IF bl.max > bl.nactvar THEN bcemit(f1, AD("KNIL", bl.nactvar, bl.max - 1)) ELSE f1
      r == [q EXCEPT !.f = [f2 EXCEPT !.freereg = bl.nactvar]]
      brk == {"LOOP", "BREAK"} \subseteq bl.flags
      s == IF brk THEN gola_resolve(r, bl.vstart, TempLabel(r, "break", Pc(r.f))) ELSE r
      left == IF brk THEN bl.flags \ {"BREAK"} ELSE bl.flags
  IN  IF left \cap {"GOLA", "BREAK", "CONT"} # {} THEN gola_fixup(s, [bl EXCEPT !.flags = left]) ELSE s

fscope_continue(p, cont) ==
  LET n == Len(p.f.scopes)
  IN  IF "CONT" \in Last(p.f.scopes).flags
      THEN gola_resolve([p EXCEPT !.f.scopes[n].flags = @ \ {"CONT"}],
                        Last(p.f.scopes).vstart, TempLabel(p, "continue", cont))
      ELSE p

---------------------------------------------------------------------------
(* Functions. *)

fs_init(p) ==
  [p EXCEPT !.up = Append(@, p.f), !.f = FuncState(Len(p.vs))]

IsRet(op) == op \in {"CALLMT", "CALLT", "RETM", "RET", "RET0", "RET1"}

\* Returns before the first closure, compiled when nothing had to be closed,
\* move behind an UCLO when a later closure captures a local.
RECURSIVE FixupReturns(_, _, _)
FixupReturns(f, pc, lastpc) ==
  LET ins == Ins(f, pc)
      off == Pc(f) - (pc + 1)
  IN  IF pc >= lastpc \/ ins.op = "FNEW" THEN f
      ELSE FixupReturns(IF IsRet(ins.op) THEN SetIns(bcemit(f, ins), pc, AD("UCLO", 0, off)) ELSE f,
                        pc + 1, lastpc)

fs_fixup_ret(p) ==
  LET f == p.f
      lastpc == Pc(f)
      open == lastpc <= f.lasttarget \/ ~IsRet(Ins(f, lastpc - 1).op)
      f1 == IF open /\ "UPVAL" \in f.scopes[1].flags THEN bcemit(f, AD("UCLO", 0, 0)) ELSE f
      f2 == IF open THEN bcemit(f1, AD("RET0", 0, 1)) ELSE f
      q == fscope_end([p EXCEPT !.f = [f2 EXCEPT !.scopes[1].flags = @ \cup {"NOCLOSE"}]])
  IN  IF "FIXUP_RETURN" \in f.flags THEN [q EXCEPT !.f = FixupReturns(q.f, 1, lastpc)] ELSE q

\* The prototype; the upvalues of its children are resolved to registers of
\* this function only now, when their slots are known.
fs_finish(p0) ==
  LET p == fs_fixup_ret(p0)
      f == p.f
      Resolve(uv) == IF uv[1] = "var" THEN <<"local", p.vs[uv[2]].slot, ~p.vs[uv[2]].rw>> ELSE uv
      needsarg == "NEEDSARG" \in f.flags
  IN  [p |-> [p EXCEPT !.vs = SubSeq(@, 1, f.vbase)],
       proto |-> [bc |-> f.bc, uv |-> f.uvtmp, numparams |-> f.numparams,
                  framesize |-> IF needsarg THEN Max({f.numparams + 1, f.framesize}) ELSE f.framesize,
                  vararg |-> "VARARG" \in f.flags, needsarg |-> needsarg,
                  kgc |-> [i \in DOMAIN f.kgc |->
                             [f.kgc[i] EXCEPT !.uv = [u \in DOMAIN @ |-> Resolve(@[u])]]]]]

\* The closure instruction in the function around.
proto_finish(p) ==
  LET r == fs_finish(p)
      g == Last(p.up)
      f == bcemit([r.p.up[Len(r.p.up)] EXCEPT !.kgc = Append(@, r.proto)],
                  AD("FNEW", 0, Len(g.kgc) + 1))
      late == "CHILD" \notin f.flags /\ "HAS_RETURN" \in f.flags
      flags == f.flags \cup {"CHILD"} \cup (IF late THEN {"FIXUP_RETURN"} ELSE {})
  IN  [p |-> [r.p EXCEPT !.f = [f EXCEPT !.flags = flags], !.up = Front(@)],
       e |-> Exp("Relocable", Pc(f) - 1)]

\* Parameters; a vararg function also declares the implicit local arg.
parse_params(p, names, vararg) ==
  LET all == IF vararg THEN Append(names, "arg") ELSE names
      q == FoldLeft(LAMBDA r, i : var_new(r, i - 1, all[i]), p, [i \in DOMAIN all |-> i])
      flags == IF vararg THEN q.f.flags \cup {"VARARG", "NEEDSARG"} ELSE q.f.flags
      s == var_add([q EXCEPT !.f.flags = flags], Len(all))
      f == [bcreg_reserve(s.f, Len(all)) EXCEPT !.numparams = Len(names)]
  IN  [s EXCEPT !.f = bcemit(f, AD("FUNC", 0, 0))]

---------------------------------------------------------------------------
(* Expressions. *)

Priority ==
  ("+" :> <<10, 10>>) @@ ("-" :> <<10, 10>>) @@ ("*" :> <<11, 11>>) @@ ("%" :> <<11, 11>>)
  @@ ("&" :> <<6, 6>>) @@ ("|" :> <<4, 4>>) @@ ("~" :> <<5, 5>>)
  @@ [op \in {"<<", ">>", "~>>"} |-> <<7, 7>>]
  @@ ("^" :> <<14, 13>>) @@ (".." :> <<9, 8>>)
  @@ [op \in {"~=", "==", "<", ">=", "<=", ">"} |-> <<3, 3>>]
  @@ ("and" :> <<2, 2>>) @@ ("or" :> <<1, 1>>) @@ ("??" :> <<1, 1>>)
UNARY_PRIORITY == 12

RECURSIVE expr(_, _)
RECURSIVE expr_binop(_, _, _, _)
RECURSIVE parse_chunk(_, _, _)

R(p, r) == [p |-> OnF(p, r.f), e |-> r.e]

\* All but the last expression go to consecutive registers.
RECURSIVE expr_list(_, _)
expr_list(p, es) ==
  LET r == expr(p, Head(es))
  IN  IF Len(es) = 1 THEN r ELSE expr_list(OnF(r.p, expr_tonextreg(r.p.f, r.e).f), Tail(es))

\* Small integer and string keys are operands of the instruction.
expr_index(p, t, key) ==
  LET r == expr_toanyreg(p.f, key)
      Aux(x) == [t EXCEPT !.k = "Indexed", !.aux = x]
  IN  CASE key.k = "KNum" /\ key.val[2] \in 0 .. 255 -> [p |-> p, e |-> Aux(<<"b", key.val[2]>>)]
        [] key.k = "KStr" -> [p |-> p, e |-> Aux(<<"s", key.val>>)]
        [] OTHER -> [p |-> OnF(p, r.f), e |-> Aux(<<"r", r.e.info>>)]

expr_field(p, v, name) ==
  LET r == expr_toanyreg(p.f, v) IN expr_index(OnF(p, r.f), r.e, Const("KStr", Str(name)))

expr_bracket(p, e) == LET r == expr(p, e) IN R(r.p, expr_toval(r.p.f, r.e))

\* v is the function, already in its register with the frame slot reserved.
parse_args(p, v, args) ==
  LET r == IF args = <<>> THEN [p |-> p, e |-> Exp("Void", 0)] ELSE expr_list(p, args)
      base == v.info
      multi == r.e.k = "Call"
      f1 == IF multi THEN [r.p.f EXCEPT !.bc[r.e.info + 1].b = 0]
            ELSE IF r.e.k = "Void" THEN r.p.f ELSE expr_tonextreg(r.p.f, r.e).f
      ins == IF multi THEN ABC("CALLM", base, 2, r.e.aux - base - 2)
             ELSE ABC("CALL", base, 2, f1.freereg - base - 1)
  IN  [p |-> OnF(r.p, [bcemit(f1, ins) EXCEPT !.freereg = base + 1]),
       e |-> [Exp("Call", Pc(f1)) EXCEPT !.aux = base]]

\* A safe-navigation test leaves the whole chain when v is nil.
NavTest(p, v, xpc) ==
  LET r == expr_toanyreg(p.f, v)
      j == bcemit_jmp(bcemit(r.f, AD("ISEQK", r.e.info, Nil)))
      a == jmp_append(j.f, xpc, j.l)
  IN  [p |-> OnF(p, a.f), e |-> r.e, xpc |-> a.l]

\* One suffix: [p, e, xpc] before to [p, e, xpc] after.
Suffix(s, x, nores, islast) ==
  LET n == IF x.nav THEN NavTest(s.p, s.e, s.xpc) ELSE s
      isnav == x.nav \/ (x.k = "meth" /\ x.nav2)
      m == bcemit_method(n.p.f, n.e, x.name)
      m2 == IF x.nav2 THEN NavTest(OnF(n.p, m.f), m.e, n.xpc)
            ELSE [p |-> OnF(n.p, m.f), e |-> m.e, xpc |-> n.xpc]
      t == expr_toanyreg(n.p.f, n.e)
      key == expr_bracket(OnF(n.p, t.f), x.e)
      c == expr_tonextreg(n.p.f, n.e)
      r == CASE x.k = "idx" -> expr_index(key.p, t.e, key.e)
             [] x.k = "meth" -> parse_args(m2.p, m2.e, x.args)
             [] x.k = "call" -> parse_args(OnF(n.p, bcreg_reserve(c.f, 1)), c.e, x.args)
             [] x.k = "fld" -> expr_field(n.p, n.e, x.name)
      xpc == IF x.k = "meth" THEN m2.xpc ELSE n.xpc
      nav == IF x.k = "meth" THEN x.nav2 ELSE x.nav
      stop == nav /\ ~nores /\ islast /\ x.k \in {"meth", "call"}
      d == expr_tonextreg(r.p.f, r.e)
  IN  IF nav /\ ~nores /\ ~stop THEN [p |-> OnF(r.p, d.f), e |-> d.e, xpc |-> xpc]
      ELSE [p |-> r.p, e |-> r.e, xpc |-> xpc]

expr_primary_nav(p, prim, nores) ==
  LET head == prim[2]
      sfx == prim[3]
      pe == expr(p, head[2])
      h == IF head[1] = "name" THEN var_lookup(p, head[2]) ELSE R(pe.p, expr_discharge(pe.p.f, pe.e))
  IN  FoldLeft(LAMBDA s, i : Suffix(s, sfx[i], nores, i = Len(sfx)),
               [p |-> h.p, e |-> h.e, xpc |-> NO_JMP], [i \in DOMAIN sfx |-> i])

\* The nil outcome of safe navigation meets the value in its register.
expr_primary(p, prim) ==
  LET s == expr_primary_nav(p, prim, FALSE)
      j == bcemit_jmp(s.p.f)
      reg == IF s.e.k = "Call" THEN s.e.aux ELSE s.e.info
      f == jmp_tohere(bcemit(jmp_tohere(j.f, s.xpc), AD("KPRI", reg, Nil)), j.l)
  IN  IF s.xpc = NO_JMP THEN [p |-> s.p, e |-> s.e]
      ELSE [p |-> OnF(s.p, f), e |-> IF s.e.k = "Call" THEN [s.e EXCEPT !.k = "CallNav"] ELSE s.e]

parse_body(p, fn, needself) ==
  LET q == parse_params(fscope_begin(fs_init(p), {}),
                        IF needself THEN <<"self">> \o fn[2] ELSE fn[2], fn[3])
  IN  proto_finish(parse_chunk(q, fn[4], FALSE))

\* One item of a table constructor.  s carries the descriptor of the table,
\* the constant part (tmpl) and what the last item was.
TableItem(s, x) ==
  LET k == CASE x[1] = "keyed" -> expr_bracket(s.p, x[2])
             [] x[1] = "named" -> [p |-> s.p, e |-> Const("KStr", Str(x[2]))]
             [] x[1] = "pos" -> [p |-> s.p, e |-> Const("KNum", Num(s.narr))]
      key == k.e
      ki == IF isk(key) THEN [p |-> k.p, e |-> s.e] ELSE expr_index(k.p, s.e, key)
      v == expr(ki.p, x[Len(x)])
      const == isk(key) /\ key.k # "KNil" /\ (key.k = "KStr" \/ isk_nojump(v.e))
      known == const /\ isk_nojump(v.e)
      a == IF v.e.k = "Call" THEN v ELSE R(v.p, expr_toanyreg(v.p.f, v.e))
      kj == IF isk(key) THEN expr_index(a.p, ki.e, key) ELSE [p |-> a.p, e |-> ki.e]
      done == IF known THEN v.p.f ELSE bcemit_store(kj.p.f, kj.e, a.e)
  IN  [p |-> OnF(v.p, [done EXCEPT !.freereg = s.reg + 1]),
       e |-> [s.e EXCEPT !.k = "NonReloc"],
       reg |-> s.reg,
       dup |-> s.dup \/ const,
       tmpl |-> IF known /\ v.e.k # "KNil" THEN Append(s.tmpl, <<key.val, v.e.val>>) ELSE s.tmpl,
       narr |-> IF x[1] = "pos" THEN s.narr + 1 ELSE s.narr,
       vcall |-> x[1] = "pos" /\ ~const /\ v.e.k = "Call"]

expr_table(p, items) ==
  LET reg == p.f.freereg
      pc == Pc(p.f)
      f0 == bcreg_reserve(bcemit(p.f, AD("TNEW", reg, 0)), 1)
      s == FoldLeft(TableItem, [p |-> OnF(p, f0), e |-> Exp("NonReloc", reg), reg |-> reg, dup |-> FALSE,
                                tmpl |-> <<>>, narr |-> 1, vcall |-> FALSE], items)
      f1 == IF s.dup THEN SetIns(s.p.f, pc, AD("TDUP", reg, s.tmpl)) ELSE s.p.f
      fpc == Pc(f1) - 1
      f2 == IF s.vcall
            THEN [SetIns(f1, fpc, AD("TSETM", reg + 1, s.narr - 1)) EXCEPT !.bc[fpc].b = 0] ELSE f1
  IN  IF pc = Pc(f2) - 1
      THEN [p |-> OnF(s.p, [f2 EXCEPT !.freereg = @ - 1]), e |-> [s.e EXCEPT !.k = "Relocable", !.info = pc]]
      ELSE [p |-> OnF(s.p, f2), e |-> s.e]

\* Varargs: a call-like value; naming them withdraws the implicit arg table.
Dots(p) ==
  LET f == bcreg_reserve([p.f EXCEPT !.flags = @ \ {"NEEDSARG"}], 1)
      base == f.freereg - 1
  IN  [p |-> OnF(IF "VARARG" \in p.f.flags THEN p ELSE Fail(p, "dots outside vararg"),
                 bcemit(f, ABC("VARG", base, 2, f.numparams))),
       e |-> [Exp("Call", Pc(f)) EXCEPT !.aux = base]]

expr_simple(p, x) ==
  CASE x[1] = "nil" -> [p |-> p, e |-> Const("KNil", Nil)]
    [] x[1] = "true" -> [p |-> p, e |-> Const("KTrue", Bool(TRUE))]
    [] x[1] = "false" -> [p |-> p, e |-> Const("KFalse", Bool(FALSE))]
    [] x[1] = "num" -> [p |-> p, e |-> Const("KNum", x)]
    [] x[1] = "str" -> [p |-> p, e |-> Const("KStr", x)]
    [] x[1] = "dots" -> Dots(p)
    [] x[1] = "tab" -> expr_table(p, x[2])
    [] x[1] = "fn" -> parse_body(p, x, FALSE)
    [] x[1] = "prim" -> expr_primary(p, x)

\* Operands and operators from token i on: a unary operator binds what its
\* priority lets it, a binary one continues while it binds tighter than limit.
expr_unop(p, toks, i) ==
  LET r == expr_binop(p, toks, i + 1, UNARY_PRIORITY)
      u == bcemit_unop(r.p.f, toks[i][2], r.e)
      s == expr_simple(p, toks[i])
  IN  IF toks[i][1] = "un" THEN [p |-> OnF(r.p, u.f), e |-> u.e, i |-> r.i]
      ELSE [p |-> s.p, e |-> s.e, i |-> i + 1]

RECURSIVE BinopLoop(_, _, _)
BinopLoop(s, toks, limit) ==
  LET op == toks[s.i][2]
      left == bcemit_binop_left(s.p.f, op, s.e)
      r == expr_binop(OnF(s.p, left.f), toks, s.i + 1, Priority[op][2])
      b == bcemit_binop(r.p.f, op, left.e, r.e)
  IN  IF s.i > Len(toks) \/ Priority[op][1] <= limit THEN s
      ELSE BinopLoop([p |-> OnF(r.p, b.f), e |-> b.e, i |-> r.i], toks, limit)

expr_binop(p, toks, i, limit) == BinopLoop(expr_unop(p, toks, i), toks, limit)

Operators(p, x) ==
  IF x[1] = "ops" THEN LET r == expr_binop(p, x[2], 1, 0) IN [p |-> r.p, e |-> r.e] ELSE expr_simple(p, x)

\* The conditional operator c ? a : b delivers both outcomes in one register.
expr(p, x) ==
  LET c == Operators(p, x[2])
      t == bcemit_branch_t(c.p.f, c.e)
      a == expr(OnF(c.p, t.f), x[3])
      ra == expr_tonextreg(a.p.f, a.e)
      j == bcemit_jmp(ra.f)
      b == expr(OnF(a.p, bcreg_free(jmp_tohere(j.f, t.e.f), ra.e.info)), x[4])
      rb == expr_tonextreg(b.p.f, b.e)
  IN  IF x[1] = "cond" THEN [p |-> OnF(b.p, jmp_tohere(rb.f, j.l)), e |-> rb.e] ELSE Operators(p, x)

expr_next(p, x) == LET r == expr(p, x) IN OnF(r.p, expr_tonextreg(r.p.f, r.e).f)

\* A condition; its dead temporaries are cleared on the path taken when it
\* holds.  Returns [p, l], l the jumps taken when it does not hold.
expr_cond(p, x) ==
  LET freg == p.f.freereg
      r == expr(p, x)
      b == bcemit_branch_t(r.p.f, IF r.e.k = "KNil" THEN Const("KFalse", Bool(FALSE)) ELSE r.e)
      to == IF b.e.k = "NonReloc" /\ b.e.info # NO_REG THEN Max({b.f.freereg, b.e.info + 1}) ELSE b.f.freereg
  IN  [p |-> OnF(r.p, IF to > freg THEN [bcemit_nil(b.f, freg, to - freg) EXCEPT !.freereg = freg] ELSE b.f),
       l |-> b.e.f]

---------------------------------------------------------------------------
(* Assignments and declarations. *)

\* A local assigned in the same statement that an earlier target indexes
\* with is saved in a temporary first.
assign_hazard_None(p, lhs, v) == [p |-> p, lhs |-> lhs]
assign_hazard(p, lhs, v) ==
  LET tmp == p.f.freereg
      Moved(x) == IF x.k # "Indexed" THEN x
                  ELSE [x EXCEPT !.info = IF @ = v.info THEN tmp ELSE @,
                                 !.aux = IF @ = <<"r", v.info>> THEN <<"r", tmp>> ELSE @]
      hazard == \E i \in DOMAIN lhs : lhs[i].k = "Indexed" /\ (lhs[i].info = v.info \/ lhs[i].aux = <<"r", v.info>>)
  IN  [p |-> IF hazard THEN OnF(p, bcreg_reserve(bcemit(p.f, AD("MOV", tmp, v.info)), 1)) ELSE p,
       lhs |-> [i \in DOMAIN lhs |-> Moved(lhs[i])]]

\* nexps values for nvars targets: a trailing call delivers what is missing.
assign_adjust(p, nvars, nexps, e) ==
  LET extra == nvars - nexps
      want == Max({extra + 1, 0})
      f1 == [p.f EXCEPT !.bc[e.info + 1].b = want + 1]
      f2 == IF want > 1 THEN bcreg_reserve(f1, want - 1) ELSE f1
      f3 == IF e.k = "CallNav"
            THEN LET g == SetA(f2, e.info + 1, e.aux + want)
                 IN  IF want > 1 THEN SetIns(g, e.info + 2, AD("KNIL", e.aux, e.aux + want - 1)) ELSE g
            ELSE f2
      g1 == IF e.k = "Void" THEN p.f ELSE expr_tonextreg(p.f, e).f
      g2 == IF extra > 0 THEN bcemit_nil(bcreg_reserve(g1, extra), g1.freereg, extra) ELSE g1
      f == IF e.k \in {"Call", "CallNav"} THEN f3 ELSE g2
  IN  OnF(p, IF nexps > nvars THEN [f EXCEPT !.freereg = @ - (nexps - nvars)] ELSE f)

\* Targets left to right, then the expressions, then the stores from the
\* last target to the first.
RECURSIVE parse_assignment(_, _, _, _)
parse_assignment(p0, lhs, rest, es) ==
  LET p == var_assign_check(p0, Last(lhs))
      vl == expr_primary(p, Head(rest))
      hz == IF vl.e.k = "Local" THEN assign_hazard(vl.p, lhs, vl.e) ELSE [p |-> vl.p, lhs |-> lhs]
      inner == parse_assignment(hz.p, Append(hz.lhs, vl.e), Tail(rest), es)
      r == expr_list(p, es)
      vararg == r.e.k = "Call" /\ Ins(r.p.f, r.e.info).op = "VARG"
      f1 == IF vararg THEN [r.p.f EXCEPT !.freereg = @ - 1] ELSE r.p.f
      e1 == IF vararg THEN [r.e EXCEPT !.k = "Relocable"]
            ELSE IF r.e.k = "Call" THEN [r.e EXCEPT !.k = "NonReloc", !.info = r.e.aux] ELSE r.e
      adj == assign_adjust(r.p, Len(lhs), Len(es), r.e)
      StoreTop(q, l) == Store(q, Last(l), Exp("NonReloc", q.f.freereg - 1))
  IN  IF rest # <<>> THEN [p |-> StoreTop(inner.p, SubSeq(inner.lhs, 1, Len(lhs))), lhs |-> inner.lhs]
      ELSE IF Len(es) = Len(lhs) THEN [p |-> Store(OnF(r.p, f1), Last(lhs), e1), lhs |-> lhs]
      ELSE [p |-> StoreTop(adj, lhs), lhs |-> lhs]

\* target op= e
parse_compound(p0, v, op, x) ==
  LET p == var_assign_check(p0, v)
      d == expr_discharge(p.f, v)
      f == IF v.k = "Indexed" THEN [d.f EXCEPT !.freereg = p.f.freereg] ELSE p.f
      e == IF v.k = "Indexed" THEN d.e ELSE v
      l == IF op = ".." THEN expr_tonextreg(f, e) ELSE expr_toanyreg(f, e)
      r == expr(OnF(p, l.f), x)
      b == bcemit_binop(r.p.f, op, l.e, r.e)
  IN  Store(OnF(r.p, b.f), v, b.e)

\* A call, an assignment or a compound assignment; a safe-navigation test
\* skips the whole statement.
parse_call_assign(p, s) ==
  LET v == expr_primary_nav(p, IF s[1] = "set" THEN s[2][1] ELSE s[2], TRUE)
      q == CASE s[1] = "call" -> OnF(v.p, [v.p.f EXCEPT !.bc[v.e.info + 1].b = 1])
             [] s[1] = "compound" -> parse_compound(v.p, v.e, s[3], s[4])
             [] s[1] = "set" -> parse_assignment(v.p, <<v.e>>, Tail(s[2]), s[3]).p
  IN  IF v.xpc = NO_JMP THEN q ELSE OnF(q, jmp_tohere(q.f, v.xpc))

\* local function name: the local is active in its own body.
LocalFunction(p, name, fn, const) ==
  LET q == var_new(p, 0, name)
      reg == p.f.freereg
      s == var_add([q EXCEPT !.vs[Len(q.vs)].const = const, !.f = bcreg_reserve(q.f, 1)], 1)
      b == parse_body(s, fn, FALSE)
      f == expr_toreg(expr_free(b.p.f, b.e), b.e, reg).f
  IN  [b.p EXCEPT !.f = f, !.vs[f.varmap[f.nactvar]].startpc = Pc(f)]

\* The names are not visible to their own initialisers, except to nested
\* functions through the pending scan, which needs their future slots.  Only
\* the main function's start of pending declarations is ever consulted.
parse_local(p, names, es, const) ==
  LET base == p.f.nactvar
      Declare(q, i) ==
        LET r == var_new(q, i - 1, names[i])
        IN  [r EXCEPT !.vs[Len(r.vs)].const = const, !.vs[Len(r.vs)].slot = IF const THEN 0 ELSE base + i - 1]
      s == FoldLeft(Declare, IF p.up = <<>> /\ ~const THEN [p EXCEPT !.pend = Len(p.vs)] ELSE p,
                    [i \in DOMAIN names |-> i])
      r == IF es = <<>> THEN [p |-> s, e |-> Exp("Void", 0)] ELSE expr_list(s, es)
  IN  var_add(assign_adjust(r.p, Len(names), Len(es), r.e), Len(names))

\* function name.fields:method(...) ... end
parse_func(p, s) ==
  LET v == FoldLeft(LAMBDA r, n : expr_field(r.p, r.e, n), var_lookup(p, s[2]), s[3])
      b == parse_body(var_assign_check(v.p, v.e), s[5], s[4])
  IN  Store(b.p, v.e, b.e)

---------------------------------------------------------------------------
(* Control transfer. *)

\* A returned call becomes a tail call; with closures about, upvalues are
\* closed before any return.
parse_return(p, es) ==
  LET r == expr_list([p EXCEPT !.f.flags = @ \cup {"HAS_RETURN"}], es)
      f == r.p.f
      e == r.e
      ins == Ins(f, e.info)
      n == f.nactvar
      tail == Len(es) = 1 /\ e.k = "Call" /\ ins.op # "VARG"
      open == [f EXCEPT !.bc[e.info + 1].b = 0]
      reg == expr_toanyreg(f, e)
      ret == CASE es = <<>> -> [f |-> [p.f EXCEPT !.flags = @ \cup {"HAS_RETURN"}], i |-> AD("RET0", 0, 1)]
               [] tail -> [f |-> [f EXCEPT !.bc = Front(@)],
                           i |-> AD(IF ins.op = "CALL" THEN "CALLT" ELSE "CALLMT", ins.a, ins.c)]
               [] e.k = "Call" -> [f |-> open, i |-> AD("RETM", n, e.aux - n)]
               [] Len(es) = 1 -> [f |-> reg.f, i |-> AD("RET1", reg.e.info, 2)]
               [] OTHER -> [f |-> expr_tonextreg(f, e).f, i |-> AD("RET", n, Len(es) + 1)]
      g == IF "CHILD" \in ret.f.flags THEN bcemit(ret.f, AD("UCLO", 0, 0)) ELSE ret.f
  IN  OnF(IF es = <<>> THEN p ELSE r.p, bcemit(g, ret.i))

\* A jump that the end of a scope resolves.
Leave(p, name, flag) ==
  LET n == Len(p.f.scopes)
      j == bcemit_jmp([p.f EXCEPT !.scopes[n].flags = @ \cup {flag}])
  IN  gola_new(OnF(p, j.f), name, "goto", j.l)

parse_break(p) == Leave(p, "break", "BREAK")

parse_continue(p) ==
  IF \E i \in DOMAIN p.f.scopes : "LOOP" \in p.f.scopes[i].flags THEN Leave(p, "continue", "CONT")
  ELSE Fail(p, "no loop to continue")

\* A backward goto is a loop.
parse_goto(p, name) ==
  LET Here == gola_findlabel(p, name)
  IN  Leave(IF Here = {} THEN p
            ELSE OnF(p, bcemit(p.f, AD("LOOP", p.vs[CHOOSE v \in Here : TRUE].slot, -1))), name, "GOLA")

\* A label; ss starts with it.  The labels right behind it come first.  A
\* label at the end of a block takes a slot from entry number nactvar of the
\* scope's part of the variable stack, which need not exist: the index
\* panics.  Returns [p, rest].
RECURSIVE parse_label(_, _, _)
parse_label(p, ss, until) ==
  LET n == Len(p.f.scopes)
      name == ss[1][2]
      q == IF gola_findlabel(p, name) # {} THEN Fail(p, "duplicate label") ELSE p
      s == gola_new([q EXCEPT !.f.lasttarget = Pc(q.f), !.f.scopes[n].flags = @ \cup {"GOLA"}],
                    name, "label", Pc(q.f))
      idx == Len(s.vs)
      r == IF Len(ss) > 1 /\ ss[2][1] = "label" THEN parse_label(s, Tail(ss), until)
           ELSE [p |-> s, rest |-> Tail(ss)]
      bl == r.p.f.scopes[n]
      at == bl.vstart + bl.nactvar + 1
      t == IF r.rest # <<>> \/ until THEN r.p
           ELSE IF at > Len(r.p.vs) THEN Fail(r.p, "panic")
           ELSE [r.p EXCEPT !.vs[idx].slot = r.p.vs[at].slot]
  IN  [p |-> gola_resolve(t, bl.vstart, t.vs[idx]), rest |-> r.rest]

---------------------------------------------------------------------------
(* Blocks, loops and conditionals. *)

parse_block(p, body) == fscope_end(parse_chunk(fscope_begin(p, {}), body, FALSE))

parse_while(p, cond, body) ==
  LET start == Pc(p.f)
      c == expr_cond([p EXCEPT !.f.lasttarget = start], cond)
      loop == Pc(c.p.f)
      b == parse_block(fscope_begin(OnF(c.p, bcemit(c.p.f, AD("LOOP", c.p.f.nactvar, 0))), {"LOOP"}), body)
      j == bcemit_jmp(b.f)
      q == fscope_end(fscope_continue(OnF(b, jmp_patch(j.f, j.l, start)), start))
      f == jmp_tohere(q.f, c.l)
  IN  OnF(q, jmp_patchins(f, loop, Pc(f)))

\* The condition is inside the scope of the body; when the body's locals are
\* captured, leaving and repeating close them separately.
parse_repeat(p, body, cond) ==
  LET start == Pc(p.f)
      q == fscope_begin(fscope_begin([p EXCEPT !.f.lasttarget = start], {"LOOP"}), {})
      b == parse_chunk(OnF(q, bcemit(q.f, AD("LOOP", q.f.nactvar, 0))), body, TRUE)
      c == expr_cond(fscope_continue(b, Pc(b.f)), cond)
      brk == parse_break(c.p)
      e == fscope_end(OnF(brk, jmp_tohere(brk.f, c.l)))
      j == bcemit_jmp(e.f)
      r == IF "UPVAL" \in Last(c.p.f.scopes).flags THEN [p |-> OnF(e, j.f), l |-> j.l]
           ELSE [p |-> fscope_end(c.p), l |-> c.l]
      f == jmp_patch(r.p.f, r.l, start)
  IN  fscope_end(OnF(r.p, jmp_patchins(f, start, Pc(f))))

Names(p, names) == FoldLeft(LAMBDA q, i : var_new(q, i - 1, names[i]), p, [i \in DOMAIN names |-> i])

parse_for_num(p, name, from, to, step, body) ==
  LET base == p.f.freereg
      q == expr_next(expr_next(Names(p, <<"(for index)", "(for limit)", "(for step)", name>>), from), to)
      s == IF step = <<>> THEN OnF(q, bcreg_reserve(bcemit(q.f, AD("KNUM", q.f.freereg, Num(1))), 1))
           ELSE expr_next(q, step[1])
      h == var_add(s, 3)
      loop == Pc(h.f)
      i == var_add(fscope_begin(OnF(h, bcemit(h.f, AD("FORI", base, -1))), {}), 1)
      b == fscope_end(parse_block(OnF(i, bcreg_reserve(i.f, 1)), body))
      c == fscope_continue(b, Pc(b.f))
      loopend == Pc(c.f)
      f == jmp_patchins(bcemit(c.f, AD("FORL", base, -1)), loopend, loop + 1)
  IN  OnF(c, jmp_patchins(f, loop, Pc(f)))

\* The iterator looks like next: its expression starts with that name.
predict_next(p, pc) ==
  LET ins == Ins(p.f, pc)
      name == CASE ins.op = "MOV" /\ ins.d < p.f.nactvar -> p.vs[p.f.varmap[ins.d + 1]].name
                [] ins.op = "UGET" -> p.vs[p.f.uvmap[ins.d]].name
                [] ins.op = "GGET" -> ins.d
                [] OTHER -> NONAME
  IN  name \in {"pairs", "next"}

parse_for_iter(p, names, es, body) ==
  LET base == p.f.freereg + 3
      nvars == 3 + Len(names)
      q == Names(p, <<"(for generator)", "(for state)", "(for control)">> \o names)
      r == expr_list(q, es)
      a == assign_adjust(r.p, 3, Len(es), r.e)
      g == OnF(a, bcreg_bump(a.f, 4))
      isnext == nvars <= 5 /\ Pc(g.f) > Pc(p.f) /\ predict_next(g, Pc(p.f))
      h == var_add(g, 3)
      loop == Pc(h.f)
      i == var_add(fscope_begin(OnF(h, bcemit(h.f, AD(IF isnext THEN "ISNEXT" ELSE "JMP", base, -1))), {}),
                   Len(names))
      b == fscope_end(parse_block(OnF(i, bcreg_reserve(i.f, Len(names))), body))
      c == fscope_continue(OnF(b, jmp_patchins(b.f, loop, Pc(b.f))), Pc(b.f))
      f == bcemit(bcemit(c.f, ABC(IF isnext THEN "ITERN" ELSE "ITERC", base, Len(names) + 1, 3)),
                  AD("ITERL", base, -1))
  IN  OnF(c, jmp_patchins(f, Pc(f) - 1, loop + 1))

parse_for(p, s) ==
  LET q == fscope_begin(p, {"LOOP"})
  IN  fscope_end(IF s[1] = "fornum" THEN parse_for_num(q, s[2], s[3], s[4], s[5], s[6])
                 ELSE parse_for_iter(q, s[2], s[3], s[4]))

\* Clauses <<condition, block>>, then at most one else block.
RECURSIVE IfClauses(_, _, _, _)
IfClauses(p, clauses, els, escape) ==
  LET c == expr_cond(p, clauses[1][1])
      b == parse_block(c.p, clauses[1][2])
      j == bcemit_jmp(b.f)
      a == jmp_append(j.f, escape, j.l)
      next == OnF(b, jmp_tohere(a.f, c.l))
      last == jmp_append(b.f, escape, c.l)
      e == parse_block(next, els[1])
  IN  CASE Len(clauses) > 1 -> IfClauses(next, Tail(clauses), els, a.l)
        [] els # <<>> -> OnF(e, jmp_tohere(e.f, a.l))
        [] OTHER -> OnF(b, jmp_tohere(last.f, last.l))

parse_if(p, clauses, els) == IfClauses(p, clauses, els, NO_JMP)

parse_stmt(p, s) ==
  CASE s[1] = "if" -> parse_if(p, s[2], s[3])
    [] s[1] = "while" -> parse_while(p, s[2], s[3])
    [] s[1] = "do" -> parse_block(p, s[2])
    [] s[1] \in {"fornum", "forin"} -> parse_for(p, s)
    [] s[1] = "repeat" -> parse_repeat(p, s[2], s[3])
    [] s[1] = "func" -> parse_func(p, s)
    [] s[1] \in {"local", "const"} -> parse_local(p, s[2], s[3], s[1] = "const")
    [] s[1] = "localfn" -> LocalFunction(p, s[2], s[3], FALSE)
    [] s[1] = "return" -> parse_return(p, s[2])
    [] s[1] = "break" -> parse_break(p)
    [] s[1] = "continue" -> parse_continue(p)
    [] s[1] = "goto" -> parse_goto(p, s[2])
    [] s[1] \in {"set", "compound", "call"} -> parse_call_assign(p, s)

\* Every statement gives its temporaries back.
parse_chunk(p, ss, until) ==
  LET l == parse_label(p, ss, until)
      q == IF ss[1][1] = "label" THEN l.p ELSE parse_stmt(p, ss[1])
      rest == IF ss[1][1] = "label" THEN l.rest ELSE Tail(ss)
  IN  IF ss = <<>> \/ p.err # "" THEN p
      ELSE parse_chunk(OnF(q, [q.f EXCEPT !.freereg = q.f.nactvar]), rest, until)

\* The prototype of the main function, or the compile-time error.
parse(program) ==
  LET p0 == [f |-> [FuncState(0) EXCEPT !.flags = {"VARARG"}], up |-> <<>>, vs |-> <<>>, act |-> <<>>,
             pend |-> 0, err |-> ""]
      q == fscope_begin(p0, {})
      p == parse_chunk(OnF(q, bcemit(q.f, AD("FUNCV", 0, 0))), program, FALSE)
      r == fs_finish(p)
  IN  IF p.err # "" THEN [err |-> p.err]
      ELSE IF r.p.err # "" THEN [err |-> r.p.err] ELSE [err |-> "", proto |-> r.proto]
=============================================================================
