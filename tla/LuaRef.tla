------------------------------- MODULE LuaRef -------------------------------
(***************************************************************************)
(* What a program means: a direct evaluator of the programs that the       *)
(* compiler takes, with variables as cells of a store, and no registers,   *)
(* stack, frames, upvalues or jumps.  It is the yardstick for compiled     *)
(* code and models nothing of the implementation.                          *)
(*                                                                         *)
(* A state st has the cells, the tables, the function values, the log of   *)
(* the host function out and, once an error is raised, its value in err.   *)
(* An environment maps the visible names to cells; "..." to the varargs.   *)
(***************************************************************************)
EXTENDS Bytecode, FiniteSets, FiniteSetsExt, SequencesExt

Ok(st) == st.err = <<>>
RErr(st, v) == IF Ok(st) THEN [st EXCEPT !.err = <<v>>] ELSE st
First(vs) == IF vs = <<>> THEN Nil ELSE vs[1]
Adjust(vs, n) == [i \in 1 .. n |-> IF i <= Len(vs) THEN vs[i] ELSE Nil]

\* Declare names with values: [st, env].
Bind(st, env, names, vs) ==
  [st |-> [st EXCEPT !.cells = @ \o Adjust(vs, Len(names))],
   env |-> FoldLeft(LAMBDA e, i : [e EXCEPT !.v = (names[i] :> (Len(st.cells) + i)) @@ @], env,
                    [i \in DOMAIN names |-> i])]

RawGet(st, t, k) == IF k \in DOMAIN st.tabs[t].map THEN st.tabs[t].map[k] ELSE Nil
RawSet(st, t, k, v) ==
  [st EXCEPT !.tabs[t].map = IF v = Nil THEN [x \in DOMAIN @ \ {k} |-> @[x]] ELSE (k :> v) @@ @]
Border(st, t) == CHOOSE n \in 0 .. Cardinality(DOMAIN st.tabs[t].map) :
                   (\A i \in 1 .. n : RawGet(st, t, Num(i)) # Nil) /\ RawGet(st, t, Num(n + 1)) = Nil
Meta(st, v, name) ==
  IF v[1] = "table" /\ st.tabs[v[2]].mt # 0 THEN RawGet(st, st.tabs[v[2]].mt, Str(name)) ELSE Nil
Callable(v) == v[1] \in {"lua", "cfun"}

RECURSIVE Apply(_, _, _)
RECURSIVE Ev(_, _, _)
RECURSIVE Exec(_, _, _)

Index(st0, o0, k) ==
  LET RECURSIVE Go(_, _)
      Go(o, n) ==
        LET h == Meta(st0, o, "__index")
            raw == IF o[1] = "table" THEN RawGet(st0, o[2], k) ELSE Nil
        IN  CASE raw # Nil -> [st |-> st0, vs |-> <<raw>>]
              [] h = Nil /\ o[1] = "table" -> [st |-> st0, vs |-> <<Nil>>]
              [] h = Nil -> [st |-> RErr(st0, Str("index")), vs |-> <<Nil>>]
              [] Callable(h) -> LET r == Apply(st0, h, <<o, k>>) IN [st |-> r.st, vs |-> <<First(r.vs)>>]
              [] OTHER -> Go(h, n - 1)
  IN  Go(o0, 3)

SetIndex(st0, o0, k, v) ==
  LET RECURSIVE Go(_, _)
      Go(o, n) ==
        LET h == Meta(st0, o, "__newindex")
        IN  CASE o[1] = "table" /\ (h = Nil \/ RawGet(st0, o[2], k) # Nil) ->
                   IF k = Nil THEN RErr(st0, Str("index is nil")) ELSE RawSet(st0, o[2], k, v)
              [] h = Nil -> RErr(st0, Str("index"))
              [] Callable(h) -> Apply(st0, h, <<o, k, v>>).st
              [] OTHER -> Go(h, n - 1)
  IN  Go(o0, 3)

\* Calls may be nested only so deep; the programs recurse less or for ever.
MAXDEPTH == 12

\* The library functions that run no program.  A list is the sequence of the
\* elements up to the border.
List(st, t) == [i \in 1 .. Border(st, t) |-> RawGet(st, t, Num(i))]
WithList(st, t, vs) ==
  LET others == {k \in DOMAIN st.tabs[t].map : ~(IsNum(k) /\ k[2] \in 1 .. Border(st, t))}
  IN  [st EXCEPT !.tabs[t].map = [k \in {Num(i) : i \in DOMAIN vs} |-> vs[k[2]]] @@ [k \in others |-> @[k]]]
Library(st, f, args) ==
  LET t == args[1][2]
      R(v) == [st |-> st, vs |-> <<v>>]
      nums == {args[i][2] : i \in DOMAIN args}
      list == List(st, t)
      pos == CASE Len(args) = 1 -> Len(list) [] f = "insert" -> IF Len(args) = 2 THEN Len(list) + 1 ELSE args[2][2]
               [] OTHER -> Min({args[2][2], Len(list)})
      Names == ("nil" :> "nil") @@ ("bool" :> "boolean") @@ ("num" :> "number") @@ ("str" :> "string")
            @@ ("table" :> "table") @@ ("lua" :> "function") @@ ("cfun" :> "function")
  IN  CASE f = "type" -> R(Str(Names[args[1][1]]))
        [] f = "rawget" -> R(RawGet(st, t, args[2]))
        [] f = "rawset" -> [st |-> RawSet(st, t, args[2], args[3]), vs |-> <<args[1]>>]
        [] f = "tonumber" -> R(IF IsNum(args[1]) THEN args[1] ELSE Nil)
        [] f = "abs" -> R(Num(IF args[1][2] < 0 THEN -args[1][2] ELSE args[1][2]))
        [] f = "min" -> R(Num(Min(nums)))
        [] f = "max" -> R(Num(Max(nums)))
        [] f = "insert" -> [st |-> WithList(st, t, InsertAt(list, pos, Last(args))), vs |-> <<>>]
        [] f = "remove" -> IF list = <<>> THEN R(Nil)
                           ELSE [st |-> WithList(st, t, RemoveAt(list, pos)), vs |-> <<list[pos]>>]

\* f called with args: [st, vs].
Apply(st, f, args) ==
  LET fn == st.fns[f[2]].fn
      b == Bind([st EXCEPT !.depth = @ + 1], [st.fns[f[2]].env EXCEPT !.va = <<SubSeq(args, Len(fn[2]) + 1, Len(args))>>], fn[2], args)
      argt == [b.st EXCEPT !.tabs = Append(@, [mt |-> 0, map |-> (Str("n") :> Num(Len(b.env.va[1]))) @@
                 [k \in {Num(i) : i \in {j \in DOMAIN b.env.va[1] : b.env.va[1][j] # Nil}} |-> b.env.va[1][k[2]]]])]
      c == IF fn[3] THEN Bind(argt, b.env, <<"arg">>, <<Table(Len(argt.tabs))>>) ELSE b
      r == Exec(c.st, c.env, fn[4])
      p == Apply(st, args[1], Tail(args))
      ks == SetToSeq(DOMAIN st.tabs[args[1][2]].map)
      i == IF Len(args) < 2 \/ args[2] = Nil THEN 0 ELSE CHOOSE j \in DOMAIN ks : ks[j] = args[2]
      h == Meta(st, f, "__call")
  IN  CASE ~Ok(st) -> [st |-> st, vs |-> <<>>]
        [] f[1] = "lua" /\ st.depth = MAXDEPTH -> [st |-> RErr(st, Str("stack overflow")), vs |-> <<>>]
        [] f[1] = "lua" -> [st |-> [r.st EXCEPT !.depth = st.depth], vs |-> IF r.sig[1] = "return" THEN r.sig[2] ELSE <<>>]
        [] f = CFun("out") -> [st |-> [st EXCEPT !.log = Append(@, First(args))], vs |-> args]
        [] f = CFun("error") -> [st |-> RErr(st, First(args)), vs |-> <<>>]
        [] f = CFun("pcall") ->
             IF Ok(p.st) THEN [st |-> p.st, vs |-> <<Bool(TRUE)>> \o p.vs]
             ELSE [st |-> [p.st EXCEPT !.err = <<>>], vs |-> <<Bool(FALSE), p.st.err[1]>>]
        [] f = CFun("setmetatable") ->
             IF Meta(st, args[1], "__metatable") # Nil THEN [st |-> RErr(st, Str("protected")), vs |-> <<>>]
             ELSE [st |-> [st EXCEPT !.tabs[args[1][2]].mt = args[2][2]], vs |-> <<args[1]>>]
        [] f = CFun("next") ->
             [st |-> st, vs |-> IF i = Len(ks) THEN <<Nil>> ELSE <<ks[i + 1], RawGet(st, args[1][2], ks[i + 1])>>]
        [] f[1] = "cfun" -> Library(st, f[2], args)
        [] h # Nil -> Apply(st, h, <<f>> \o args)
        [] OTHER -> [st |-> RErr(st, Str("call")), vs |-> <<>>]

\* The operators on values.
Binary(st, op, x, y) ==
  LET V(v) == [st |-> st, v |-> v]
      MM(name, err) ==
        LET h == IF Meta(st, x, name) # Nil THEN Meta(st, x, name) ELSE Meta(st, y, name)
            r == Apply(st, h, <<x, y>>)
        IN  IF h = Nil THEN [st |-> RErr(st, Str(err)), v |-> Nil] ELSE [st |-> r.st, v |-> First(r.vs)]
      Truth(r, neg) == [r EXCEPT !.v = Bool(Truthy(@) # neg)]
      num == IsNum(x) /\ IsNum(y)
      eqm == x # y /\ x[1] = "table" /\ y[1] = "table" /\ Meta(st, x, "__eq") # Nil
             /\ Meta(st, x, "__eq") = Meta(st, y, "__eq")
  IN  CASE op \in {"+", "-", "*", "%", "^"} /\ num ->
             V(Num(CASE op = "+" -> x[2] + y[2] [] op = "-" -> x[2] - y[2] [] op = "*" -> x[2] * y[2]
                     [] op = "%" -> x[2] % y[2] [] op = "^" -> x[2] ^ y[2]))
        [] op \in BitOps -> IF num THEN V(Num(Bits(op, x[2], y[2]))) ELSE [st |-> RErr(st, Str("arith")), v |-> Nil]
        [] op = "+" -> MM("__add", "arith")
        [] op \in {"-", "*", "%", "^"} -> MM("__sub", "arith")
        [] op = "==" -> IF eqm THEN Truth(MM("__eq", ""), FALSE) ELSE V(Bool(x = y))
        [] op = "~=" -> IF eqm THEN Truth(MM("__eq", ""), TRUE) ELSE V(Bool(x # y))
        [] op \in {"<", "<="} /\ num -> V(Bool(IF op = "<" THEN x[2] < y[2] ELSE x[2] <= y[2]))
        [] op = "<" /\ x[1] = y[1] -> Truth(MM("__lt", "compare"), FALSE)
        [] op = "<=" /\ x[1] = y[1] -> Truth(MM("__le", "compare"), FALSE)
        [] op \in {"<", "<="} -> [st |-> RErr(st, Str("compare")), v |-> Nil]
        [] op = ".." /\ {x[1], y[1]} \subseteq {"str", "num"} ->
             LET T(v) == IF IsNum(v) THEN ToString(v[2]) ELSE v[2] IN V(Str(T(x) \o T(y)))
        [] op = ".." -> MM("__concat", "concat")

\* Operator precedence by splitting at the operator that binds least: of
\* several equal ones the last, or the first where they associate to the
\* right.  A prefix operator binds tighter than all but ^.
Binds(op) == CASE op \in {"or", "??"} -> 1 [] op = "and" -> 2 [] op \in {"<", ">", "<=", ">=", "~=", "=="} -> 3
               [] op = "|" -> 4 [] op = "~" -> 5 [] op = "&" -> 6 [] op \in {"<<", ">>", "~>>"} -> 7
               [] op = ".." -> 8 [] op \in {"+", "-"} -> 9 [] op \in {"*", "%"} -> 10 [] op = "^" -> 12
PREFIX == 11

One(st, env, x) == LET r == Ev(st, env, x) IN [st |-> r.st, v |-> First(r.vs)]

RECURSIVE EvOps(_, _, _)
EvOps(st, env, toks) ==
  LET bin == {i \in DOMAIN toks : toks[i][1] = "op"}
      least == Min({Binds(toks[i][2]) : i \in bin})
      cands == {i \in bin : Binds(toks[i][2]) = least}
      at == IF least \in {8, 12} THEN Min(cands) ELSE Max(cands)
      op == toks[at][2]
      l == EvOps(st, env, SubSeq(toks, 1, at - 1))
      r == EvOps(l.st, env, SubSeq(toks, at + 1, Len(toks)))
      skip == CASE op = "and" -> ~Truthy(l.v) [] op = "or" -> Truthy(l.v) [] op = "??" -> l.v # Nil
                [] OTHER -> FALSE
      u == EvOps(st, env, Tail(toks))
      un == CASE toks[1][2] = "NOT" -> [st |-> u.st, v |-> Bool(~Truthy(u.v))]
              [] toks[1][2] = "UNM" -> IF IsNum(u.v) THEN [st |-> u.st, v |-> Num(-u.v[2])]
                                       ELSE [st |-> RErr(u.st, Str("arith")), v |-> Nil]
              [] toks[1][2] = "BNOT" -> IF IsNum(u.v) THEN [st |-> u.st, v |-> Num(BitNot(u.v[2]))]
                                        ELSE [st |-> RErr(u.st, Str("arith")), v |-> Nil]
              [] toks[1][2] = "LEN" -> IF u.v[1] = "table" /\ Meta(u.st, u.v, "__len") # Nil
                                       THEN LET c == Apply(u.st, Meta(u.st, u.v, "__len"), <<u.v, u.v>>) IN [st |-> c.st, v |-> First(c.vs)]
                                       ELSE IF u.v[1] = "table" THEN [st |-> u.st, v |-> Num(Border(u.st, u.v[2]))]
                                       ELSE IF u.v[1] = "str" THEN [st |-> u.st, v |-> Num(Len(u.v[2]))]
                                       ELSE [st |-> RErr(u.st, Str("len")), v |-> Nil]
  IN  CASE Len(toks) = 1 -> One(st, env, toks[1])
        [] toks[1][1] = "un" /\ (bin = {} \/ least > PREFIX) -> IF Ok(u.st) THEN un ELSE u
        [] ~Ok(l.st) \/ skip -> l
        [] ~Ok(r.st) \/ op \in {"and", "or", "??"} -> r
        [] op \in {">", ">="} -> Binary(r.st, IF op = ">" THEN "<" ELSE "<=", r.v, l.v)
        [] OTHER -> Binary(r.st, op, l.v, r.v)

\* Expressions in a list: the last one contributes all its values.
RECURSIVE EvList(_, _, _)
EvList(st, env, xs) ==
  LET r == Ev(st, env, xs[1])
      rest == EvList(r.st, env, Tail(xs))
  IN  IF xs = <<>> THEN [st |-> st, vs |-> <<>>]
      ELSE IF Len(xs) = 1 THEN r ELSE [st |-> rest.st, vs |-> <<First(r.vs)>> \o rest.vs]

Get(st, env, name) ==
  IF name \in DOMAIN env.v THEN [st |-> st, vs |-> <<st.cells[env.v[name]]>>] ELSE Index(st, Table(1), Str(name))

\* A primary expression up to suffix n; nil short-circuits safe navigation.
RECURSIVE EvPrim(_, _, _, _)
EvPrim(st, env, x, n) ==
  LET h == IF x[2][1] = "name" THEN Get(st, env, x[2][2])
           ELSE LET r == One(st, env, x[2][2]) IN [st |-> r.st, vs |-> <<r.v>>]
      b == EvPrim(st, env, x, n - 1)
      o == First(b.vs)
      s == x[3][n]
      k == One(b.st, env, s.e)
      mth == Index(b.st, o, Str(s.name))
      as == EvList(IF s.k = "meth" THEN mth.st ELSE b.st, env, s.args)
      out == [st |-> b.st, vs |-> <<Nil>>, out |-> TRUE]
      Val(r) == [st |-> r.st, vs |-> r.vs, out |-> FALSE]
  IN  CASE n = 0 -> Val(h)
        [] ~Ok(b.st) \/ b.out -> b
        [] s.nav /\ o = Nil -> out
        [] s.k = "fld" -> Val(Index(b.st, o, Str(s.name)))
        [] s.k = "idx" -> Val(IF Ok(k.st) THEN Index(k.st, o, k.v) ELSE [st |-> k.st, vs |-> <<>>])
        [] s.k = "meth" /\ ~Ok(mth.st) -> Val(mth)
        [] s.k = "meth" /\ s.nav2 /\ First(mth.vs) = Nil -> [out EXCEPT !.st = mth.st]
        [] s.k = "meth" -> Val(Apply(as.st, First(mth.vs), <<o>> \o as.vs))
        [] s.k = "call" -> Val(Apply(as.st, o, as.vs))

EvTable(st, env, items) ==
  LET t == Len(st.tabs) + 1
      Item(a, i) ==
        LET x == items[i]
            k == CASE x[1] = "keyed" -> One(a.st, env, x[2]) [] x[1] = "named" -> [st |-> a.st, v |-> Str(x[2])]
                   [] x[1] = "pos" -> [st |-> a.st, v |-> Num(a.n)]
            r == Ev(k.st, env, x[Len(x)])
            vs == IF x[1] = "pos" /\ i = Len(items) THEN r.vs ELSE <<First(r.vs)>>
            put == FoldLeft(LAMBDA s, j : RawSet(s, t, IF x[1] = "pos" THEN Num(a.n + j - 1) ELSE k.v, vs[j]),
                            r.st, [j \in DOMAIN vs |-> j])
        IN  IF ~Ok(a.st) THEN a ELSE [st |-> IF Ok(r.st) THEN put ELSE r.st, n |-> IF x[1] = "pos" THEN a.n + 1 ELSE a.n]
  IN  [st |-> FoldLeft(Item, [st |-> [st EXCEPT !.tabs = Append(@, [mt |-> 0, map |-> <<>>])], n |-> 1],
                       [i \in DOMAIN items |-> i]).st,
       vs |-> <<Table(t)>>]

Ev(st, env, x) ==
  LET r == EvOps(st, env, x[2])
      c == One(st, env, x[2])
      p == EvPrim(st, env, x, Len(x[3]))
      call == x[3] # <<>> /\ Last(x[3]).k \in {"call", "meth"}
  IN  CASE ~Ok(st) -> [st |-> st, vs |-> <<>>]
        [] x[1] \in {"num", "str"} -> [st |-> st, vs |-> <<x>>]
        [] x[1] = "nil" -> [st |-> st, vs |-> <<Nil>>]
        [] x[1] \in {"true", "false"} -> [st |-> st, vs |-> <<Bool(x[1] = "true")>>]
        [] x[1] = "dots" -> [st |-> st, vs |-> env.va[1]]
        [] x[1] = "fn" -> [st |-> [st EXCEPT !.fns = Append(@, [fn |-> x, env |-> env])], vs |-> <<Lua(Len(st.fns) + 1)>>]
        [] x[1] = "tab" -> EvTable(st, env, x[2])
        [] x[1] = "ops" -> [st |-> r.st, vs |-> <<r.v>>]
        [] x[1] = "cond" -> LET b == One(c.st, env, IF Truthy(c.v) THEN x[3] ELSE x[4])
                            IN  [st |-> b.st, vs |-> <<b.v>>]
        [] x[1] = "prim" -> [st |-> p.st, vs |-> IF call /\ ~p.out THEN p.vs ELSE <<First(p.vs)>>]

---------------------------------------------------------------------------
(* Statements: [st, env, sig], sig how the statement ends.                *)

NEXT == <<"next">>

\* An assignment target: <<"cell", c>>, <<"slot", table, key>>, or <<"none">>
\* where safe navigation meets nil: then the statement has no effect.
Target(st, env, x) ==
  LET n == Len(x[3])
      b == EvPrim(st, env, x, n - 1)
      k == IF x[3][n].k = "fld" THEN [st |-> b.st, v |-> Str(x[3][n].name)] ELSE One(b.st, env, x[3][n].e)
  IN  IF n = 0 THEN [st |-> st, t |-> IF x[2][2] \in DOMAIN env.v THEN <<"cell", env.v[x[2][2]]>>
                                      ELSE <<"slot", Table(1), Str(x[2][2])>>]
      ELSE IF b.out \/ (x[3][n].nav /\ First(b.vs) = Nil) THEN [st |-> b.st, t |-> <<"none">>]
      ELSE [st |-> k.st, t |-> <<"slot", First(b.vs), k.v>>]
SetTarget(st, t, v) ==
  IF ~Ok(st) THEN st ELSE IF t[1] = "cell" THEN [st EXCEPT !.cells[t[2]] = v] ELSE SetIndex(st, t[2], t[3], v)

Assign(st, env, lhs, es) ==
  LET ts == FoldLeft(LAMBDA a, x : LET r == Target(a.st, env, x) IN [st |-> r.st, t |-> Append(a.t, r.t)],
                     [st |-> st, t |-> <<>>], lhs)
      r == EvList(ts.st, env, es)
      vs == Adjust(r.vs, Len(lhs))
  IN  IF ts.t[1] = <<"none">> THEN ts.st
      ELSE FoldLeft(LAMBDA s, i : SetTarget(s, ts.t[i], vs[i]), r.st, Reverse([i \in DOMAIN lhs |-> i]))

Compound(st, env, x, op, e) ==
  LET t == Target(st, env, x)
      old == IF t.t[1] = "cell" THEN [st |-> t.st, vs |-> <<t.st.cells[t.t[2]]>>] ELSE Index(t.st, t.t[2], t.t[3])
      r == One(old.st, env, e)
      v == Binary(r.st, op, First(old.vs), r.v)
  IN  IF t.t = <<"none">> THEN t.st ELSE IF Ok(r.st) THEN SetTarget(v.st, t.t, v.v) ELSE r.st

\* Loops: run body (env as at its start) until it asks to stop.
Leaves(sig) == sig[1] \in {"break", "return", "goto"}
RECURSIVE While(_, _, _, _)
While(st, env, c, body) ==
  LET r == One(st, env, c)
      b == Exec(r.st, env, body)
  IN  IF ~Ok(r.st) \/ ~Truthy(r.v) THEN [st |-> r.st, sig |-> NEXT]
      ELSE IF Leaves(b.sig) \/ ~Ok(b.st) THEN b ELSE While(b.st, env, c, body)

RECURSIVE Repeat(_, _, _, _)
Repeat(st, env, body, c) ==
  LET b == Exec(st, env, body)
      r == One(b.st, b.env, c)
  IN  IF Leaves(b.sig) \/ ~Ok(b.st) THEN b
      ELSE IF ~Ok(r.st) \/ Truthy(r.v) THEN [st |-> r.st, sig |-> NEXT] ELSE Repeat(r.st, env, body, c)

RECURSIVE ForNum(_, _, _, _, _, _, _)
ForNum(st, env, name, i, stop, step, body) ==
  LET d == Bind(st, env, <<name>>, <<Num(i)>>)
      b == Exec(d.st, d.env, body)
  IN  IF (IF step >= 0 THEN i > stop ELSE i < stop) THEN [st |-> st, sig |-> NEXT]
      ELSE IF Leaves(b.sig) \/ ~Ok(b.st) THEN b ELSE ForNum(b.st, env, name, i + step, stop, step, body)

RECURSIVE ForIn(_, _, _, _, _, _, _)
ForIn(st, env, names, f, s, ctl, body) ==
  LET r == Apply(st, f, <<s, ctl>>)
      d == Bind(r.st, env, names, r.vs)
      b == Exec(d.st, d.env, body)
  IN  IF ~Ok(r.st) \/ First(r.vs) = Nil THEN [st |-> r.st, sig |-> NEXT]
      ELSE IF Leaves(b.sig) \/ ~Ok(b.st) THEN b ELSE ForIn(b.st, env, names, f, s, First(r.vs), body)

Loop1(r) == [st |-> r.st, sig |-> IF r.sig[1] = "break" THEN NEXT ELSE r.sig]

RECURSIVE IfChain(_, _, _, _)
IfChain(st, env, cs, els) ==
  LET c == One(st, env, cs[1][1])
      b == Exec(c.st, env, cs[1][2])
      e == Exec(st, env, els[1])
  IN  CASE cs = <<>> -> IF els = <<>> THEN [st |-> st, sig |-> NEXT] ELSE [st |-> e.st, sig |-> e.sig]
        [] ~Ok(c.st) -> [st |-> c.st, sig |-> NEXT]
        [] Truthy(c.v) -> [st |-> b.st, sig |-> b.sig]
        [] OTHER -> IfChain(c.st, env, Tail(cs), els)

Stmt(st, env, s) ==
  LET S(x) == [st |-> x, env |-> env, sig |-> NEXT]
      L(r) == [st |-> r.st, env |-> env, sig |-> r.sig]
      \* A recursive local sees itself.
      self == Bind(st, env, <<s[2]>>, <<Nil>>)
      fn == Ev(self.st, self.env, s[3])
      init == EvList(st, env, s[3])
      dec == Bind(init.st, env, s[2], init.vs)
      r == EvList(st, env, s[2])
      d == Exec(st, env, s[2])
      es == EvList(st, env, <<s[3], s[4]>> \o s[5])
      it == EvList(st, env, s[3])
      fb == Ev(st, env, <<"fn", (IF s[4] THEN <<"self">> ELSE <<>>) \o s[5][2], s[5][3], s[5][4]>>)
      fsuf == [i \in DOMAIN s[3] |-> [k |-> "fld", nav |-> FALSE, nav2 |-> FALSE, name |-> s[3][i]]]
  IN  CASE s[1] \in {"local", "const"} -> [st |-> dec.st, env |-> dec.env, sig |-> NEXT]
        [] s[1] = "localfn" -> [st |-> [fn.st EXCEPT !.cells[self.env.v[s[2]]] = fn.vs[1]], env |-> self.env, sig |-> NEXT]
        [] s[1] = "func" -> LET t == Target(st, env, <<"prim", <<"name", s[2]>>, fsuf>>)
                            IN  S(SetTarget(fb.st, t.t, fb.vs[1]))
        [] s[1] = "set" -> S(Assign(st, env, s[2], s[3]))
        [] s[1] = "compound" -> S(Compound(st, env, s[2], s[3], s[4]))
        [] s[1] = "call" -> S(Ev(st, env, s[2]).st)
        [] s[1] = "do" -> L(d)
        [] s[1] = "if" -> L(IfChain(st, env, s[2], s[3]))
        [] s[1] = "while" -> L(Loop1(While(st, env, s[2], s[3])))
        [] s[1] = "repeat" -> L(Loop1(Repeat(st, env, s[2], s[3])))
        [] s[1] = "fornum" ->
             IF Ok(es.st) THEN L(Loop1(ForNum(es.st, env, s[2], es.vs[1][2], es.vs[2][2],
                                              IF s[5] = <<>> THEN 1 ELSE es.vs[3][2], s[6]))) ELSE S(es.st)
        [] s[1] = "forin" ->
             LET t == Adjust(it.vs, 3) IN L(Loop1(ForIn(it.st, env, s[2], t[1], t[2], t[3], s[4])))
        [] s[1] = "return" -> [st |-> r.st, env |-> env, sig |-> <<"return", r.vs>>]
        [] s[1] \in {"break", "continue"} -> [st |-> st, env |-> env, sig |-> <<s[1]>>]
        [] s[1] = "goto" -> [st |-> st, env |-> env, sig |-> <<"goto", s[2]>>]

\* A block from statement i on; marks are the environments at the labels met.
RECURSIVE Block(_, _, _, _, _)
Block(st, env, ss, i, marks) ==
  LET r == Stmt(st, env, ss[i])
      Labels == {j \in DOMAIN ss : ss[j] = <<"label", r.sig[2]>>}
      j == CHOOSE x \in Labels : TRUE
  IN  CASE i > Len(ss) \/ ~Ok(st) -> [st |-> st, env |-> env, sig |-> NEXT]
        [] ss[i][1] = "label" -> Block(st, env, ss, i + 1, (ss[i][2] :> env) @@ marks)
        [] r.sig = NEXT -> Block(r.st, r.env, ss, i + 1, marks)
        [] r.sig[1] = "goto" /\ Labels # {} ->
             Block(r.st, IF ss[j][2] \in DOMAIN marks THEN marks[ss[j][2]] ELSE env, ss, j, marks)
        [] OTHER -> r

Exec(st, env, ss) ==
  LET NOMARK == ("" :> [v |-> "" :> 0, va |-> <<>>]) IN Block(st, env, ss, 1, NOMARK)

\* What is visible of a value outside.
Shape(v) == IF v[1] \in {"table", "lua", "cfun"} THEN <<v[1]>> ELSE v
Shapes(vs) == [i \in DOMAIN vs |-> Shape(vs[i])]

Known == {"out", "error", "pcall", "setmetatable", "next", "type", "rawget", "rawset", "tonumber", "abs", "min", "max",
          "insert", "remove"}

\* The log and the outcome of a program.
Meaning(program) ==
  LET G == [k \in {Str(f) : f \in Known} |-> CFun(k[2])]
      st == [cells |-> <<>>, tabs |-> <<[mt |-> 0, map |-> G]>>, fns |-> <<>>, log |-> <<>>, err |-> <<>>, depth |-> 0]
      r == Exec(st, [v |-> "" :> 0, va |-> <<<<>>>>], program)
  IN  [log |-> Shapes(r.st.log),
       res |-> IF ~Ok(r.st) THEN <<"error", Shape(r.st.err[1])>>
               ELSE <<"ok", IF r.sig[1] = "return" THEN Shapes(r.sig[2]) ELSE <<>>>>]
=============================================================================
