--------------------------------- MODULE Vm ---------------------------------
(***************************************************************************)
(* The bytecode interpreter (vm/mod.rs, vm/meta.rs): one stack shared by   *)
(* all frames, frame links in the slot below each base, open upvalues that *)
(* point into the stack, metamethods entered through continuation frames,  *)
(* and C functions that run the interpreter again.                         *)
(*                                                                         *)
(* m.stack   the slots; a value, or the link of the frame that starts in   *)
(*           the next slot: <<"ret", p, pc>> (return into prototype p),    *)
(*           <<"varg", n>>, <<"cont", n>> (distance to the frame below),   *)
(*           <<"c", want>> (entered from C)                                *)
(* m.base, m.pc, m.cl, m.multres   the fields of Interp                    *)
(* m.top, m.ftop   l.top and l.frame_top, what the collector scans         *)
(* m.openuv, m.uv, m.clos, m.tabs  open upvalues, upvalue cells, closures, *)
(*           tables                                                        *)
(* m.code    the prototypes; the main function is the first                *)
(* m.prog    the program, for the properties only                          *)
(* m.host    the C frames that wait for something, innermost last          *)
(* m.hand    what the interpreter handed to C and not taken back yet: a    *)
(*           function to call, the results of one, an error                *)
(* m.log     what the program handed to the host function out              *)
(* m.left    upvalues an error left open on the frames it unwound; kept    *)
(*           for the properties only                                       *)
(* m.invalidate_all   whether compiled traces may be wrong                 *)
(* m.res     how the program ended                                         *)
(*                                                                         *)
(* Numbers are integers, cdata and the hot-counting and trace variants of  *)
(* an instruction are left out; so are debug hooks and the wording of      *)
(* error messages.                                                         *)
(***************************************************************************)
EXTENDS Bytecode, FiniteSets, FiniteSetsExt, SequencesExt

CONSTANTS Families,    \* families of programs
          Programs(_), \* those of a family: their prototypes code, and their meaning
          MaxStack     \* max_stack

VARIABLE m

vars == m

GLOBALS == 1
LJ_MAX_IDXCHAIN == 5   \* 100 in the source

PtOf(s, fid) == s.code[s.clos[fid].proto]
proto(s) == PtOf(s, s.cl)
at(s, i) == s.stack[i]
set_at(s, i, v) == [s EXCEPT !.stack[i] = v]
set_seq(s, i, vs) ==
  [s EXCEPT !.stack = [j \in i .. (i + Len(vs) - 1) |-> vs[j - i + 1]] @@ @]
clear(s, from, to) == [s EXCEPT !.stack = [j \in from .. (to - 1) |-> Nil] @@ @]
slots(s, i, n) == [j \in 1 .. n |-> s.stack[i + j - 1]]
reg(s, r) == at(s, s.base + r)
set_reg(s, r, v) == set_at(s, s.base + r, v)
jump(s, ins) == [s EXCEPT !.pc = @ + ins.d]
\* A comparison is fused with the jump behind it.
branch(s, cond) ==
  LET jmp == proto(s).bc[s.pc + 1]
      n == [s EXCEPT !.pc = @ + 1]
  IN  IF cond THEN jump(n, jmp) ELSE n

---------------------------------------------------------------------------
(* Tables. *)

tget(s, t, k) == IF k \in DOMAIN s.tabs[t].map THEN s.tabs[t].map[k] ELSE Nil
tset(s, t, k, v) ==
  [s EXCEPT !.tabs[t].map = IF v = Nil THEN [x \in DOMAIN @ \ {k} |-> @[x]] ELSE (k :> v) @@ @]
tlen(s, t) == CHOOSE n \in 0 .. Cardinality(DOMAIN s.tabs[t].map) :
                /\ \A i \in 1 .. n : Num(i) \in DOMAIN s.tabs[t].map
                /\ Num(n + 1) \notin DOMAIN s.tabs[t].map
alloc_table(s, map, asize) == [s EXCEPT !.tabs = Append(@, [map |-> map, mt |-> 0, asize |-> asize])]

metatable_of(s, v) == IF v[1] = "table" THEN s.tabs[v[2]].mt ELSE 0
meta_lookup(s, v, mm) ==
  LET mt == metatable_of(s, v) IN IF mt = 0 THEN Nil ELSE tget(s, mt, Str(mm))
is_func(v) == v[1] \in {"lua", "cfun"}

---------------------------------------------------------------------------
(* Upvalues and closures. *)

upval_get(s, u) == IF s.uv[u].open THEN at(s, s.uv[u].slot) ELSE s.uv[u].val
upval_set(s, u, v) == IF s.uv[u].open THEN set_at(s, s.uv[u].slot, v) ELSE [s EXCEPT !.uv[u].val = v]

UpvalsFrom_Above(s, level) == {u \in s.openuv : s.uv[u].slot > level}
UpvalsFrom(s, level) == {u \in s.openuv : s.uv[u].slot >= level}

close_upvals(s, level) ==
  LET Closing == UpvalsFrom(s, level)
  IN  [s EXCEPT !.openuv = @ \ Closing,
                !.uv = [u \in DOMAIN @ |-> IF u \in Closing
                                           THEN [@[u] EXCEPT !.open = FALSE, !.slot = 0, !.val = at(s, s.uv[u].slot)]
                                           ELSE @[u]]]

\* The open upvalue of a slot, made when there is none.
find_upval(s, slot) ==
  IF \E u \in s.openuv : s.uv[u].slot = slot THEN s
  ELSE [s EXCEPT !.uv = Append(@, [open |-> TRUE, slot |-> slot, val |-> Nil, imm |-> FALSE]),
                 !.openuv = @ \cup {Len(s.uv) + 1}]

new_closure(s, p) ==
  LET uvs == s.code[p].uv
      Add(r, i) ==
        IF uvs[i][1] = "local"
        THEN LET t == find_upval(r.s, s.base + uvs[i][2])
                 u == CHOOSE x \in t.openuv : t.uv[x].slot = s.base + uvs[i][2]
             IN  [s |-> [t EXCEPT !.uv[u].imm = @ \/ uvs[i][3]], up |-> Append(r.up, u)]
        ELSE [s |-> r.s, up |-> Append(r.up, s.clos[s.cl].up[uvs[i][2]])]
      r == FoldLeft(Add, [s |-> s, up |-> <<>>], [i \in DOMAIN uvs |-> i])
  IN  [r.s EXCEPT !.clos = Append(@, [proto |-> p, up |-> r.up])]

---------------------------------------------------------------------------
(* Frames. *)

\* The collector scans the registers of the frame that is entered or
\* continued.
FrameTop_Stale(s, top) == s
FrameTop(s, top) == [s EXCEPT !.top = top, !.ftop = top]

\* Enter a Lua function at func_slot: a vararg function copies its fixed
\* parameters above the arguments and chains a second frame to the first.
enter_lua(s, fid, fs, nargs, link) ==
  LET pt == PtOf(s, fid)
      np == pt.numparams
      cb == fs + 2
      nb == cb + nargs + 2
      nvar == IF nargs > np THEN nargs - np ELSE 0
      linked == set_at(s, cb - 1, link)
      fixed == set_seq(linked, nb - 2,
                       <<Lua(fid), <<"varg", nargs + 2>>>> \o
                       [i \in 1 .. np |-> IF i <= nargs THEN at(s, cb + i - 1) ELSE Nil])
      argmap == [k \in {Num(i) : i \in {j \in 1 .. nvar : at(s, cb + np + j - 1) # Nil}} |->
                   at(s, cb + np + k[2] - 1)] @@ (Str("n") :> Num(nvar))
      arg == IF pt.needsarg
             THEN set_at(alloc_table(fixed, argmap, 0), nb + np, Table(Len(s.tabs) + 1))
             ELSE set_at(fixed, nb + np, Nil)
      plain == clear(linked, cb + nargs, cb + np)
      base == IF pt.vararg THEN nb ELSE cb
  IN  FrameTop([IF pt.vararg THEN arg ELSE plain EXCEPT !.base = base, !.cl = fid, !.pc = 1],
               base + pt.framesize)

\* __call: the callee becomes the first argument.  The result has the
\* function in place, or no function at all.
RECURSIVE resolve_callable(_, _, _)
resolve_callable(s, v, n) ==
  LET mo == meta_lookup(s, v, "__call")
  IN  IF is_func(mo) \/ mo = Nil THEN mo ELSE IF n = 0 THEN Nil ELSE resolve_callable(s, mo, n - 1)

meta_call(s, fs, nargs) ==
  LET mo == resolve_callable(s, at(s, fs), 3)
  IN  set_at(set_seq(s, fs + 2, <<at(s, fs)>> \o slots(s, fs + 2, nargs)), fs, mo)

\* A continuation frame above the running one, entering a Lua metamethod.
mmcall_cont(s, cont, mo, args) ==
  LET fs == s.base + proto(s).framesize + 2
  IN  enter_lua(set_seq(set_seq(s, fs - 2, <<<<"cont id", cont>>, <<"pc", s.pc>>, mo>>), fs + 2, args),
                mo[2], fs, Len(args), <<"cont", fs + 2 - s.base>>)

\* What the continuation does with the result of its metamethod.
Continue(s, cont, v) ==
  CASE cont[1] = "Ra" -> set_reg(s, cont[2], v)
    [] cont[1] = "Nop" -> s
    [] cont[1] = "Condt" -> branch(s, Truthy(v))
    [] cont[1] = "Condf" -> branch(s, ~Truthy(v))

cont_dispatch(s, mmbase, link, n) ==
  LET cb == mmbase - link[2]
      t == [s EXCEPT !.base = cb, !.cl = at(s, cb - 2)[2], !.pc = at(s, mmbase - 3)[2]]
  IN  Continue(FrameTop(t, cb + proto(t).framesize), at(s, mmbase - 4)[2],
               IF n > 0 THEN at(s, mmbase - 2) ELSE Nil)

\* The frame that holds the real link below vararg frames.
RECURSIVE RealBase(_, _)
RealBase(s, base) ==
  IF at(s, base - 1)[1] = "varg" THEN RealBase(s, base - at(s, base - 1)[2]) ELSE base

\* Into C: results, an error, or a call of the C function f with the nargs
\* arguments above fs.
Deliver(s, rs) == [s EXCEPT !.hand = <<"results", rs>>]
Raise(s, v) == [s EXCEPT !.hand = <<"error", v>>]
call_c(s, f, fs, nargs) == [s EXCEPT !.hand = <<"call", f, fs, nargs>>]

\* n results at src go to the function slot of the frame, and the caller
\* continues; slots of the callee that die are cleared.
do_return(s0, src, n) ==
  LET s == close_upvals(s0, s0.base)
      base == RealBase(s, s.base)
      link == at(s, base - 1)
      dst == base - 2
      moved == [set_seq(s, dst, slots(s, src, n)) EXCEPT !.multres = n]
      \* Into C.
      got == IF link[2] >= 0 THEN link[2] ELSE n
      cfill == clear(moved, dst + n, dst + got)
      keepc == Min({dst + got, s.top})
      toc == [clear(cfill, Min({Max({dst + 2, keepc}), s.top}), s.top) EXCEPT !.top = dst + got]
      \* Into Lua: the call instruction tells the base and what is wanted.
      call == s.code[link[2]].bc[link[3]]
      cb == dst - call.a
      want == call.b - 1
      keep == dst + (IF want >= 0 THEN want ELSE n)
      from == Max({dst + 2, keep})
      fill == clear(clear(moved, dst + n, keep), from, Max({dst + 2 + proto(s).framesize, from}))
      t == [fill EXCEPT !.base = cb, !.cl = at(s, cb - 2)[2], !.pc = link[3]]
  IN  CASE link[1] = "cont" -> cont_dispatch(moved, base, link, n)
        [] link[1] = "c" -> Deliver(toc, slots(toc, dst, got))
        [] link[1] = "ret" -> [t EXCEPT !.top = keep, !.ftop = cb + proto(t).framesize]

\* The fast return: a plain caller and no open upvalue at all.
ret_fast_n(s) == s.openuv = {} /\ at(s, RealBase(s, s.base) - 1)[1] = "ret"

Return(s, src, n) ==
  LET base == RealBase(s, s.base)
      link == at(s, base - 1)
      dst == base - 2
      call == s.code[link[2]].bc[link[3]]
      cb == dst - call.a
      want == call.b - 1
      moved == clear(set_seq(s, dst, slots(s, src, n)), dst + n, dst + want)
      t == [moved EXCEPT !.base = cb, !.cl = at(s, cb - 2)[2], !.pc = link[3], !.multres = n]
  IN  IF ret_fast_n(s)
      THEN [t EXCEPT !.ftop = cb + proto(t).framesize, !.top = dst + (IF want >= 0 THEN want ELSE n)]
      ELSE do_return(s, src, n)

---------------------------------------------------------------------------
(* C frames.  "call" and "tail" wait for the results of a C function the   *)
(* interpreter called, "mm" for those of a C metamethod, "pcall" for the   *)
(* protected function, "run" is where a nested interpreter was entered,    *)
(* "cat" a concatenation that waits for __concat.                          *)

Push(s, h) == [s EXCEPT !.host = Append(@, h)]
Pop(s) == [s EXCEPT !.host = Front(@)]
Restore(s, h) == [s EXCEPT !.base = h.base, !.top = h.top, !.ftop = h.ftop, !.cl = h.cl, !.pc = h.pc]
Waiting(s, k, slot, x) ==
  [k |-> k, slot |-> slot, x |-> x, base |-> s.base, top |-> s.top, ftop |-> s.ftop, cl |-> s.cl, pc |-> s.pc]

\* execute_inner: call whatever is at fs from C.
execute_inner(s, fs, nargs, want) ==
  LET f == at(s, fs)
      c == meta_call(s, fs, nargs)
      Enter(t, n) ==
        IF at(t, fs)[1] = "cfun" THEN call_c(t, at(t, fs)[2], fs, n)
        ELSE enter_lua(Push(t, Waiting(t, "run", fs, want)), at(t, fs)[2], fs, n, <<"c", want>>)
  IN  IF is_func(f) THEN Enter(s, nargs)
      ELSE IF is_func(at(c, fs)) THEN Enter(c, nargs + 1) ELSE Raise(s, Str("call"))

\* lib_pcall: the function sits where its first argument is.
lib_pcall(s, fs, nargs) ==
  LET b == fs + 2
      t == set_seq(s, b + 2, slots(s, b + 1, nargs - 1))
  IN  execute_inner([Push(t, Waiting(s, "pcall", fs, 0)) EXCEPT !.base = b, !.top = b + nargs],
                    b, nargs - 1, -1)

\* A table whose metatable gets or loses __newindex: traces made before may
\* be wrong, and are flushed later.
HasNewindex(s, mt) == mt # 0 /\ tget(s, mt, Str("__newindex")) # Nil
lib_setmetatable(s, args) ==
  LET t == args[1][2]
      mt == IF args[2] = Nil THEN 0 ELSE args[2][2]
      n == [s EXCEPT !.tabs[t].mt = mt, !.invalidate_all = @ \/ HasNewindex(s, s.tabs[t].mt) # HasNewindex(s, mt)]
  IN  IF meta_lookup(s, args[1], "__metatable") # Nil THEN Raise(s, Str("protected")) ELSE Deliver(n, <<args[1]>>)

\* The traversal: the array part, then the other keys in some fixed order.
KeySeq(s, t) ==
  LET keys == DOMAIN s.tabs[t].map
      arr == {i \in 1 .. (s.tabs[t].asize - 1) : Num(i) \in keys}
      inorder == SetToSortSeq(arr, <)
  IN  [i \in DOMAIN inorder |-> Num(inorder[i])] \o SetToSeq(keys \ {Num(i) : i \in arr})
lib_next(s, args) ==
  LET ks == KeySeq(s, args[1][2])
      i == IF Len(args) < 2 \/ args[2] = Nil THEN 0 ELSE CHOOSE j \in DOMAIN ks : ks[j] = args[2]
  IN  IF i = Len(ks) THEN <<Nil>> ELSE <<ks[i + 1], tget(s, args[1][2], ks[i + 1])>>

lib_type(v) ==
  Str(CASE v[1] \in {"lua", "cfun"} -> "function" [] IsNum(v) -> "number" [] v[1] = "str" -> "string"
        [] v[1] = "bool" -> "boolean" [] OTHER -> v[1])

\* table.insert and table.remove: the elements behind the position move by
\* one, without metamethods.
tab_insert(s, args) ==
  LET t == args[1][2]
      n == tlen(s, t)
      pos == IF Len(args) = 2 THEN n + 1 ELSE args[2][2]
      Up(x, j) == tset(x, t, Num(n + 2 - j), tget(x, t, Num(n + 1 - j)))
  IN  tset(FoldLeft(Up, s, [j \in 1 .. (n + 1 - pos) |-> j]), t, Num(pos), Last(args))
tab_remove(s, args) ==
  LET t == args[1][2]
      n == tlen(s, t)
      pos == IF Len(args) = 1 THEN n ELSE Min({args[2][2], n})
      Down(x, j) == tset(x, t, Num(pos + j - 1), tget(x, t, Num(pos + j)))
  IN  IF n = 0 THEN s ELSE tset(FoldLeft(Down, s, [j \in 1 .. (n - pos) |-> j]), t, Num(n), Nil)
Removed(s, args) ==
  LET n == tlen(s, args[1][2]) IN tget(s, args[1][2], Num(IF Len(args) = 1 THEN n ELSE Min({args[2][2], n})))

lib_math(f, args) ==
  LET vs == {args[i][2] : i \in DOMAIN args}
  IN  Num(CASE f = "abs" -> Max({args[1][2], -args[1][2]}) [] f = "min" -> Min(vs) [] f = "max" -> Max(vs))

---------------------------------------------------------------------------
(* Calls from Lua. *)

\* A Lua function, unless the stack would grow too large.
call_lua_fast(s, f, fs, n) ==
  LET pt == PtOf(s, f[2])
      need == fs + 2 + pt.framesize + 8 + (IF pt.vararg THEN n + 2 ELSE 0)
  IN  IF need > MaxStack THEN Raise(s, Str("stack overflow"))
      ELSE enter_lua(s, f[2], fs, n, <<"ret", s.clos[s.cl].proto, s.pc>>)

\* A C function, whose results the calling frame waits for.
call_c_inline(s, f, fs, n, want) == call_c(Push(s, Waiting(s, "call", fs, want)), f[2], fs, n)

\* Anything else is called through __call.
do_call(s, a, nargs, want) ==
  LET fs == s.base + a
      c == meta_call(s, fs, nargs)
      t == IF is_func(at(s, fs)) THEN s ELSE c
      n == IF is_func(at(s, fs)) THEN nargs ELSE nargs + 1
      f == at(t, fs)
  IN  CASE f[1] = "lua" -> call_lua_fast(t, f, fs, n)
        [] f[1] = "cfun" -> call_c_inline(t, f, fs, n, want)
        [] OTHER -> Raise(s, Str("call"))

Takeover_Args(s, base, f, args) == set_seq(s, base, args)
Takeover(s, base, f, args) == set_at(set_seq(s, base, args), base - 2, f)

\* The callee takes over the frame; a vararg frame is dropped first.
do_tailcall(s, a, nargs) ==
  LET fs == s.base + a
      c == meta_call(s, fs, nargs)
      t == IF is_func(at(s, fs)) THEN s ELSE c
      n == IF is_func(at(s, fs)) THEN nargs ELSE nargs + 1
      f == at(t, fs)
      base == IF at(s, s.base - 1)[1] = "varg" THEN s.base - at(s, s.base - 1)[2] ELSE s.base
      moved == Takeover(t, base, f, slots(t, fs + 2, n))
      e == enter_lua(moved, f[2], base - 2, n, at(s, base - 1))
      fast == ~PtOf(t, f[2]).vararg /\ at(s, s.base - 1)[1] # "varg"
  IN  CASE f[1] = "lua" -> IF fast \/ PtOf(t, f[2]).vararg THEN e ELSE [e EXCEPT !.ftop = s.ftop]
        [] f[1] = "cfun" -> call_c(Push(t, Waiting(t, "tail", fs, 0)), f[2], fs, n)
        [] OTHER -> Raise(s, Str("call"))

---------------------------------------------------------------------------
(* Metamethods (vm/meta.rs). *)

\* Call the metamethod mo: a Lua one through a continuation frame, a C one at
\* once, anything else through its own __call with itself as first argument.
CallMM(s, cont, mo, args) ==
  LET mo2 == IF is_func(mo) THEN mo ELSE resolve_callable(s, mo, 3)
      as == IF is_func(mo) THEN args ELSE <<mo>> \o args
      fs == s.base + proto(s).framesize
      placed == set_seq(set_seq(s, fs, <<mo2, Nil>>), fs + 2, as)
  IN  CASE mo2[1] = "lua" -> mmcall_cont(s, cont, mo2, as)
        [] mo2[1] = "cfun" -> call_c(Push(placed, Waiting(s, "mm", fs, cont)), mo2[2], fs, Len(as))
        [] OTHER -> Raise(s, Str("mm"))

RECURSIVE IndexChain(_, _, _, _, _)
IndexChain(s, o, k, a, n) ==
  LET mo == meta_lookup(s, o, "__index")
      tv == IF o[1] = "table" THEN tget(s, o[2], k) ELSE Nil
  IN  CASE n = 0 -> Raise(s, Str("loop"))
        [] tv # Nil -> set_reg(s, a, tv)
        [] mo = Nil /\ o[1] = "table" -> set_reg(s, a, Nil)
        [] mo = Nil -> Raise(s, Str("index"))
        [] is_func(mo) -> CallMM(s, <<"Ra", a>>, mo, <<o, k>>)
        [] OTHER -> IndexChain(s, mo, k, a, n - 1)
meta_tget(s, o, k, a) == IndexChain(s, o, k, a, LJ_MAX_IDXCHAIN)

RECURSIVE NewindexChain(_, _, _, _, _)
NewindexChain(s, o, k, v, n) ==
  LET mo == meta_lookup(s, o, "__newindex")
      tab == o[1] = "table"
      present == tab /\ tget(s, o[2], k) # Nil
  IN  CASE n = 0 -> Raise(s, Str("loop"))
        [] present -> tset(s, o[2], k, v)
        [] mo = Nil /\ tab -> IF k = Nil THEN Raise(s, Str("index is nil")) ELSE tset(s, o[2], k, v)
        [] mo = Nil -> Raise(s, Str("index"))
        [] is_func(mo) -> CallMM(s, <<"Nop", 0>>, mo, <<o, k, v>>)
        [] OTHER -> NewindexChain(s, mo, k, v, n - 1)
meta_tset(s, o, k, v) == NewindexChain(s, o, k, v, LJ_MAX_IDXCHAIN)

FirstMM(s, x, y, mm) == LET mo == meta_lookup(s, x, mm) IN IF mo = Nil THEN meta_lookup(s, y, mm) ELSE mo

ArithMM == ("+" :> "__add") @@ ("-" :> "__sub") @@ ("*" :> "__mul") @@ ("%" :> "__mod") @@ ("^" :> "__pow")
foldarith(op, x, y) ==
  CASE op = "+" -> x + y [] op = "-" -> x - y [] op = "*" -> x * y [] op = "%" -> x % y [] op = "^" -> x ^ y

meta_arith(s, op, x, y, a) ==
  LET mo == FirstMM(s, x, y, IF op = "unm" THEN "__unm" ELSE ArithMM[op])
  IN  IF mo = Nil THEN Raise(s, Str("arith")) ELSE CallMM(s, <<"Ra", a>>, mo, <<x, y>>)

\* Order of two values of one type that are not numbers; strings are left
\* out.  A missing __le is tried as not (y < x).
meta_comp(s, op, x, y) ==
  LET le == op \in {"ISLE", "ISGT"}
      neg == op \in {"ISGE", "ISGT"}
      mo == FirstMM(s, x, y, IF le THEN "__le" ELSE "__lt")
      lt == FirstMM(s, y, x, "__lt")
      Cond(n) == <<IF n THEN "Condf" ELSE "Condt", 0>>
  IN  CASE x[1] # y[1] -> Raise(s, Str("compare"))
        [] mo # Nil -> CallMM(s, Cond(neg), mo, <<x, y>>)
        [] le /\ lt # Nil -> CallMM(s, Cond(~neg), lt, <<y, x>>)
        [] OTHER -> Raise(s, Str("compare"))

\* __eq is taken when both operands have the same one.
meta_equal(s, x, y, ne) ==
  LET mo == meta_lookup(s, x, "__eq")
      same == metatable_of(s, x) = metatable_of(s, y) \/ meta_lookup(s, y, "__eq") = mo
      callable == is_func(mo) \/ is_func(resolve_callable(s, mo, 3))
  IN  IF mo = Nil \/ ~same \/ ~callable THEN branch(s, ne)
      ELSE CallMM(s, <<IF ne THEN "Condf" ELSE "Condt", 0>>, mo, <<x, y>>)

meta_len(s, v, a) ==
  LET mo == meta_lookup(s, v, "__len")
  IN  CASE mo # Nil -> CallMM(s, <<"Ra", a>>, mo, <<v, v>>)
        [] v[1] = "table" -> set_reg(s, a, Num(tlen(s, v[2])))
        [] OTHER -> Raise(s, Str("len"))

concat_ok(v) == v[1] \in {"str", "num"}
Text(v) == IF v[1] = "num" THEN ToString(v[2]) ELSE v[2]

RECURSIVE meta_cat(_, _, _, _)
\* Concatenate the slots bottom .. top from the right; runs of strings at
\* once, anything else pairwise through __concat.
meta_cat(s, a, bottom, top) ==
  LET o1 == at(s, top - 1)
      o2 == at(s, top)
      ok == concat_ok(o1) /\ concat_ok(o2)
      o == CHOOSE i \in bottom .. (top - 1) :
             /\ \A j \in i .. top : concat_ok(at(s, j))
             /\ i = bottom \/ ~concat_ok(at(s, i - 1))
      text == FoldLeft(LAMBDA acc, v : acc \o Text(v), "", slots(s, o, top - o + 1))
      mo == FirstMM(s, o1, o2, "__concat")
      mo2 == IF is_func(mo) THEN mo ELSE resolve_callable(s, mo, 3)
      args == IF is_func(mo) THEN <<o1, o2>> ELSE <<mo, o1, o2>>
      fs == s.base + proto(s).framesize
      t == set_seq(set_at(s, fs, mo2), fs + 2, args)
  IN  CASE top <= bottom -> set_reg(s, a, at(s, bottom))
        [] ok -> meta_cat(set_at(s, o, Str(text)), a, bottom, o)
        [] mo # Nil /\ is_func(mo2) -> execute_inner(Push(t, Waiting(s, "cat", fs, <<a, bottom, top>>)), fs, Len(args), 1)
        [] OTHER -> Raise(s, Str("concat"))

---------------------------------------------------------------------------
(* The C side: one action for each thing the interpreter hands over. *)

Taken == [m EXCEPT !.hand = <<>>]
Handed(what) == m.res = <<"run">> /\ m.hand # <<>> /\ m.hand[1] = what
InnermostC(k) == m.host # <<>> /\ Last(m.host).k = k

\* The C functions of the instance.
CFunction(s, f, fs, nargs) ==
  LET args == slots(s, fs + 2, nargs)
      arg1 == IF nargs > 0 THEN args[1] ELSE Nil
  IN  CASE f = "out" -> Deliver([s EXCEPT !.log = Append(@, arg1)], args)
        [] f = "error" -> Raise(s, arg1)
        [] f = "pcall" -> lib_pcall(s, fs, nargs)
        [] f = "setmetatable" -> lib_setmetatable(s, args)
        [] f = "next" -> Deliver(s, lib_next(s, args))
        [] f = "type" -> Deliver(s, <<lib_type(arg1)>>)
        [] f = "rawget" -> Deliver(s, <<tget(s, arg1[2], args[2])>>)
        [] f = "rawset" -> Deliver(tset(s, arg1[2], args[2], args[3]), <<arg1>>)
        [] f = "tonumber" -> Deliver(s, <<IF IsNum(arg1) THEN arg1 ELSE Nil>>)
        [] f \in {"abs", "min", "max"} -> Deliver(s, <<lib_math(f, args)>>)
        [] f = "insert" -> Deliver(tab_insert(s, args), <<>>)
        [] f = "remove" -> Deliver(tab_remove(s, args), <<Removed(s, args)>>)
RunCFunction == Handed("call") /\ m' = CFunction(Taken, m.hand[2], m.hand[3], m.hand[4])

\* Results go to whatever waits for them: the calling or the returning frame,
\* a metamethod's instruction, the protected call, the interpreter that ran
\* the function, the concatenation; at the outermost level the program ends.
TakeResults ==
  /\ Handed("results")
  /\ LET rs == m.hand[2]
         h == Last(m.host)
         p == Restore(Pop(Taken), h)
         n == Len(rs)
         placed == set_seq(set_seq(p, h.slot + 2, rs), h.slot, rs)
         first == IF n > 0 THEN rs[1] ELSE Nil
     IN  m' = CASE m.host = <<>> -> [Taken EXCEPT !.res = <<"ok", rs>>]
                [] h.k = "call" -> IF h.x >= 0 THEN clear(placed, h.slot + n, h.slot + h.x)
                                   ELSE [placed EXCEPT !.multres = n]
                [] h.k = "tail" -> do_return(placed, h.slot, n)
                [] h.k = "mm" -> Continue(p, h.x, first)
                [] h.k = "pcall" -> Deliver(p, <<Bool(TRUE)>> \o rs)
                [] h.k = "run" -> Deliver(p, rs)
                [] h.k = "cat" -> meta_cat(set_at(p, h.x[3] - 1, first), h.x[1], h.x[2], h.x[3] - 1)

\* An error leaves the running interpreter, which closes the upvalues from
\* its current frame up: not those of the frames between that one and the
\* frame it was entered with (at slot entry), which are discarded too.
unwound(s, entry) == LET t == close_upvals(s, s.base) IN [t EXCEPT !.left = @ \cup UpvalsFrom(t, entry)]

\* An error ends at the nearest protected call.
TakeError ==
  /\ Handed("error")
  /\ LET v == m.hand[2]
         h == Last(m.host)
     IN  m' = CASE m.host = <<>> -> [unwound(Taken, 0) EXCEPT !.res = <<"error", v>>]
                [] InnermostC("run") -> Raise(Restore(Pop(unwound(Taken, h.slot)), h), v)
                [] InnermostC("pcall") -> Deliver(Restore(Pop(Taken), Last(m.host)), <<Bool(FALSE), v>>)
                [] OTHER -> Raise(Restore(Pop(Taken), Last(m.host)), v)

InC == RunCFunction \/ TakeResults \/ TakeError

---------------------------------------------------------------------------
(* The dispatch loop: one action per group of instructions. *)

Ins == proto(m).bc[m.pc + 1]
Fetched == [m EXCEPT !.pc = @ + 1]
Running == m.res = <<"run">> /\ m.hand = <<>>
Op(ops) == Running /\ Ins.op \in ops

Less(op, x, y) ==
  CASE op = "ISLT" -> x < y [] op = "ISGE" -> ~(x < y) [] op = "ISLE" -> x <= y [] op = "ISGT" -> ~(x <= y)

Compare ==
  /\ Op({"ISLT", "ISGE", "ISLE", "ISGT"})
  /\ LET x == reg(m, Ins.a)
         y == reg(m, Ins.d)
     IN  m' = IF IsNum(x) /\ IsNum(y) THEN branch(Fetched, Less(Ins.op, x[2], y[2]))
              ELSE meta_comp(Fetched, Ins.op, x, y)

Equal ==
  /\ Op({"ISEQV", "ISNEV", "ISEQK", "ISNEK"})
  /\ LET x == reg(m, Ins.a)
         y == IF Ins.op \in {"ISEQK", "ISNEK"} THEN Ins.d ELSE reg(m, Ins.d)
         ne == Ins.op \in {"ISNEV", "ISNEK"}
     IN  m' = IF x # y /\ x[1] = "table" /\ y[1] = "table" THEN meta_equal(Fetched, x, y, ne)
              ELSE branch(Fetched, (x = y) # ne)

Test ==
  /\ Op({"ISTC", "ISFC", "IST", "ISF"})
  /\ LET d == reg(m, Ins.d)
         cond == Truthy(d) = (Ins.op \in {"ISTC", "IST"})
     IN  m' = branch(IF cond /\ Ins.op \in {"ISTC", "ISFC"} THEN set_reg(Fetched, Ins.a, d) ELSE Fetched, cond)

Move ==
  /\ Op({"MOV", "NOT"})
  /\ LET d == reg(m, Ins.d)
     IN  m' = set_reg(Fetched, Ins.a, IF Ins.op = "MOV" THEN d ELSE Bool(~Truthy(d)))

Unary ==
  /\ Op({"UNM", "LEN"})
  /\ LET d == reg(m, Ins.d)
     IN  m' = CASE Ins.op = "LEN" /\ d[1] # "str" -> meta_len(Fetched, d, Ins.a)
                [] Ins.op = "LEN" -> set_reg(Fetched, Ins.a, Num(Len(d[2])))
                [] IsNum(d) -> set_reg(Fetched, Ins.a, Num(-d[2]))
                [] OTHER -> meta_arith(Fetched, "unm", d, d, Ins.a)

ArithOn(x, y) ==
  m' = IF IsNum(x) /\ IsNum(y) THEN set_reg(Fetched, Ins.a, Num(foldarith(Ins.d, x[2], y[2])))
       ELSE meta_arith(Fetched, Ins.d, x, y, Ins.a)

\* Both operands in registers, or one of them a constant.
ArithVV == Op({"ARITHVV"}) /\ ArithOn(reg(m, Ins.b), reg(m, Ins.c))
ArithVN == Op({"ARITHVN"}) /\ ArithOn(reg(m, Ins.b), Ins.c)
ArithNV == Op({"ARITHNV"}) /\ ArithOn(Ins.c, reg(m, Ins.b))

\* Bit operators know no metamethods.
Bitop ==
  /\ Op({"BITVV", "BNOT"})
  /\ LET x == reg(m, IF Ins.op = "BNOT" THEN Ins.d ELSE Ins.b)
         y == reg(m, IF Ins.op = "BNOT" THEN Ins.d ELSE Ins.c)
     IN  m' = IF ~IsNum(x) \/ ~IsNum(y) THEN Raise(Fetched, Str("arith"))
              ELSE set_reg(Fetched, Ins.a, Num(IF Ins.op = "BNOT" THEN BitNot(x[2]) ELSE Bits(Ins.d, x[2], y[2])))

Cat == Op({"CAT"}) /\ m' = meta_cat(Fetched, Ins.a, m.base + Ins.b, m.base + Ins.c)

Constant ==
  /\ Op({"KSTR", "KNUM", "KPRI", "KNIL"})
  /\ m' = IF Ins.op = "KNIL" THEN clear(Fetched, m.base + Ins.a, m.base + Ins.d + 1)
          ELSE set_reg(Fetched, Ins.a, Ins.d)

Upvalue ==
  /\ Op({"UGET", "USETV", "USETK"})
  /\ m' = CASE Ins.op = "UGET" -> set_reg(Fetched, Ins.a, upval_get(m, m.clos[m.cl].up[Ins.d]))
            [] Ins.op = "USETV" -> upval_set(Fetched, m.clos[m.cl].up[Ins.a], reg(m, Ins.d))
            [] Ins.op = "USETK" -> upval_set(Fetched, m.clos[m.cl].up[Ins.a], Ins.d)

CloseUpvalues == Op({"UCLO"}) /\ m' = jump(close_upvals(Fetched, m.base + Ins.a), Ins)

NewClosure ==
  /\ Op({"FNEW"})
  /\ LET s == new_closure(Fetched, proto(m).kids[Ins.d]) IN m' = set_reg(s, Ins.a, Lua(Len(s.clos)))

\* A template: its keys and values, and the array part made for it, which
\* has a slot for the key 0.
TableOf(template) == FoldLeft(LAMBDA f, kv : (kv[1] :> kv[2]) @@ f, <<>>, template)
ArraySize(template) ==
  LET n == Cardinality({i \in DOMAIN template : IsNum(template[i][1])}) IN IF n = 0 THEN 0 ELSE n + 1
NewTable ==
  /\ Op({"TNEW", "TDUP"})
  /\ LET template == IF Ins.op = "TDUP" THEN Ins.d ELSE <<>>
     IN  m' = set_reg(alloc_table(Fetched, TableOf(template), ArraySize(template)), Ins.a, Table(Len(m.tabs) + 1))

GetGlobal == Op({"GGET"}) /\ m' = meta_tget(Fetched, Table(GLOBALS), Str(Ins.d), Ins.a)
SetGlobal == Op({"GSET"}) /\ m' = meta_tset(Fetched, Table(GLOBALS), Str(Ins.d), reg(m, Ins.a))

Key == CASE Ins.op \in {"TGETV", "TSETV"} -> reg(m, Ins.c)
         [] Ins.op \in {"TGETS", "TSETS"} -> Ins.c
         [] Ins.op \in {"TGETB", "TSETB"} -> Num(Ins.c)
GetTable == Op({"TGETV", "TGETS", "TGETB"}) /\ m' = meta_tget(Fetched, reg(m, Ins.b), Key, Ins.a)
SetTable == Op({"TSETV", "TSETS", "TSETB"}) /\ m' = meta_tset(Fetched, reg(m, Ins.b), Key, reg(m, Ins.a))

\* The open results fill a table from key d on.
SetMulti ==
  /\ Op({"TSETM"})
  /\ m' = FoldLeft(LAMBDA s, i : tset(s, reg(m, Ins.a - 1)[2], Num(Ins.d + i), reg(m, Ins.a + i)),
                   Fetched, [i \in 1 .. m.multres |-> i - 1])

CallLua == Op({"CALL"}) /\ m' = do_call(Fetched, Ins.a, Ins.c - 1, Ins.b - 1)
CallMulti == Op({"CALLM"}) /\ m' = do_call(Fetched, Ins.a, Ins.c + m.multres, Ins.b - 1)
TailCall ==
  /\ Op({"CALLT", "CALLMT"})
  /\ m' = do_tailcall(Fetched, Ins.a, IF Ins.op = "CALLT" THEN Ins.d - 1 ELSE Ins.d + m.multres)
Ret ==
  /\ Op({"RET0", "RET1", "RET", "RETM"})
  /\ m' = Return(Fetched, m.base + Ins.a, IF Ins.op = "RETM" THEN m.multres + Ins.d ELSE Ins.d - 1)

ForPrep ==
  /\ Op({"FORI"})
  /\ LET v == [i \in 0 .. 2 |-> reg(m, Ins.a + i)]
         enter == IF v[2][2] >= 0 THEN v[0][2] <= v[1][2] ELSE v[0][2] >= v[1][2]
         s == set_reg(Fetched, Ins.a + 3, v[0])
     IN  m' = IF \E i \in 0 .. 2 : ~IsNum(v[i]) THEN Raise(Fetched, Str("for"))
              ELSE IF enter THEN s ELSE jump(s, Ins)

ForLoop ==
  /\ Op({"FORL", "IFORL"})
  /\ LET stop == reg(m, Ins.a + 1)[2]
         step == reg(m, Ins.a + 2)[2]
         next == reg(m, Ins.a)[2] + step
         s == set_reg(set_reg(Fetched, Ins.a, Num(next)), Ins.a + 3, Num(next))
     IN  m' = IF (IF step >= 0 THEN next <= stop ELSE next >= stop) THEN jump(s, Ins) ELSE Fetched

Loop == Op({"LOOP", "ILOOP"}) /\ m' = Fetched
Jump == Op({"JMP", "ISNEXT"}) /\ m' = jump(Fetched, Ins)

\* The iterator, its state and the control variable become a call.
IterCall ==
  /\ Op({"ITERC", "ITERN"})
  /\ LET fs == m.base + Ins.a
         s == set_seq(set_at(Fetched, fs, at(m, fs - 3)), fs + 2, <<at(m, fs - 2), at(m, fs - 1)>>)
     IN  m' = do_call(s, Ins.a, 2, Ins.b - 1)

IterLoop ==
  /\ Op({"ITERL", "IITERL"})
  /\ LET first == reg(m, Ins.a)
     IN  m' = IF first = Nil THEN Fetched ELSE jump(set_reg(Fetched, Ins.a - 1, first), Ins)

\* The varargs sit between the two frames of a vararg function.
op_varg ==
  /\ Op({"VARG"})
  /\ LET delta == at(m, m.base - 1)[2]
         np == proto(m).numparams
         n == IF delta - 2 > np THEN delta - 2 - np ELSE 0
         src == m.base - delta + np
         all == [set_seq(Fetched, m.base + Ins.a, slots(m, src, n)) EXCEPT !.multres = n, !.top = m.base + Ins.a + n]
         some == [i \in 1 .. (Ins.b - 1) |-> IF i <= n THEN at(m, src + i - 1) ELSE Nil]
     IN  m' = IF Ins.b = 0 THEN all ELSE set_seq(Fetched, m.base + Ins.a, some)

---------------------------------------------------------------------------
Ended == m.res # <<"run">>
Finished == Ended /\ UNCHANGED vars

CFuns == {"out", "error", "pcall", "setmetatable", "next", "type", "rawget", "rawset", "tonumber", "abs", "min", "max",
          "insert", "remove"}

\* The host calls the main function.
Start(prog) ==
  [prog |-> prog, code |-> prog.code, hand |-> <<>>, stack |-> [i \in 0 .. (MaxStack + 24) |-> Nil], base |-> 0, pc |-> 0, cl |-> 1, multres |-> 0, top |-> 0,
   ftop |-> 0, openuv |-> {}, uv |-> <<>>, clos |-> <<[proto |-> 1, up |-> <<>>]>>,
   tabs |-> <<[map |-> [k \in {Str(f) : f \in CFuns} |-> CFun(k[2])],
               mt |-> 0, asize |-> 0]>>,
   host |-> <<>>, log |-> <<>>, left |-> {}, invalidate_all |-> FALSE, res |-> <<"run">>]

Init == \E f \in Families : \E prog \in Programs(f) : m = enter_lua(set_at(Start(prog), 0, Lua(1)), 1, 0, 0, <<"c", -1>>)

Instruction ==
  \/ Compare \/ Equal \/ Test \/ Move \/ Unary \/ ArithVV \/ ArithVN \/ ArithNV \/ Bitop \/ Cat \/ Constant
  \/ Upvalue \/ CloseUpvalues \/ NewClosure
  \/ NewTable \/ GetGlobal \/ SetGlobal \/ GetTable \/ SetTable \/ SetMulti
  \/ CallLua \/ CallMulti \/ TailCall \/ Ret
  \/ ForPrep \/ ForLoop \/ Loop \/ Jump \/ IterCall \/ IterLoop \/ op_varg

Next == Instruction \/ InC \/ Finished

Spec == Init /\ [][Next]_vars

---------------------------------------------------------------------------
(* What holds between two instructions. *)

\* The bases of the frame at b and of those that continue when it returns: the
\* link tells, the call instruction of the caller tells how far down it is;
\* below an entry from C, the call that waits remembers it.  hs is the number
\* of C frames below.
RECURSIVE Frames(_, _, _)
Frames(s, b, hs) ==
  LET link == at(s, b - 1)
      e == Max({h \in 1 .. hs : s.host[h].k = "run"})
      w == Max({h \in 1 .. e : s.host[h].k \in {"call", "tail", "mm", "cat"}})
      below == CASE link[1] = "varg" -> Frames(s, b - link[2], hs)
                 [] link[1] = "cont" -> Frames(s, b - link[2], hs)
                 [] link[1] = "ret" -> Frames(s, b - 2 - s.code[link[2]].bc[link[3]].a, hs)
                 [] link[1] = "c" -> IF hs = 0 THEN {} ELSE Frames(s, s.host[w].base, w - 1)
  IN  {b} \cup below

\* Every frame reached from the running one through the links has its
\* function two slots below its base, and the call instruction that a link
\* names belongs to the function of the frame it returns to.
FramesLinked ==
  Running =>
    LET F == Frames(m, m.base, Len(m.host))
        Fun(b) == at(m, b - 2)
        LinkOf(b) == at(m, b - 1)
        Caller(b) == b - 2 - m.code[LinkOf(b)[2]].bc[LinkOf(b)[3]].a
    IN  /\ Fun(m.base) = Lua(m.cl)
        /\ \A b \in F : Fun(b)[1] \in {"lua", "cfun"}
        /\ \A b \in F : LinkOf(b)[1] = "ret" => m.clos[Fun(Caller(b))[2]].proto = LinkOf(b)[2]

\* An open upvalue points to a register of a frame that is still there,
\* unless an error left it behind when it unwound the frame of its variable
\* (vm/mod.rs 1220-1222 closes those of one frame); and no two point to the
\* same slot, also when a new variable comes to lie where one was left.
OnStack(U) ==
  \A u \in U : \E b \in Frames(m, m.base, Len(m.host)) :
    m.uv[u].slot \in b .. (b + PtOf(m, at(m, b - 2)[2]).framesize - 1)
OpenOnStack ==
  Running => /\ OnStack(m.openuv \ m.left)
             /\ \A u, v \in m.openuv : m.uv[u].slot = m.uv[v].slot => u = v

\* What the comment of run says (vm/mod.rs 1211-1219): an error closes the
\* upvalues of what it discards, so that no closure made before a failing
\* pcall points at stack memory in use by another frame.
UnwindingCloses == Running => OnStack(m.openuv)

\* The collector scans the stack up to the higher of top and frame_top: it
\* sees every register of the running function.
FrameCovered == Running => Max({m.top, m.ftop}) >= m.base + proto(m).framesize

\* The registers an instruction writes are in its frame.
Written(ins) ==
  CASE ins.op \in {"KNIL"} -> ins.d
    [] ins.op \in {"CALL"} -> Max({ins.a + ins.b - 2, ins.a + ins.c})
    [] ins.op \in {"FORI", "FORL", "IFORL", "JFORI", "JFORL"} -> ins.a + 3
    [] ins.op \in {"ITERC", "ITERN"} -> Max({ins.a + 3, ins.a + ins.b - 2})
    [] ins.op = "VARG" -> Max({ins.a, ins.a + ins.b - 2})
    [] ins.op \in {"MOV", "NOT", "UNM", "LEN", "ARITHVV", "ARITHVN", "ARITHNV", "BITVV", "BNOT", "CAT", "KSTR", "KNUM", "KPRI", "UGET",
                   "FNEW", "TNEW", "TDUP", "GGET", "TGETV", "TGETS", "TGETB", "CALLM"} -> ins.a
    [] OTHER -> 0
InFrame == Running => Written(Ins) < proto(m).framesize
=============================================================================
