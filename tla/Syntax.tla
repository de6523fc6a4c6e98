------------------------------- MODULE Syntax -------------------------------
(***************************************************************************)
(* Constructors for the syntax trees that the parser model reads.          *)
(***************************************************************************)
EXTENDS Bytecode, FiniteSets, SequencesExt

Tok(op) == <<"op", op>>
Nom(x) == <<"prim", <<"name", x>>, <<>>>>
Sfx(k, nav, name, e, args) == [k |-> k, nav |-> nav, nav2 |-> FALSE, name |-> name, e |-> e, args |-> args]
On(x, s) == <<"prim", x[2], Append(x[3], s)>>
Fld(x, name) == On(x, Sfx("fld", FALSE, name, Nil, <<>>))
Idx(x, e) == On(x, Sfx("idx", FALSE, "", e, <<>>))
CallOf(x, args) == On(x, Sfx("call", FALSE, "", Nil, args))
Meth(x, name, args) == On(x, Sfx("meth", FALSE, name, Nil, args))
Paren(e) == <<"prim", <<"paren", e>>, <<>>>>
Out(e) == CallOf(Nom("out"), <<e>>)
Fn(params, va, body) == <<"fn", params, va, body>>
Local(names, es) == <<"local", names, es>>
Set(xs, es) == <<"set", xs, es>>
Do(x) == <<"call", x>>
Ops(toks) == <<"ops", toks>>
Bin(a, op, b) == Ops(<<a, Tok(op), b>>)
If(c, body) == <<"if", <<<<c, body>>>>, <<>>>>
Return(es) == <<"return", es>>
T(items) == <<"tab", items>>
True == <<"true">>
False == <<"false">>
NilE == <<"nil">>
Dots == <<"dots">>
=============================================================================
