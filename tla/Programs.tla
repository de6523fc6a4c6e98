------------------------------ MODULE Programs ------------------------------
(***************************************************************************)
(* The Lua programs that the compiled-code runs execute, as syntax trees,  *)
(* in families: each family varies one thing whose compilation is easy to  *)
(* get wrong.  Values are observed through the host function out, which    *)
(* logs its first argument and returns all of them.                        *)
(***************************************************************************)
EXTENDS Syntax

---------------------------------------------------------------------------
(* Logical operators: which operands are evaluated, and which value the    *)
(* whole has, as a value, as a condition and as an argument.               *)

Operand(i) == {False, Nom("n"), Out(Num(i)), Paren(Bin(Nom("two"), "<", Num(i)))}
Logic == {"and", "or", "==", "??"}
Expressions ==
  {Ops(<<a, Tok(o), b, Tok(p), c>>) :
     a \in Operand(1), b \in Operand(2), c \in {False, Out(Num(3))}, o \in Logic, p \in Logic}
  \cup {Ops(<<<<"un", "NOT">>, a, Tok(o), Paren(Bin(b, p, c))>>) :
          a \in Operand(1), b \in Operand(2), c \in {False}, o \in Logic, p \in Logic}
Nested == {Ops(<<a, Tok(o), Paren(<<"cond", b, c, Num(7)>>)>>) :
             a \in Operand(1), b \in Operand(2), c \in Operand(3), o \in Logic}
Observe(x) == {<<Return(<<x>>)>>, <<If(x, <<Do(Out(Str("then")))>>), Do(Out(Str("end")))>>,
               <<Local(<<"r">>, <<Num(5), x>>), Local(<<"q", "p">>, <<x, Nom("n")>>), Return(<<Nom("q"), Nom("p"), Nom("r")>>)>>}
LogicPrograms ==
  {<<Local(<<"n", "two">>, <<NilE, Num(2)>>)>> \o s : s \in UNION {Observe(x) : x \in Expressions \cup Nested}}

\* Precedence, associativity and constant folding of two operators.
Infix == {"+", "-", "*", "%", "^", "..", "&", "|", "~", "<<", ">>", "~>>", "<", "=="}
OperatorPrograms ==
  {<<Local(<<"a", "b", "c">>, <<Num(6), Num(3), Num(2)>>), Return(<<Ops(<<v[1], Tok(o), v[2], Tok(p), v[3]>>)>>)>> :
     v \in {<<Num(6), Num(3), Num(2)>>, <<Nom("a"), Num(3), Nom("c")>>, <<Num(6), Nom("b"), Num(2)>>, <<Nom("a"), Nom("b"), Nom("c")>>},
     o \in Infix, p \in Infix}
  \cup {<<Local(<<"a", "b", "c">>, <<Num(6), Num(3), Num(2)>>), Return(<<Ops(<<<<"un", u>>, v, Tok(o), w>>), Ops(<<w, Tok(IF o = "^" THEN "*" ELSE o), <<"un", u>>, v>>)>>)>> :
     v \in {Num(6), Nom("a"), True}, w \in {Num(3), Nom("b")}, u \in {"UNM", "BNOT", "NOT"}, o \in {"+", "-", "*", "^", "..", "<", "=="}}

---------------------------------------------------------------------------
(* Captured locals of a loop body and every way out of it: each iteration  *)
(* has a variable of its own, shared by the closures that capture it.      *)

Count(x) == Fn(<<>>, FALSE, <<<<"compound", Nom(x), "+", Num(1)>>, Return(<<Nom(x)>>)>>)
Captures(x) == <<Set(<<Nom("g"), Nom("h")>>, <<Count(x), Fn(<<>>, FALSE, <<Return(<<Nom(x)>>)>>)>>)>>
Exits == {<<"break">>, <<"continue">>, <<"goto", "out">>, Return(<<Num(9)>>),
          Do(CallOf(Nom("error"), <<Str("e")>>)), Local(<<>>, <<>>)}
Exit(e) == IF e = Local(<<>>, <<>>) THEN <<>> ELSE <<If(Bin(Nom("i"), "==", Num(2)), <<e>>)>>
Bodies == {<<Local(<<"x">>, <<Nom("i")>>)>> \o Captures("x") \o Exit(e) \o <<Do(Out(Nom("x")))>> : e \in Exits}
     \cup {<<Local(<<"x">>, <<Nom("i")>>)>> \o Exit(e) \o Captures("x") : e \in Exits}
     \cup {<<<<"do", <<Local(<<"y">>, <<Num(5)>>), Local(<<"x">>, <<Nom("i")>>)>> \o Captures("x") \o Exit(e)>>, Do(Out(Nom("i")))>> : e \in Exits}
Loops(b) ==
  {<<"fornum", "i", Num(1), Num(3), <<>>, b>>,
   <<"forin", <<"i">>, <<Nom("upto"), Num(3), Num(0)>>, b>>,
   <<"do", <<Local(<<"k">>, <<Num(0)>>),
             <<"while", Bin(Nom("k"), "<", Num(3)), <<<<"compound", Nom("k"), "+", Num(1)>>, Local(<<"i">>, <<Nom("k")>>)>> \o b>>>>>>,
   <<"do", <<Local(<<"k">>, <<Num(0)>>),
             <<"repeat", <<<<"compound", Nom("k"), "+", Num(1)>>, Local(<<"i">>, <<Nom("k")>>), <<"do", b>>>>,
               Bin(Nom("i"), "==", Num(3))>>>>>>}
Upto == <<"localfn", "upto", Fn(<<"s", "c">>, FALSE,
            <<If(Bin(Nom("c"), "<", Nom("s")), <<Return(<<Bin(Nom("c"), "+", Num(1))>>)>>)>>)>>
Calls == <<Do(Out(CallOf(Nom("g"), <<>>))), Do(Out(CallOf(Nom("g"), <<>>))), Do(Out(CallOf(Nom("h"), <<>>)))>>
LoopPrograms ==
  {<<Local(<<"g", "h">>, <<>>), Upto,
     Local(<<"f">>, <<Fn(<<>>, FALSE, <<l, <<"label", "out">>, Do(Out(Str("done")))>>)>>),
     Do(Out(CallOf(Nom("pcall"), <<Nom("f")>>)))>> \o Calls :
     l \in UNION {Loops(b) : b \in Bodies}}

---------------------------------------------------------------------------
(* Assignments: several targets, some of which index with others, and the  *)
(* number of values adjusted to them.                                      *)

Targets == {Nom("a"), Nom("b"), Idx(Nom("t"), Nom("a")), Fld(Nom("t"), "x"), Idx(Nom("t"), Num(1)), Nom("u"), Nom("glob")}
Sources == {<<Nom("b"), Nom("a")>>, <<CallOf(Nom("two"), <<>>)>>, <<Num(5)>>, <<Nom("u"), CallOf(Nom("two"), <<>>)>>,
            <<Paren(CallOf(Nom("two"), <<>>)), NilE, Num(4)>>, <<Bin(Nom("a"), "+", Nom("b")), Bin(Nom("a"), "..", Nom("b"))>>}
Touch == <<Do(Out(Nom("a"))), Do(Out(Nom("b"))), Do(Out(Nom("u"))), Do(Out(Nom("glob"))),
           Return(<<Idx(Nom("t"), Num(1)), Idx(Nom("t"), Num(2)), Fld(Nom("t"), "x"), Idx(Nom("t"), Num(5))>>)>>
Given == <<Local(<<"u">>, <<Num(3)>>),
           <<"localfn", "two", Fn(<<>>, FALSE, <<Return(<<Num(7), Num(8)>>)>>)>>>>
AssignPrograms ==
  {Given \o
   <<Return(<<CallOf(Paren(Fn(<<"a", "b", "t">>, FALSE, <<s>> \o Touch)),
                     <<Num(1), Num(2), T(<<<<"pos", Num(10)>>, <<"named", "x", Num(11)>>>>)>>)>>)>> :
     s \in {Set(<<x, y>>, r) : x \in Targets, y \in Targets, r \in Sources}
           \cup {Set(<<x, y, z>>, r) : x \in Targets, y \in Targets, z \in {Nom("a"), Fld(Nom("t"), "x")}, r \in Sources}
           \cup {<<"compound", x, op, e>> : x \in Targets \ {Nom("glob")}, op \in {"+", ".."},
                                            e \in {Nom("b"), Num(4), CallOf(Nom("two"), <<>>)}}}

---------------------------------------------------------------------------
(* Calls: numbers of arguments, parameters, varargs and results, in every  *)
(* position of a call, for every kind of callee.                           *)

ArgLists == {<<>>, <<Num(1)>>, <<Num(1), NilE, Num(3)>>, <<CallOf(Nom("two"), <<>>)>>, <<Num(0), Dots>>, <<Dots>>}
Callees == {Nom("fix"), Nom("va"), Nom("out"), Nom("obj")}
FixDef == <<"localfn", "fix", Fn(<<"a", "b">>, FALSE, <<Do(Out(Nom("b"))), Return(<<Nom("b"), Nom("a")>>)>>)>>
VaBodies == {<<Return(<<Dots>>)>>, <<Return(<<Paren(Dots)>>)>>,
             <<Local(<<"x", "y">>, <<Dots>>), Return(<<Nom("y"), Nom("p")>>)>>,
             <<Local(<<"x">>, <<T(<<<<"pos", Nom("p")>>, <<"pos", Dots>>>>)>>), Return(<<Idx(Nom("x"), Num(3)), Idx(Nom("x"), Num(2))>>)>>,
             <<Return(<<CallOf(Nom("fix"), <<Dots>>)>>)>>,
             <<Return(<<Fld(Nom("arg"), "n"), Idx(Nom("arg"), Num(1))>>)>>,
             <<Local(<<"c">>, <<Fn(<<>>, FALSE, <<Return(<<Nom("p")>>)>>)>>), Return(<<Num(6), CallOf(Nom("c"), <<>>)>>)>>}
Positions(x) ==
  {<<Return(<<x>>)>>, <<Return(<<Num(0), x>>)>>, <<Return(<<x, Num(0)>>)>>, <<Do(x)>>,
   <<Local(<<"p", "q", "r">>, <<x>>), Return(<<Nom("r"), Nom("q"), Nom("p")>>)>>,
   <<Return(<<CallOf(Nom("fix"), <<Num(4), x>>)>>)>>,
   <<Local(<<"t">>, <<T(<<<<"pos", Num(4)>>, <<"pos", x>>>>)>>), Return(<<Ops(<<<<"un", "LEN">>, Nom("t")>>)>>)>>,
   <<Local(<<"k">>, <<Count("z")>>), Return(<<x>>)>>}
CallPrograms ==
  {<<Local(<<"z">>, <<Num(1)>>), Given[2], FixDef, <<"localfn", "va", Fn(<<"p">>, TRUE, v)>>,
     Local(<<"obj">>, <<CallOf(Nom("setmetatable"),
                               <<T(<<>>), T(<<<<"named", "__call", Nom("va")>>>>)>>)>>),
     Return(<<CallOf(Paren(Fn(<<>>, TRUE, b)), <<Num(20), Num(21)>>)>>)>> :
     v \in VaBodies, b \in UNION {Positions(CallOf(c, as)) : c \in Callees, as \in ArgLists}}

---------------------------------------------------------------------------
(* Metamethods, as Lua functions and as a C function, in the places where  *)
(* their result is used.                                                   *)

Handlers(tag) == {Fn(<<"l", "r">>, FALSE, <<Do(Out(Str(tag))), Return(<<v>>)>>) : v \in {True, NilE, Num(5)}} \cup {Nom("out"), Nom("va")}
Uses == ("__index" :> {Fld(Nom("o"), "k"), Idx(Nom("o"), Num(1)), CallOf(Nom("fix"), <<Num(1), Fld(Nom("o"), "k")>>)})
     @@ ("__add" :> {Bin(Nom("o"), "+", Num(1)), Bin(Num(1), "+", Nom("o")), Ops(<<Nom("o"), Tok("+"), Nom("o"), Tok("=="), Num(5)>>)})
     @@ ("__lt" :> {Bin(Nom("o"), "<", Nom("w")), Ops(<<Nom("o"), Tok(">"), Nom("w"), Tok("and"), Num(3)>>)})
     @@ ("__le" :> {Bin(Nom("o"), "<=", Nom("w")), Ops(<<<<"un", "NOT">>, Paren(Bin(Nom("o"), ">=", Nom("w")))>>)})
     @@ ("__eq" :> {Bin(Nom("o"), "==", Nom("w")), Ops(<<Nom("o"), Tok("~="), Nom("w"), Tok("or"), Num(3)>>)})
     @@ ("__concat" :> {Ops(<<Num(1), Tok(".."), Str("a"), Tok(".."), Nom("o"), Tok(".."), Str("b")>>), Bin(Nom("o"), "..", Nom("w"))})
     @@ ("__metatable" :> {CallOf(Nom("setmetatable"), <<Nom("o"), Nom("mt")>>)})
     @@ ("__call" :> {CallOf(Nom("o"), <<Num(1)>>), CallOf(Nom("fix"), <<CallOf(Nom("o"), <<>>)>>)})
MetaPrograms ==
  UNION {{<<FixDef, <<"localfn", "va", Fn(<<>>, TRUE, <<Return(<<Dots>>)>>)>>,
            Local(<<"mt">>, <<T(<<<<"named", mm, h>>>>)>>),
            Local(<<"o", "w">>, <<CallOf(Nom("setmetatable"), <<T(<<>>), Nom("mt")>>),
                                  CallOf(Nom("setmetatable"), <<T(<<>>), Nom("mt")>>)>>)>> \o s :
            h \in Handlers(mm), s \in UNION {{<<Return(<<x>>)>>, <<If(x, <<Do(Out(Num(1)))>>)>>} : x \in Uses[mm]}}
         : mm \in DOMAIN Uses}

---------------------------------------------------------------------------
(* Errors and protected calls. *)

Bad == {CallOf(Nom("error"), <<Num(3)>>), Fld(Nom("no"), "x"), CallOf(Nom("no"), <<Num(1)>>), Bin(Nom("no"), "+", Num(1)),
        Bin(Num(1), "<", Nom("no")), Bin(Str("s"), "..", Nom("no")), Ops(<<<<"un", "LEN">>, Nom("no")>>),
        Ops(<<<<"un", "UNM">>, Nom("no")>>), CallOf(Nom("deep"), <<Num(0)>>)}
Deep == <<"localfn", "deep", Fn(<<"n">>, FALSE, <<Return(<<Bin(Num(1), "+", CallOf(Nom("deep"), <<Nom("n")>>))>>)>>)>>
Around(x) == {<<Local(<<"v">>, <<x>>), Return(<<Num(1)>>)>>, <<Return(<<Num(1), x>>)>>,
              <<If(x, <<>>), Return(<<Num(1)>>)>>}
Protect == {CallOf(Nom("pcall"), <<Nom("f"), Num(4), Num(5)>>),
            CallOf(Nom("pcall"), <<Nom("pcall"), Nom("f"), Num(4)>>),
            CallOf(Nom("pcall"), <<Fn(<<>>, FALSE, <<Return(<<CallOf(Nom("pcall"), <<Nom("f")>>)>>)>>)>>),
            CallOf(Nom("f"), <<Num(4)>>)}
Protected(b, c) ==
  <<Deep, Local(<<"g">>, <<Fn(<<>>, FALSE, <<>>)>>),
    <<"localfn", "f", Fn(<<"a", "b">>, FALSE, b)>>,
    Local(<<"p", "q", "r">>, <<c>>), Do(Out(Nom("p"))), Do(Out(Nom("q"))),
    Do(Out(CallOf(Nom("g"), <<>>))), Do(Out(CallOf(Nom("g"), <<>>))), Return(<<Nom("r")>>)>>
Capturing(x) == <<Local(<<"v">>, <<Num(6)>>), Set(<<Nom("g")>>, <<Count("v")>>), Local(<<"w">>, <<x>>)>>
ErrorPrograms ==
  {Protected(b, c) : b \in UNION {Around(x) : x \in Bad \cup {Num(2)}}, c \in Protect}
  \cup {Protected(Capturing(x), c) : x \in Bad \cup {Num(2)}, c \in Protect}

\* Errors that unwind several frames, each with a captured local: fails is
\* called by a protected function that made a closure, and reuse brings
\* variables of its own to the slots of both.
Fails == <<"localfn", "fails", Fn(<<"n">>, FALSE, <<Local(<<"z">>, <<Num(8)>>), Set(<<Nom("h")>>, <<Count("z")>>),
                                                    If(Nom("n"), <<Do(CallOf(Nom("error"), <<Num(3)>>))>>)>>)>>
Reuse == <<"localfn", "reuse", Fn(<<"s", "t">>, FALSE, <<Local(<<"u", "v", "w">>, <<Num(1), Num(2), Num(3)>>),
                                                         Local(<<"c">>, <<Count("v")>>), Return(<<CallOf(Nom("c"), <<>>)>>)>>)>>
Failing(n) == {<<Do(CallOf(Nom("fails"), <<n>>))>>, <<Return(<<CallOf(Nom("fails"), <<n>>)>>)>>,
               <<Local(<<"w">>, <<CallOf(Paren(Fn(<<>>, TRUE, <<Return(<<CallOf(Nom("fails"), <<Dots>>), Num(1)>>)>>)), <<n>>)>>)>>,
               <<Local(<<"w">>, <<Bin(CallOf(Nom("setmetatable"), <<T(<<>>), T(<<<<"named", "__add", Nom("fails")>>>>)>>), "+", n)>>)>>,
               <<Local(<<"w">>, <<CallOf(Nom("pcall"), <<Nom("fails"), n>>)>>), If(Nom("a"), <<Do(CallOf(Nom("error"), <<Num(5)>>))>>)>>}
UnwindPrograms ==
  {<<Local(<<"g", "h">>, <<>>), Fails, Reuse,
     <<"localfn", "f", Fn(<<"a", "b">>, FALSE, <<Local(<<"v">>, <<Num(6)>>), Set(<<Nom("g")>>, <<Count("v")>>)>> \o s)>>,
     Local(<<"p", "q">>, <<c>>), Do(Out(Nom("p"))), Do(Out(Nom("q"))), Do(Out(CallOf(Nom("reuse"), <<>>))),
     Do(Out(CallOf(Nom("g"), <<>>))), Do(Out(CallOf(Nom("h"), <<>>))), Return(<<CallOf(Nom("g"), <<>>)>>)>> :
     s \in Failing(True) \cup Failing(False), c \in Protect \ {CallOf(Nom("f"), <<Num(4)>>)}}

---------------------------------------------------------------------------
(* Safe navigation, goto, constants, and methods. *)

Nav(x, s) == On(x, [s EXCEPT !.nav = TRUE])
NavBases == {Nom("t"), Nom("no"), Fld(Nom("t"), "sub")}
NavSfx == {Sfx("fld", TRUE, "x", Nil, <<>>), Sfx("idx", TRUE, "", Out(Str("x")), <<>>),
           Sfx("call", TRUE, "", Nil, <<Out(Num(8))>>), [Sfx("meth", TRUE, "m", Nil, <<Out(Num(9))>>) EXCEPT !.nav2 = TRUE]}
Chain == {Sfx("fld", TRUE, "y", Nil, <<>>), Sfx("call", FALSE, "", Nil, <<Num(1)>>)}
NavPrograms ==
  {<<Local(<<"no">>, <<NilE>>),
     Local(<<"t">>, <<T(<<<<"named", "x", Num(1)>>, <<"named", "m", Fn(<<"self", "v">>, FALSE, <<Return(<<Nom("v"), Num(2)>>)>>)>>>>)>>)>>
     \o s :
     s \in UNION {{<<Return(<<On(b, x)>>)>>, <<Local(<<"p", "q">>, <<On(b, x)>>), Return(<<Nom("q"), Nom("p")>>)>>,
                   <<Return(<<Num(1), On(b, x)>>)>>, <<Return(<<Bin(On(b, x), "??", Num(4))>>)>>}
                  : b \in NavBases \ {Nom("t")}, x \in NavSfx}
          \cup {<<Return(<<On(On(b, x), y)>>)>> : b \in NavBases, x \in NavSfx, y \in Chain}
          \cup {<<Local(<<"v">>, <<On(On(b, x), y)>>), Return(<<Nom("v")>>)>> : b \in NavBases, x \in NavSfx, y \in Chain}
          \cup {<<Set(<<On(Nom(b), x)>>, <<Out(Num(6))>>), Return(<<Fld(Nom("t"), "x")>>)>> :
                  b \in {"no", "t"}, x \in {y \in NavSfx : y.k \in {"fld", "idx"}}}
          \cup {<<Do(On(b, x)), Do(Out(Num(1)))>> : b \in {Nom("no"), Fld(Nom("t"), "sub")},
                                                   x \in {y \in NavSfx : y.k \in {"call", "meth"}}}
          \cup {<<Return(<<Meth(Nom("t"), "m", <<Num(3)>>)>>)>>,
                <<<<"func", "t", <<"n">>, TRUE, Fn(<<"v">>, FALSE, <<Return(<<Nom("v"), Fld(Nom("self"), "x")>>)>>)>>,
                  Return(<<Meth(Nom("t"), "n", <<Num(3)>>)>>)>>}}

GotoPrograms ==
  {<<Local(<<"k", "g">>, <<Num(0)>>), <<"label", "top">>, <<"compound", Nom("k"), "+", Num(1)>>,
     <<"do", <<Local(<<"x">>, <<Nom("k")>>)>> \o c \o
             <<If(Bin(Nom("k"), "==", Num(lim)), <<<<"goto", "done">>>>), <<"goto", "top">>>>>>,
     <<"label", "done">>, Do(Out(Nom("k"))), Return(<<e>>)>> :
     c \in {<<>>, <<Set(<<Nom("g")>>, <<Count("x")>>)>>, <<Local(<<"y">>, <<Count("x")>>), Set(<<Nom("g")>>, <<Nom("y")>>)>>},
     lim \in 1 .. 3, e \in {Nom("k"), Bin(Nom("g"), "and", CallOf(Nom("g"), <<>>))}}
  \cup {<<<<"fornum", "i", Num(from), Num(to), st, <<Do(Out(Nom("i")))>>>>, Return(<<Num(0)>>)>> :
          from \in 1 .. 3, to \in 0 .. 3, st \in {<<>>, <<Num(-1)>>, <<Num(2)>>}}
  \cup {<<<<"forin", <<"k", "v">>, <<Nom("next"), t>>, <<Do(Out(Nom("k"))), Do(Out(Nom("v")))>>>>>> :
          t \in {T(<<>>), T(<<<<"pos", Num(6)>>>>), T(<<<<"named", "a", Num(1)>>>>)}}
  \cup {<<<<"if", <<<<a, <<Do(Out(Num(1)))>>>>, <<b, <<Do(Out(Num(2)))>>>>>>, els>>, Do(Out(Num(4)))>> :
          a \in {True, NilE, Nom("no"), Bin(Nom("no"), "==", NilE)}, b \in {False, Out(Num(5)), Bin(Num(1), "<", Num(2))},
          els \in {<<>>, <<<<Do(Out(Num(3)))>>>>}}

Family(f) ==
  CASE f = "logic" -> LogicPrograms [] f = "operators" -> OperatorPrograms [] f = "loops" -> LoopPrograms
    [] f = "assign" -> AssignPrograms [] f = "calls" -> CallPrograms [] f = "meta" -> MetaPrograms
    [] f = "errors" -> ErrorPrograms [] f = "unwind" -> UnwindPrograms [] f = "nav" -> NavPrograms
    [] f = "goto" -> GotoPrograms
=============================================================================
