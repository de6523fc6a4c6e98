---------------------------- MODULE LoopPrograms ----------------------------
(***************************************************************************)
(* The Lua programs whose loops are compiled to traces: each family has    *)
(* loops whose body uses one part of the recorder, and whose later         *)
(* iterations differ from the one that is recorded.                        *)
(***************************************************************************)
EXTENDS Syntax

For(n, body) == <<"fornum", "i", Num(1), Num(n), <<>>, body>>
Step(from, to, step, body) == <<"fornum", "i", from, to, <<step>>, body>>
While(n, body) == <<"while", Bin(Nom("k"), "<", Num(n)), <<<<"compound", Nom("k"), "+", Num(1)>>, Local(<<"i">>, <<Nom("k")>>)>> \o body>>
Repeat(n, body) == <<"repeat", <<<<"compound", Nom("k"), "+", Num(1)>>, Local(<<"i">>, <<Nom("k")>>)>> \o body, Bin(Nom("k"), "==", Num(n))>>
Add(x, e) == <<"compound", Nom(x), "+", e>>
Assign(x, e) == Set(<<Nom(x)>>, <<e>>)
IfElse(c, body, other) == <<"if", <<<<c, body>>>>, <<other>>>>
Nums == <<Local(<<"s", "k", "d", "n">>, <<Num(0), Num(0), Num(2), Num(0)>>)>>
Results == <<Return(<<Nom("s"), Nom("d"), Nom("n")>>)>>
In(before, loops) == {Nums \o before \o <<l>> \o Results : l \in loops}

\* Numbers: what folding, narrowing and the loop optimisation must preserve.
Operations == {<<a, o, b>> : a \in {Nom("i"), Nom("d"), Num(3)}, o \in {"+", "-", "*", "&", "<<"}, b \in {Nom("i"), Nom("d"), Num(0), Num(1)}}
  \cup {<<a, "%", b>> : a \in {Nom("i"), Nom("d"), Num(3)}, b \in {Nom("i"), Num(1), Num(2)}}
  \cup {<<a, "^", b>> : a \in {Nom("i"), Num(2)}, b \in {Nom("i"), Num(0), Num(1), Num(2)}}
ArithBodies ==
  {<<Assign("d", Bin(x[1], x[2], x[3])), Add("s", Nom("d"))>> : x \in Operations}
  \cup {<<Add("s", Bin(Paren(Bin(Nom("i"), o, Num(1))), p, Nom("i")))>> : o \in {"+", "-", "*"}, p \in {"+", "-", "*", "|", "~"}}
  \cup {<<Assign("d", Ops(<<<<"un", u>>, Nom("i")>>)), Add("s", Ops(<<<<"un", u>>, Nom("d")>>))>> : u \in {"UNM", "BNOT"}}
ArithPrograms == In(<<>>, {For(4, b) : b \in ArithBodies})

\* Branches: the exits of a trace, and the side traces recorded from them.
Conditions == {Bin(Nom("i"), o, c) : o \in {"<", ">=", "==", "~="}, c \in {Num(3), Nom("d")}}
BranchBodies ==
  {<<IfElse(c, <<Add("s", Nom("i"))>>, <<Add("n", Num(1))>>)>> : c \in Conditions}
  \cup {<<Local(<<"x">>, <<Bin(Nom("i"), "*", Num(2))>>), If(c, <<Assign("x", e), Assign("d", Nom("x"))>>), Add("s", Nom("x"))>> :
          c \in Conditions, e \in {Num(1), Nom("s")}}
  \cup {<<If(c, <<e>>), Add("s", Nom("i"))>> : c \in {Bin(Nom("i"), ">", Num(3))}, e \in {<<"break">>, <<"continue">>}}
BranchPrograms == In(<<>>, UNION {{For(5, b), While(5, b), Repeat(5, b)} : b \in BranchBodies})

\* Values that change their type, and conditions on them.
TypeBodies ==
  {<<IfElse(x, <<Add("s", Num(1))>>, <<Add("n", Num(1))>>), If(Bin(Nom("i"), "==", Num(2)), <<Assign("x", e)>>)>> :
     x \in {Nom("x"), Ops(<<<<"un", "NOT">>, Nom("x")>>), Bin(Nom("x"), "==", Num(1)), Bin(Nom("x"), "==", NilE), Bin(Nom("x"), "~=", Str("a"))},
     e \in {NilE, True, Str("a"), Num(1), Nom("i")}}
  \cup {<<Local(<<"y">>, <<Bin(Nom("x"), o, Nom("i"))>>), Assign("x", e), Assign("n", Nom("y"))>> : o \in {"and", "or", "??"}, e \in {NilE, False, Nom("i")}}
TypePrograms == In(<<Local(<<"x">>, <<Num(1)>>)>>, {For(4, b) : b \in TypeBodies})

\* Loops in loops, and loops whose bounds and step are variables.
NestedPrograms ==
  In(<<Local(<<"z">>, <<Num(-2)>>)>>, {For(3, <<<<"fornum", "j", Num(1), e, <<>>, b>>>>) : e \in {Num(2), Num(4), Nom("i"), Nom("d")}, b \in {<<Add("s", Nom("j"))>>, <<Add("s", Nom("i"))>>}}
      \cup {For(3, <<Assign("k", Num(0)), <<"while", Bin(Nom("k"), "<", Nom("i")), <<Add("k", Num(1)), Add("s", Nom("k"))>>>>>>)}
      \cup {Step(x[1], x[2], x[3], <<Add("s", Nom("i")), Add("n", Num(1))>>) :
              x \in {<<Num(5), Num(1), Nom("z")>>, <<Num(1), Nom("d"), Num(1)>>, <<Nom("d"), Num(-3), Num(-2)>>, <<Num(4), Num(1), Num(-1)>>}}
      \cup {Step(Num(1), Nom("d"), Num(1), <<Assign("d", Num(9)), Add("s", Nom("i"))>>)})

\* Inlined calls: arguments, results, recursion, tail calls, varargs, and
\* exits from inside a callee.
Fun(name, params, body) == <<"localfn", name, Fn(params, FALSE, body)>>
Twice == Fun("f", <<"x", "y">>, <<Return(<<Bin(Nom("x"), "*", Num(2)), Nom("y")>>)>>)
Inner(c) == Fun("f", <<"x">>, <<If(Bin(Nom("x"), c, Num(3)), <<Return(<<Num(7)>>)>>), Return(<<Nom("x")>>)>>)
Rec(e) == Fun("f", <<"x">>, <<If(Bin(Nom("x"), "<", Num(1)), <<Return(<<Num(1)>>)>>), Return(<<e>>)>>)
Down == CallOf(Nom("f"), <<Bin(Nom("x"), "-", Num(1))>>)
CallBodies == {<<Add("s", CallOf(Nom("f"), <<Nom("i"), Nom("d")>>))>>,
               <<Local(<<"a", "b", "c">>, <<CallOf(Nom("f"), <<Nom("i")>>)>>), Add("s", Nom("a")), Assign("n", Nom("b"))>>,
               <<Do(CallOf(Nom("f"), <<Nom("i")>>)), Add("s", CallOf(Nom("g"), <<Nom("i")>>))>>,
               <<Add("s", Bin(CallOf(Nom("g"), <<Nom("i")>>), "+", CallOf(Nom("f"), <<CallOf(Nom("g"), <<Num(1)>>)>>)))>>,
               <<Add("s", CallOf(Nom("f"), <<Nom("i")>>)), If(Bin(Nom("i"), "==", Num(2)), <<Assign("f", Nom("g"))>>)>>}
Callees == {Twice, Inner("<"), Inner(">="), Inner("=="), Rec(Bin(Down, "+", Num(1))), Rec(Down)}
CallPrograms ==
  UNION {In(<<Fun("g", <<"x">>, <<Return(<<Bin(Nom("x"), "+", Num(1))>>)>>), f>>, {For(4, b) : b \in CallBodies}) : f \in Callees}
  \cup In(<<Fun("g", <<"x">>, <<Return(<<Num(1)>>)>>), Fun("f", <<"x">>, <<Return(<<CallOf(Nom("g"), <<Nom("x")>>)>>)>>)>>, {For(4, b) : b \in CallBodies})
  \cup {Nums \o <<Local(<<"f">>, <<Fn(<<"a">>, TRUE, <<For(3, <<Local(<<"x", "y">>, <<Dots>>), Add("s", Nom("x")), Assign("n", Nom("y"))>>)>>)>>),
                  Do(CallOf(Nom("f"), args))>> \o Results : args \in {<<Num(1), Num(5)>>, <<Num(1), Num(5), Num(6)>>}}

\* Upvalues that the loop reads and writes, open and closed.  An upvalue of
\* the loop's own frame is not read again in the iteration that wrote it.
UpFun(body) == Fun("f", <<>>, body)
UpReads == {<<Add("s", CallOf(Nom("f"), <<>>))>>, <<Add("u", Num(1)), Add("s", CallOf(Nom("f"), <<>>))>>,
            <<Do(CallOf(Nom("f"), <<>>)), Add("s", Nom("u"))>>,
            <<Add("u", Nom("i")), If(Bin(Nom("u"), ">", Num(3)), <<Assign("n", Nom("u"))>>), Add("s", CallOf(Nom("f"), <<>>))>>}
UpWrites == {<<Do(CallOf(Nom("f"), <<>>)), Add("s", Num(1))>>, <<Add("s", Nom("u")), Do(CallOf(Nom("f"), <<>>))>>,
             <<Add("s", Nom("u")), If(Bin(Nom("i"), ">", Num(2)), <<Do(CallOf(Nom("f"), <<>>))>>)>>}
Maker == Fun("mk", <<>>, <<Local(<<"u">>, <<Num(1)>>), Return(<<Fn(<<>>, FALSE, <<Add("u", Num(1)), Return(<<Nom("u")>>)>>)>>)>>)
UpvaluePrograms ==
  UNION {In(<<Local(<<"u">>, <<Num(1)>>), UpFun(<<Return(<<Nom("u")>>)>>)>>, {For(4, b), While(4, b)}) : b \in UpReads}
  \cup UNION {In(<<Local(<<"u">>, <<Num(1)>>), UpFun(f)>>, {For(4, b), While(4, b)}) :
                b \in UpWrites, f \in {<<Add("u", Num(2))>>, <<Assign("u", Num(3))>>}}
  \cup In(<<Maker, Local(<<"f">>, <<CallOf(Nom("mk"), <<>>)>>)>>,
          {For(4, b) : b \in {<<Add("s", CallOf(Nom("f"), <<>>))>>,
                              <<Add("s", CallOf(Nom("f"), <<>>)), If(Bin(Nom("i"), "==", Num(2)), <<Assign("f", CallOf(Nom("mk"), <<>>))>>)>>}})

\* Tables: fields and elements read and written, new tables, the length.
Len_(x) == Ops(<<<<"un", "LEN">>, Nom(x)>>)
Tab == T(<<<<"pos", Num(4)>>, <<"pos", Num(5)>>, <<"pos", Num(6)>>, <<"pos", Num(7)>>, <<"named", "a", Num(1)>>>>)
TableBodies ==
  {<<Add("s", Idx(Nom("t"), Nom("i")))>>, <<Add("s", Fld(Nom("t"), "a")), Set(<<Fld(Nom("t"), "a")>>, <<Nom("i")>>)>>,
   <<Set(<<Idx(Nom("t"), Nom("i"))>>, <<Nom("s")>>), Add("s", Bin(Nom("i"), "+", Idx(Nom("t"), Nom("i"))))>>,
   <<Set(<<Idx(Nom("t"), Num(2))>>, <<Nom("i")>>), Set(<<Idx(Nom("t"), Num(2))>>, <<Bin(Nom("i"), "*", Num(3))>>), Add("s", Idx(Nom("t"), Num(2)))>>,
   <<Set(<<Fld(Nom("t"), "b")>>, <<Nom("i")>>), Assign("n", Fld(Nom("t"), "c")), Add("s", Fld(Nom("t"), "b"))>>,
   <<Local(<<"x">>, <<Idx(Nom("t"), Nom("i"))>>), If(Bin(Nom("x"), "==", Num(6)), <<Set(<<Fld(Nom("t"), "a")>>, <<Num(9)>>)>>), Add("s", Fld(Nom("t"), "a"))>>,
   <<Local(<<"x">>, <<T(<<>>)>>), Set(<<Fld(Nom("x"), "a")>>, <<Nom("i")>>), Add("s", Fld(Nom("x"), "a"))>>,
   <<Local(<<"x">>, <<T(<<<<"named", "a", Num(2)>>>>)>>), Add("s", Fld(Nom("x"), "a")), Assign("t", Nom("x"))>>,
   <<Add("s", Len_("t")), Set(<<Idx(Nom("t"), Bin(Paren(Len_("t")), "+", Num(1)))>>, <<Nom("i")>>)>>,
   <<Set(<<Idx(Nom("t"), Nom("i"))>>, <<NilE>>), Add("s", Len_("t"))>>,
   <<Add("s", Idx(Nom("t"), Bin(Nom("i"), "+", Num(1)))), Set(<<Idx(Nom("t"), Bin(Nom("i"), "+", Num(2)))>>, <<Num(1)>>)>>,
   <<Set(<<Nom("gl")>>, <<Nom("i")>>), Add("s", Nom("gl"))>>}
TablePrograms == In(<<Local(<<"t">>, <<Tab>>)>>, UNION {{For(3, b), While(5, b)} : b \in TableBodies})

\* Metatables: delegated fields, functions for missing ones, for new ones,
\* for the length and for calls.
With(fields) == <<Local(<<"t">>, <<CallOf(Nom("setmetatable"), <<T(<<<<"named", "a", Num(1)>>>>), T(fields)>>)>>)>>
Self(e) == Fn(<<"t", "x", "y">>, FALSE, <<Return(<<e>>)>>)
MetaFields == {<<<<"named", "__index", T(<<<<"named", "b", Num(5)>>>>)>>>>, <<<<"named", "__index", Self(Nom("x"))>>>>,
               <<<<"named", "__len", Self(Num(8))>>>>, <<<<"named", "__call", Self(Nom("x"))>>>>,
               <<<<"named", "__newindex", Fn(<<"t", "x", "y">>, FALSE, <<Do(CallOf(Nom("rawset"), <<Nom("t"), Nom("x"), Num(9)>>))>>)>>>>}
MetaBodies == {<<Add("s", Fld(Nom("t"), "a"))>>, <<Assign("n", Fld(Nom("t"), "b"))>>, <<Add("s", Len_("t"))>>,
               <<Add("s", CallOf(Nom("t"), <<Nom("i")>>))>>, <<Set(<<Fld(Nom("t"), "c")>>, <<Nom("i")>>), Add("n", Num(1))>>,
               <<If(Bin(Nom("i"), "==", Num(2)), <<Do(CallOf(Nom("setmetatable"), <<Nom("t"), T(<<>>)>>))>>), Assign("n", Fld(Nom("t"), "b"))>>}
Safely(p) == <<Local(<<"ok", "r">>, <<CallOf(Nom("pcall"), <<Fn(<<>>, FALSE, p)>>)>>), Return(<<Nom("ok"), Nom("r")>>)>>
MetaPrograms == {Safely(p) : p \in UNION {In(With(f), {For(4, b)}) : f \in MetaFields, b \in MetaBodies}}

\* Concatenation: pairs, several operands, and the buffer for s = s .. x.
CatBodies == {<<Assign("x", Bin(Nom("x"), "..", e))>> : e \in {Nom("i"), Str("b"), Nom("d")}}
  \cup {<<Assign("x", Ops(<<Nom("x"), Tok(".."), Nom("i"), Tok(".."), Str("c")>>))>>,
        <<Assign("x", Bin(Nom("x"), "..", Nom("i"))), If(Bin(Nom("i"), ">", Num(2)), <<Add("s", Num(1))>>)>>,
        <<Local(<<"y">>, <<Bin(Nom("d"), "..", Nom("i"))>>), Assign("n", Nom("y"))>>,
        <<Assign("x", Bin(Nom("x"), "..", Nom("i"))), Add("s", Len_("x"))>>,
        <<Assign("x", Bin(Nom("i"), "..", Nom("x")))>>}
CatPrograms == {Nums \o <<Local(<<"x">>, <<Str("a")>>), l, Return(<<Nom("s"), Nom("n"), Nom("x")>>)>> :
                 l \in UNION {{For(4, b), While(4, b)} : b \in CatBodies}}

\* Library functions on trace.
Call(f, args) == CallOf(Nom(f), args)
LibBodies ==
  {<<Add("s", e)>> : e \in {Call("abs", <<Bin(Nom("i"), "-", Num(3))>>), Call("max", <<Nom("i"), Nom("d")>>), Call("min", <<Nom("d"), Nom("i"), Num(3)>>),
                            Call("rawget", <<Nom("t"), Nom("i")>>), Call("tonumber", <<Nom("i")>>), Call("remove", <<Nom("t")>>)}}
  \cup {<<Assign("n", Call("type", <<x>>)), If(Bin(Nom("i"), "==", Num(2)), <<Assign("x", Nom("i"))>>)>> : x \in {Nom("x"), Nom("i")}}
  \cup {<<Do(Call("rawset", <<Nom("t"), Nom("i"), Nom("d")>>)), Add("s", Idx(Nom("t"), Nom("i")))>>,
        <<Do(Call("insert", <<Nom("t"), Nom("i")>>)), Add("s", Len_("t"))>>,
        <<Do(Call("remove", <<Nom("t")>>)), Do(Call("insert", <<Nom("t"), Nom("i")>>)), Add("s", Idx(Nom("t"), Num(4)))>>,
        <<Do(Call("setmetatable", <<Nom("t"), T(<<>>)>>)), Add("s", Idx(Nom("t"), Nom("i")))>>,
        <<Do(Out(Nom("i"))), Add("s", Nom("i"))>>,
        <<Add("s", Bin(Nom("i"), "*", Num(2))), Add("n", Nom("s")), Assign("d", Out(Nom("n")))>>}
LibPrograms == In(<<Local(<<"t", "x">>, <<Tab, NilE>>)>>, {For(4, b) : b \in LibBodies})

\* Generic loops: over next and over a function.
UptoFn == Fun("upto", <<"m", "c">>, <<If(Bin(Nom("c"), "<", Nom("m")), <<Return(<<Bin(Nom("c"), "+", Num(1)), Nom("c")>>)>>)>>)
IterBodies == {<<Add("s", Nom("v")), Add("n", Num(1))>>, <<If(Bin(Nom("v"), ">", Num(2)), <<Add("s", Nom("v"))>>)>>, <<Set(<<Idx(Nom("t"), Nom("i"))>>, <<Num(1)>>), Add("s", Nom("v"))>>}
IterPrograms ==
  In(<<UptoFn, Local(<<"t">>, <<Tab>>)>>,
     {<<"forin", <<"i", "v">>, x, b>> : x \in {<<Nom("next"), Nom("t")>>, <<Nom("upto"), Num(5), Num(0)>>}, b \in IterBodies})

AllLoops == ArithPrograms \cup BranchPrograms \cup TypePrograms \cup NestedPrograms \cup CallPrograms \cup UpvaluePrograms
       \cup TablePrograms \cup MetaPrograms \cup CatPrograms \cup LibPrograms \cup IterPrograms
=============================================================================
