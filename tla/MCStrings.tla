------------------------------ MODULE MCStrings ------------------------------
(***************************************************************************)
(* The interner and the library functions, beside each other: a behaviour  *)
(* either works on the string table or makes one call of the library.      *)
(* Five strings: at 4 slots sc and sd collide and sd wraps around to the   *)
(* others' slots, se to sc fill the table; at 8 slots sc and sd still      *)
(* collide.  Small calls: patterns of up to three items between an         *)
(* optional ^ and an optional $, longer ones with several captures         *)
(* (Groups), texts of up to three characters, all comparators of a kind,   *)
(* tables of up to five elements.                                          *)
(***************************************************************************)
EXTENDS Interner, LibraryProps

CONSTANTS se, sa, sb, sc, sd

MCHash == (se :> 0) @@ (sa :> 1) @@ (sb :> 2) @@ (sc :> 3) @@ (sd :> 11)

\* No library call.
Silent == req = [op |-> ""] /\ call = NewCall
MCInit == Init /\ (Silent \/ LibInit)
MCNext == \/ req.op = "" /\ Next /\ UNCHANGED lvars
          \/ LibNext /\ UNCHANGED vars
MCSpec == MCInit /\ [][MCNext]_<<vars, lvars>>

CONSTANTS MaxItems,  \* items of a pattern
          MaxText,   \* characters of a text
          MaxSort    \* elements of a table that is sorted

MCChars == {"nul", "(", ")", "a", "b", "x"}

Items ==
  {One(<<"a">>, {"a"}), One(<<".">>, MCChars), Rep(<<"a">>, {"a"}, "*"), Rep(<<".">>, MCChars, "-"), Rep(<<"%", "a">>, {"a", "b", "x"}, "+"),
   Rep(<<"[", "^", "a", "]">>, MCChars \ {"a"}, "?"), Open, Close, Back(1), Balance("(", ")"), Frontier(<<"[", "a", "]">>, {"a"})}
MoreItems == {One(<<"[", "a", "-", "b", "]">>, {"a", "b"}), One(<<"[", "%", "A", "]">>, MCChars \ {"a", "b", "x"}), Rep(<<"b">>, {"b"}, "-"),
              One(<<"%", ".">>, {}), One(<<"b">>, {"b"})}

Seqs(S, n) == UNION {[1 .. k -> S] : k \in 0 .. n}
Texts == Seqs({"a", "b"}, MaxText) \cup {<<"(", "a", ")">>, <<"(", "(", ")">>, <<"a", "(", ")", "b">>}
ShortTexts == Seqs({"a", "b"}, 2) \cup {<<"a", "b", "a">>, <<"(", "a", ")">>}
Pattern(anchored, items) == [anchored |-> anchored, items |-> items, pat |-> Spelling(anchored, items)]
\* A ) among ordinary characters only is one of them.
Sensible(p) == (\E i \in DOMAIN p.items : p.items[i].k = "close") => ~is_plain_pattern(p.pat)
Wide == {p \in {Pattern(FALSE, s) : s \in Seqs(Items, MaxItems)} \cup {Pattern(FALSE, Append(s, End)) : s \in Seqs(Items, MaxItems - 1)}
               \cup {Pattern(TRUE, s) : s \in Seqs(Items, MaxItems - 1)} : Sensible(p)}
\* A capture with an item behind it, and one in another.
Groups == {Pattern(FALSE, <<Open, x, Close, y>>) : x, y \in Items} \cup {Pattern(FALSE, <<Open, x, Open, y, Close, Close, Back(2)>>) : x, y \in Items}
Narrow == {p \in {Pattern(FALSE, s) : s \in Seqs(Items \cup MoreItems, 2)} \cup {Pattern(TRUE, s) : s \in Seqs(Items \cup MoreItems, 1)}
                 \cup {Pattern(FALSE, Append(s, End)) : s \in Seqs(Items, 1)} : Sensible(p)}

Job(op, t, p, init, max, pieces) ==
  [op |-> op, text |-> t, anchored |-> p.anchored, items |-> p.items, pat |-> p.pat, init |-> init, max |-> max, pieces |-> pieces,
   repl |-> Written(pieces)]
FromStart == {Job("find", t, p, 1, NoMax, <<>>) : t \in Texts, p \in Wide \cup Groups}
FromPlace == {Job("find", t, p, i, NoMax, <<>>) : t \in ShortTexts, p \in Narrow, i \in {-2, 4}}
Matches == {Job("match", t, p, i, NoMax, <<>>) : t \in ShortTexts, p \in Narrow, i \in {0, 2}}
\* A plain search starts inside the text and looks for something.
Plain == {[op |-> "plain", text |-> t, init |-> i, pat |-> p] : t \in Texts, i \in -2 .. 1, p \in {<<"a">>, <<"b", "a">>, <<".">>}}
Iterations == {Job("gmatch", t, p, 1, NoMax, <<>>) : t \in Texts, p \in Narrow}
Replacements == {<<Lit(<<"x">>, <<"x">>)>>, <<CapRef(0), CapRef(1)>>, <<CapRef(2), Lit(<<"%", "%">>, <<"%">>), Lit(<<"%">>, <<"%">>)>>,
                 <<BadEscape("x")>>}
Substitutions == {Job("gsub", t, p, 1, NoMax, r) : t \in ShortTexts, p \in Narrow, r \in Replacements}
Limited == {Job("gsub", t, p, 1, 1, <<CapRef(0)>>) : t \in ShortTexts, p \in Narrow}
Callbacks == {Job("gsub_fn", t, p, 1, m, <<>>) : t \in ShortTexts, p \in Narrow, m \in {1, NoMax}}
Index == {<<>>} \cup {<<k>> : k \in -5 .. 5}
Substrings == {[op |-> "sub", text |-> t, i |-> i, j |-> j] : t \in {<<>>, <<"a">>, <<"a", "b", "x">>}, i, j \in Index}

V == 1 .. 3
Comparator(Yes(_, _), Err(_, _)) == [a, b \in V |-> IF Err(a, b) THEN "err" ELSE IF Yes(a, b) THEN "yes" ELSE "no"]
Never(a, b) == FALSE
Comparators ==
  {Comparator(<, Never), Comparator(>, Never), Comparator(<=, Never), Comparator(#, Never), Comparator(LAMBDA a, b : a % 2 < b % 2, Never),
   Comparator(<, LAMBDA a, b : a = 2 /\ b = 1)}
Sorts == {[op |-> "sort", items |-> s, cmp |-> c, depth |-> d] : s \in Seqs(V, MaxSort), c \in Comparators, d \in 0 .. 2}
Lists == {[op |-> "list", values |-> v, depth |-> d] : v \in {2, 5}, d \in {0, 2}}

MCFind(txt, pat, init) == LET f == find(txt, pat, init) IN f
MCTryAt(txt, pat, si) == LET f == Attempt(txt, pat, si) IN f
MCSubstitute(repl, txt, f) == LET s == substitute_captures(repl, 0, txt, f) IN s
MCSortTable(t, cmp, depth) == LET u == tab_sort(t, cmp, depth) IN u
MCFirstOf(txt, anchored, items, init) == LET f == RefFind(txt, anchored, items, init) IN f
MCAllOf(txt, anchored, items, apart, max) == LET fs == RefAll(txt, anchored, items, 0, -1, apart, max) IN fs

MCJobs ==
  LET J == <<FromStart, FromPlace, Matches, Plain, Iterations, Substitutions, Limited, Callbacks, Substrings, Sorts, Lists>> IN J
=============================================================================
