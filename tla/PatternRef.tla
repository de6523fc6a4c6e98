----------------------------- MODULE PatternRef -----------------------------
(***************************************************************************)
(* What a pattern means, said without a matcher: a pattern is a sequence   *)
(* of items, and a way to match is the sequence of the lengths its items   *)
(* take.  Of all the ways that fit, the one that comes first when they are *)
(* compared item by item is the match: a greedy item prefers to take more, *)
(* a lazy one less.  A match further left comes before all others.         *)
(*                                                                         *)
(* An item carries its spelling src, so that a sequence of items gives the *)
(* pattern the code is called with (Spelling) and its meaning.             *)
(***************************************************************************)
EXTENDS Integers, Sequences, SequencesExt, FiniteSetsExt

CONSTANT Chars \* the characters of the texts, and the one outside of them

Item(src, k, S, rep) == [src |-> src, k |-> k, S |-> S, rep |-> rep, n |-> 0, y |-> ""]
One(src, S) == Item(src, "set", S, "")
Rep(src, S, rep) == Item(Append(src, rep), "set", S, rep)
Open == Item(<<"(">>, "open", {}, "")
Close == Item(<<")">>, "close", {}, "")
End == Item(<<"$">>, "end", {}, "")
Balance(x, y) == [Item(<<"%", "b", x, y>>, "balance", {x}, "") EXCEPT !.y = y]
Frontier(src, S) == Item(<<"%", "f">> \o src, "frontier", S, "")
Back(n) == [Item(<<"%", ToString(n)>>, "back", {}, "") EXCEPT !.n = n]

Spelling(anchored, items) == (IF anchored THEN <<"^">> ELSE <<>>) \o FlattenSeq([i \in DOMAIN items |-> items[i].src])

\* Which items open and close which capture, which captures are positions,
\* and the first item that can never be passed: a ) with nothing to close,
\* a reference to a capture that has no text at that place.
Layout(items) ==
  LET Add(l, i) ==
        LET k == items[i].k
            pos == k = "open" /\ i < Len(items) /\ items[i + 1].k = "close"
            shut == k = "close" /\ i > 1 /\ items[i - 1].k = "open"
            N == Max(l.stack)
            lost == \/ k = "close" /\ ~shut /\ l.stack = {}
                    \/ k = "back" /\ (items[i].n \notin DOMAIN l.caps \/ items[i].n \in l.stack \/ items[i].n \in l.pos)
        IN  CASE l.bad > 0 -> l
              [] lost -> [l EXCEPT !.bad = i]
              [] pos -> [l EXCEPT !.caps = Append(@, <<i, i>>), !.pos = @ \cup {Len(l.caps) + 1}]
              [] k = "open" -> [l EXCEPT !.caps = Append(@, <<i, 0>>), !.stack = @ \cup {Len(l.caps) + 1}]
              [] k = "close" /\ ~shut -> [l EXCEPT !.caps[N][2] = i, !.stack = @ \ {N}]
              [] OTHER -> l
  IN  FoldLeft(Add, [caps |-> <<>>, stack |-> {}, pos |-> {}, bad |-> 0], [i \in DOMAIN items |-> i])

\* The place where item j starts on a way w that starts at s.
PlaceOf(s, w, j) == s + FoldLeft(+, 0, SubSeq(w, 1, j - 1))

Char(text, p) == IF p \in 0 .. (Len(text) - 1) THEN text[p + 1] ELSE "nul"
Count(text, p, n, c) == Cardinality({i \in p .. (p + n - 1) : Char(text, i) = c})
\* The lengths an item can take behind a way.
Takes(text, items, caps, s, w) ==
  LET i == Len(w) + 1
      it == items[i]
      p == PlaceOf(s, w, i)
      fits == {n \in 0 .. (Len(text) - p) : \A q \in p .. (p + n - 1) : Char(text, q) \in it.S}
      Level(n) == Count(text, p, n, CHOOSE x \in it.S : TRUE) - Count(text, p, n, it.y)
      a == PlaceOf(s, w, caps[it.n][1])
      b == PlaceOf(s, w, caps[it.n][2])
  IN  CASE it.k = "set" -> CASE it.rep \in {"*", "-"} -> fits
                             [] it.rep = "+" -> fits \ {0}
                             [] it.rep = "?" -> fits \cap {0, 1}
                             [] OTHER -> fits \cap {1}
        [] it.k \in {"open", "close"} -> {0}
        [] it.k = "end" -> {n \in {0} : p = Len(text)}
        [] it.k = "frontier" -> {n \in {0} : Char(text, p - 1) \notin it.S /\ Char(text, p) \in it.S}
        [] it.k = "balance" -> {n \in 2 .. (Len(text) - p) : /\ Char(text, p) \in it.S
                                                             /\ Level(n) = 0 /\ \A m \in 1 .. (n - 1) : Level(m) > 0}
        [] it.k = "back" -> {n \in 0 .. (Len(text) - p) : n = b - a /\ \A j \in 0 .. (n - 1) : Char(text, p + j) = Char(text, a + j)}

Ways(text, items, caps, s, upto) ==
  FoldLeft(LAMBDA W, i : UNION {{Append(w, n) : n \in Takes(text, items, caps, s, w)} : w \in W}, {<<>>}, [i \in 1 .. upto |-> i])
\* The preferred one of several ways.
First(items, W) ==
  CHOOSE w \in W : \A v \in W \ {w} :
    LET i == Min({j \in DOMAIN w : w[j] # v[j]}) IN IF items[i].rep = "-" THEN w[i] < v[i] ELSE w[i] > v[i]

\* The first match from init on: [k, start, end, caps], none, or an error.
RefFind(text, anchored, items, init) ==
  LET l == Layout(items)
      upto == IF l.bad > 0 THEN l.bad - 1 ELSE Len(items)
      starts == {s \in init .. (IF anchored THEN init ELSE Len(text)) : Ways(text, items, l.caps, s, upto) # {}}
      s == Min(starts)
      w == First(items, Ways(text, items, l.caps, s, upto))
      Cap(c) == IF c \in l.pos THEN <<"pos", PlaceOf(s, w, l.caps[c][1]) + 1>>
                ELSE <<"text", PlaceOf(s, w, l.caps[c][1]), PlaceOf(s, w, l.caps[c][2])>>
  IN  CASE init > Len(text) \/ starts = {} -> [k |-> "none"]
        [] l.bad > 0 \/ l.stack # {} -> [k |-> "error"]
        [] OTHER -> [k |-> "found", start |-> s, end |-> PlaceOf(s, w, Len(items) + 1), caps |-> [c \in DOMAIN l.caps |-> Cap(c)]]

\* All matches one behind the other, at most max of them: the next one is
\* looked for where the last one ended, one further when it was empty.  With
\* apart an empty match that touches the nonempty one before it is passed
\* over.  An anchored pattern has no next match (gsub of lstrlib.c stops
\* after the first attempt).  The list ends with the error, if there is one.
RECURSIVE RefAll(_, _, _, _, _, _, _)
RefAll(text, anchored, items, from, touch, apart, max) ==
  LET f == RefFind(text, anchored, items, from)
      empty == f.start = f.end
      next == IF empty THEN f.end + 1 ELSE f.end
  IN  CASE max = 0 -> <<>>
        [] f.k # "found" -> IF f.k = "error" THEN <<f>> ELSE <<>>
        [] apart /\ empty /\ f.start = touch -> RefAll(text, anchored, items, f.start + 1, -1, apart, max)
        [] anchored -> <<f>>
        [] OTHER -> <<f>> \o RefAll(text, anchored, items, next, IF empty THEN -1 ELSE f.end, apart, max - 1)

(* Replacements: pieces with their spelling and their meaning, cap = -1 for *)
(* a piece that stands for itself, cap = -2 for an escape that has none.    *)
Lit(src, s) == [src |-> src, s |-> s, cap |-> -1]
CapRef(n) == [src |-> <<"%", ToString(n)>>, s |-> <<>>, cap |-> n]
BadEscape(c) == [src |-> <<"%", c>>, s |-> <<>>, cap |-> -2]
Written(pieces) == FlattenSeq([i \in DOMAIN pieces |-> pieces[i].src])
PieceOk(piece, f) == piece.cap \in {-1, 0} \/ piece.cap \in DOMAIN f.caps \/ (piece.cap = 1 /\ f.caps = <<>>)
PieceText(text, piece, f) ==
  CASE piece.cap = -1 -> piece.s
    [] piece.cap = 0 \/ f.caps = <<>> -> SubSeq(text, f.start + 1, f.end)
    [] OTHER -> LET c == f.caps[piece.cap] IN IF c[1] = "pos" THEN <<ToString(c[2])>> ELSE SubSeq(text, c[2] + 1, c[3])
RefRepl(text, pieces, f) == FlattenSeq([i \in DOMAIN pieces |-> PieceText(text, pieces[i], f)])
\* The text with each match of fs replaced by the text of news for it.
RefReplaced(text, fs, news) ==
  LET Before(i) == SubSeq(text, (IF i = 1 THEN 0 ELSE fs[i - 1].end) + 1, IF i > Len(fs) THEN Len(text) ELSE fs[i].start)
  IN  FlattenSeq([i \in 1 .. (Len(fs) + 1) |-> Before(i) \o (IF i > Len(fs) THEN <<>> ELSE news[i])])
=============================================================================
