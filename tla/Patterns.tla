------------------------------ MODULE Patterns ------------------------------
(***************************************************************************)
(* The pattern matcher of the string library (stdlib/pattern/class.rs,     *)
(* stdlib/pattern/engine.rs): a pattern is interpreted where it stands,    *)
(* by recursive functions that share one match state and undo in it what   *)
(* they did when they have to backtrack.                                   *)
(*                                                                         *)
(* Characters are strings of length one; texts and patterns are sequences  *)
(* of them, with indices from 0 as in the source.  A match state ms has    *)
(* the text, the pattern, the capture slots cap, the number n of slots in  *)
(* use, the nesting depth and the error err ("" is none).  Every function  *)
(* returns the end r of the match, or None, and the state it leaves.       *)
(***************************************************************************)
EXTENDS Integers, Sequences, SequencesExt, FiniteSetsExt

CONSTANTS LUA_MAXCAPTURES, \* capture slots (32 in the source)
          MAXCCALLS        \* nesting of match_impl

None == -1
Unfinished == -1
Position == -2
NUL == "nul"

CharAt(s, i) == s[i + 1]
Is(s, i, c) == i < Len(s) /\ CharAt(s, i) = c

---------------------------------------------------------------------------
(* Character classes and sets. *)

\* The characters of the instance in the order of their codes.
Codes == <<NUL, "(", ")", "1", "2", "a", "b", "x">>
code(c) == IF \E i \in DOMAIN Codes : Codes[i] = c THEN CHOOSE i \in DOMAIN Codes : Codes[i] = c ELSE 0
Alpha == {"a", "b", "x"}
Digit == {"1", "2"}
Punct == {"(", ")"}
Class == [a |-> Alpha, c |-> {NUL}, d |-> Digit, g |-> Alpha \cup Digit \cup Punct, l |-> Alpha, p |-> Punct, s |-> {},
          u |-> {}, w |-> Alpha \cup Digit, x |-> {"a", "b"} \cup Digit, z |-> {NUL}]
Inverted == [A |-> "a", C |-> "c", D |-> "d", G |-> "g", L |-> "l", P |-> "p", S |-> "s", U |-> "u", W |-> "w", X |-> "x",
             Z |-> "z"]

match_class(c, cl) == IF cl \in DOMAIN Class THEN c \in Class[cl] ELSE c = cl
EscapeMatches(c, cl) == IF cl \in DOMAIN Inverted THEN ~match_class(c, Inverted[cl]) ELSE match_class(c, cl)

\* A set starts behind [ and ^; a ] there is an ordinary character.
SetStart(pat, pp) == IF Is(pat, pp + 1, "^") THEN pp + 2 ELSE pp + 1
RECURSIVE SetEnd(_, _)
SetEnd(pat, i) ==
  IF i >= Len(pat) \/ CharAt(pat, i) = "]" THEN i
  ELSE SetEnd(pat, IF CharAt(pat, i) = "%" /\ i + 1 < Len(pat) THEN i + 2 ELSE i + 1)
FirstItem(pat, i) == IF Is(pat, i, "]") THEN i + 1 ELSE i

element_end(pat, pp) ==
  CASE CharAt(pat, pp) = "%" -> pp + 2
    [] CharAt(pat, pp) = "[" -> SetEnd(pat, FirstItem(pat, SetStart(pat, pp))) + 1
    [] OTHER -> pp + 1

RECURSIVE SetItems(_, _, _)
SetItems(c, pat, i) ==
  LET range == i + 2 < Len(pat) /\ CharAt(pat, i + 1) = "-" /\ CharAt(pat, i + 2) # "]"
  IN  IF i >= Len(pat) \/ CharAt(pat, i) = "]" THEN FALSE
      ELSE CASE CharAt(pat, i) = "%" /\ i + 1 < Len(pat) -> EscapeMatches(c, CharAt(pat, i + 1)) \/ SetItems(c, pat, i + 2)
             [] range -> code(c) \in code(CharAt(pat, i)) .. code(CharAt(pat, i + 2)) \/ SetItems(c, pat, i + 3)
             [] OTHER -> c = CharAt(pat, i) \/ SetItems(c, pat, i + 1)
matchset(c, pat, pp) ==
  LET i == SetStart(pat, pp)
      matched == (Is(pat, i, "]") /\ c = "]") \/ SetItems(c, pat, FirstItem(pat, i))
  IN  matched # Is(pat, pp + 1, "^")

singlematch(c, pat, pp) ==
  CASE CharAt(pat, pp) = "." -> TRUE
    [] CharAt(pat, pp) = "%" -> EscapeMatches(c, CharAt(pat, pp + 1))
    [] CharAt(pat, pp) = "[" -> matchset(c, pat, pp)
    [] OTHER -> c = CharAt(pat, pp)

---------------------------------------------------------------------------
(* Before a match. *)

is_plain_pattern(pat) == \A i \in DOMAIN pat : pat[i] \notin {"%", ".", "[", "*", "+", "-", "?", "^", "$", "("}

\* The index behind a set, None when it does not end.
validate_set(pat, i) ==
  LET j == SetEnd(pat, FirstItem(pat, SetStart(pat, i))) IN IF j >= Len(pat) THEN None ELSE j + 1
RECURSIVE ValidFrom(_, _)
ValidFrom(pat, i) ==
  LET Suffix(j) == IF j < Len(pat) /\ CharAt(pat, j) \in {"*", "+", "-", "?"} THEN j + 1 ELSE j
      set == validate_set(pat, i)
      front == validate_set(pat, i + 2)
      esc == i + 1 < Len(pat) /\ CharAt(pat, i) = "%"
  IN  CASE i >= Len(pat) -> TRUE
        [] esc /\ CharAt(pat, i + 1) = "b" -> i + 3 < Len(pat) /\ ValidFrom(pat, Suffix(i + 4))
        [] esc /\ CharAt(pat, i + 1) = "f" -> Is(pat, i + 2, "[") /\ front # None /\ ValidFrom(pat, Suffix(front))
        [] CharAt(pat, i) = "%" -> esc /\ ValidFrom(pat, Suffix(i + 2))
        [] CharAt(pat, i) = "[" -> set # None /\ ValidFrom(pat, Suffix(set))
        [] OTHER -> ValidFrom(pat, Suffix(i + 1))
Anchored(pat) == Is(pat, 0, "^")
PatStart(pat) == IF Anchored(pat) THEN 1 ELSE 0
validate_pattern(pat) == ValidFrom(pat, PatStart(pat))

---------------------------------------------------------------------------
(* The matcher. *)

Start(text, pat) ==
  [text |-> text, pat |-> pat, cap |-> [i \in 1 .. LUA_MAXCAPTURES |-> [start |-> 0, len |-> Unfinished]], n |-> 0,
   depth |-> 0, err |-> ""]
Res(ms, r) == [ms |-> ms, r |-> r]
Error(ms, e) == Res([ms EXCEPT !.err = e], None)
MatchesAt(ms, si, pp) == si < Len(ms.text) /\ singlematch(CharAt(ms.text, si), ms.pat, pp)

count_max_repetition(ms, si, pp) ==
  Max({k \in 0 .. (Len(ms.text) - si) : \A j \in 0 .. (k - 1) : MatchesAt(ms, si + j, pp)})

\* The end of a balanced text from an opening character on.
RECURSIVE Balanced(_, _, _, _, _)
Balanced(text, i, depth, open, close) ==
  IF depth = 0 THEN i
  ELSE IF i >= Len(text) THEN None
  ELSE Balanced(text, i + 1, CASE CharAt(text, i) = close -> depth - 1 [] CharAt(text, i) = open /\ open # close -> depth + 1 [] OTHER -> depth,
                open, close)

RECURSIVE match_impl(_, _, _)
RECURSIVE match_inner(_, _, _)
RECURSIVE match_greedy(_, _, _, _, _)
RECURSIVE match_lazy(_, _, _, _)

match_impl(ms, si, pp) ==
  LET t == match_inner([ms EXCEPT !.depth = @ + 1], si, pp)
  IN  CASE ms.err # "" -> Res(ms, None)
        [] ms.depth + 1 > MAXCCALLS -> Error(ms, "too complex")
        [] OTHER -> [t EXCEPT !.ms.depth = @ - 1]

\* As many as possible first, down to min.
match_greedy(ms, si, count, rp, min) ==
  LET t == match_impl(ms, si + count, rp)
  IN  IF count < min THEN Res(ms, None) ELSE IF t.r # None THEN t ELSE match_greedy(t.ms, si, count - 1, rp, min)
match_lazy(ms, si, pp, rp) ==
  LET t == match_impl(ms, si, rp)
  IN  IF t.r # None THEN t ELSE IF MatchesAt(ms, si, pp) THEN match_lazy(t.ms, si + 1, pp, rp) ELSE t
match_optional(ms, si, pp, rp) ==
  LET t == match_impl(ms, si + 1, rp)
  IN  IF ~MatchesAt(ms, si, pp) THEN match_impl(ms, si, rp) ELSE IF t.r # None THEN t ELSE match_impl(t.ms, si, rp)

\* A capture that is opened is given up when the rest fails.
NewCapture(ms, si, pp, len) ==
  LET t == match_impl([ms EXCEPT !.cap[ms.n + 1] = [start |-> si, len |-> len], !.n = @ + 1], si, pp)
  IN  IF ms.n >= LUA_MAXCAPTURES THEN Res(ms, None) ELSE IF t.r = None THEN [t EXCEPT !.ms.n = ms.n] ELSE t
match_open_capture(ms, si, pp) == NewCapture(ms, si, pp, Unfinished)
match_position_capture(ms, si, pp) == NewCapture(ms, si, pp, Position)

\* The innermost open capture is closed, and opened again when the rest
\* fails.
Reopened_Not(t, n) == t
Reopened(t, n) == IF t.r = None THEN [t EXCEPT !.ms.cap[n].len = Unfinished] ELSE t
match_close_capture(ms, si, pp) ==
  LET open == {i \in 1 .. ms.n : ms.cap[i].len = Unfinished}
      n == Max(open)
  IN  IF open = {} THEN Error(ms, "invalid pattern capture")
      ELSE Reopened(match_impl([ms EXCEPT !.cap[n].len = si - ms.cap[n].start], si, pp), n)

match_balanced(ms, si, pp) ==
  LET open == CharAt(ms.pat, pp + 2)
      i == Balanced(ms.text, si + 1, 1, open, CharAt(ms.pat, pp + 3))
  IN  IF pp + 3 >= Len(ms.pat) \/ ~Is(ms.text, si, open) THEN Res(ms, None)
      ELSE IF i = None THEN Res(ms, None) ELSE match_impl(ms, i, pp + 4)

match_frontier(ms, si, pp) ==
  LET prev == IF si > 0 THEN CharAt(ms.text, si - 1) ELSE NUL
      curr == IF si < Len(ms.text) THEN CharAt(ms.text, si) ELSE NUL
  IN  IF Is(ms.pat, pp + 2, "[") /\ ~singlematch(prev, ms.pat, pp + 2) /\ singlematch(curr, ms.pat, pp + 2)
      THEN match_impl(ms, si, element_end(ms.pat, pp + 2)) ELSE Res(ms, None)

match_backref(ms, si, pp) ==
  LET n == CHOOSE i \in 0 .. 9 : ToString(i) = CharAt(ms.pat, pp + 1)
      c == ms.cap[n]
  IN  CASE n = 0 \/ n > ms.n -> Error(ms, "invalid capture index")
        [] c.len < 0 -> Error(ms, "invalid capture index")
        [] OTHER -> IF si + c.len <= Len(ms.text) /\ \A i \in 0 .. (c.len - 1) : CharAt(ms.text, si + i) = CharAt(ms.text, c.start + i)
                    THEN match_impl(ms, si + c.len, pp + 2) ELSE Res(ms, None)

Digits == {ToString(i) : i \in 0 .. 9}
match_inner(ms, si, pp) ==
  LET ch == CharAt(ms.pat, pp)
      esc == IF ch = "%" /\ pp + 1 < Len(ms.pat) THEN CharAt(ms.pat, pp + 1) ELSE ""
      ep == element_end(ms.pat, pp)
      suffix == IF ep < Len(ms.pat) THEN CharAt(ms.pat, ep) ELSE ""
  IN  CASE pp >= Len(ms.pat) -> Res(ms, si)
        [] ch = "(" -> IF Is(ms.pat, pp + 1, ")") THEN match_position_capture(ms, si, pp + 2) ELSE match_open_capture(ms, si, pp + 1)
        [] ch = ")" -> match_close_capture(ms, si, pp + 1)
        [] ch = "$" /\ pp + 1 >= Len(ms.pat) -> Res(ms, IF si = Len(ms.text) THEN si ELSE None)
        [] esc = "b" -> match_balanced(ms, si, pp)
        [] esc = "f" -> match_frontier(ms, si, pp)
        [] esc \in Digits -> match_backref(ms, si, pp)
        [] suffix = "*" -> match_greedy(ms, si, count_max_repetition(ms, si, pp), ep + 1, 0)
        [] suffix = "+" -> match_greedy(ms, si, count_max_repetition(ms, si, pp), ep + 1, 1)
        [] suffix = "-" -> match_lazy(ms, si, pp, ep + 1)
        [] suffix = "?" -> match_optional(ms, si, pp, ep + 1)
        [] OTHER -> IF MatchesAt(ms, si, pp) THEN match_inner(ms, si + 1, ep) ELSE Res(ms, None)

---------------------------------------------------------------------------
(* Searching. *)

check_captures(ms) == \A i \in 1 .. ms.n : ms.cap[i].len # Unfinished
\* A capture: a position, or the text from start to end.
extract_captures(ms) ==
  [i \in 1 .. ms.n |-> IF ms.cap[i].len = Position THEN <<"pos", ms.cap[i].start + 1>>
                       ELSE <<"text", ms.cap[i].start, ms.cap[i].start + ms.cap[i].len>>]

Found(start, end, caps) == [k |-> "found", start |-> start, end |-> end, caps |-> caps]
NotFound == [k |-> "none"]
Failed(e) == [k |-> "error", e |-> e]

find_bytes_in_slice(text, from, needle) ==
  LET S == {i \in from .. (Len(text) - Len(needle)) : SubSeq(text, i + 1, i + Len(needle)) = needle}
  IN  IF S = {} THEN None ELSE Min(S)

\* One attempt at si: a match, no match, or an error.
Attempt(text, pat, si) ==
  LET t == match_impl(Start(text, pat), si, PatStart(pat))
  IN  CASE t.r # None -> IF check_captures(t.ms) THEN Found(si, t.r, extract_captures(t.ms)) ELSE Failed("unfinished capture")
        [] t.ms.err # "" -> Failed(t.ms.err)
        [] OTHER -> NotFound
RECURSIVE FindFrom(_, _, _)
FindFrom(text, pat, si) ==
  LET a == Attempt(text, pat, si)
  IN  IF a.k # "none" \/ Anchored(pat) \/ si >= Len(text) THEN a ELSE FindFrom(text, pat, si + 1)

find(text, pat, init) ==
  LET pos == find_bytes_in_slice(text, init, pat)
  IN  CASE init > Len(text) -> NotFound
        [] is_plain_pattern(pat) -> IF pos = None THEN NotFound ELSE Found(pos, pos + Len(pat), <<>>)
        [] ~validate_pattern(pat) -> Failed("malformed")
        [] OTHER -> FindFrom(text, pat, init)

---------------------------------------------------------------------------
(* Replacement strings. *)

Piece(text, c) == IF c[1] = "pos" THEN <<ToString(c[2])>> ELSE SubSeq(text, c[2] + 1, c[3])
\* %0 is the match, %1 to %9 are its captures; without captures %1 is the
\* match.  None of the escapes is valid otherwise, but a % at the end is.
RECURSIVE substitute_captures(_, _, _, _)
substitute_captures(repl, i, text, f) ==
  LET next == CharAt(repl, i + 1)
      n == CHOOSE d \in 0 .. 9 : ToString(d) = next
      match == SubSeq(text, f.start + 1, f.end)
      Then(piece, j) == LET rest == substitute_captures(repl, j, text, f)
                        IN  IF rest.e # "" THEN rest ELSE [s |-> piece \o rest.s, e |-> ""]
  IN  CASE i >= Len(repl) -> [s |-> <<>>, e |-> ""]
        [] CharAt(repl, i) # "%" -> Then(<<CharAt(repl, i)>>, i + 1)
        [] i + 1 >= Len(repl) -> Then(<<"%">>, i + 1)
        [] next = "%" -> Then(<<"%">>, i + 2)
        [] next \notin Digits -> [s |-> <<>>, e |-> "invalid use"]
        [] OTHER -> CASE n = 0 \/ (n = 1 /\ f.caps = <<>>) -> Then(match, i + 2)
                      [] n <= Len(f.caps) -> Then(Piece(text, f.caps[n]), i + 2)
                      [] OTHER -> [s |-> <<>>, e |-> "invalid capture index"]
=============================================================================
