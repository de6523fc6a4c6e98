------------------------------ MODULE Library ------------------------------
(***************************************************************************)
(* Calls of the string and table libraries (stdlib/string.rs,              *)
(* stdlib/pattern/engine.rs, stdlib/table.rs).  A behaviour is one call,   *)
(* or one iterator, or a sequence of calls on one table, given by req:     *)
(*   find, match, plain  text, pattern and init                            *)
(*   gmatch        one step for every call of the iterator                 *)
(*   gsub          one step for every round of the loop                    *)
(*   gsub_fn       the same with a function or a table for the             *)
(*                 replacement: what it gives is anyone's choice           *)
(*   sub           text and two indices, also for string.byte              *)
(*   sort          elements, a comparator and the depth for quicksort      *)
(*   list          calls of table.insert, remove, move and sort            *)
(* call is the state of the running call: where it is (pos), what it has   *)
(* written (out), the matches it has found (spans), the end of the text it *)
(* has copied (copied), whether the last match was a nonempty one, and its *)
(* result r ("" while it runs).                                            *)
(***************************************************************************)
EXTENDS Patterns, TableLib

\* The matcher, the replacement strings and the sort are parameters: find,
\* Attempt and substitute_captures of Patterns, tab_sort of TableLib.
CONSTANTS Find(_, _, _), TryAt(_, _, _), Substitute(_, _, _), SortTable(_, _, _)

CONSTANTS Jobs,      \* the calls of the instance, a sequence of sets
          NoMax,     \* the limit of a gsub without one
          MaxCalls   \* calls on one table

VARIABLES req, call

lvars == <<req, call>>

NewCall == [pos |-> 0, out |-> <<>>, spans |-> <<>>, copied |-> 0, nonempty |-> FALSE, r |-> "", v |-> <<>>]
NewTable == [i \in 1 .. MaxList |-> Nil]
NewList == [t |-> NewTable, list |-> <<>>, calls |-> 0, r |-> "", want |-> ""]
LibInit == (\E i \in DOMAIN Jobs : req \in Jobs[i]) /\ call = IF req.op = "list" THEN NewList ELSE NewCall

Slice(s, a, b) == SubSeq(s, a + 1, b)
Full(n) == Len(call.spans) >= n

---------------------------------------------------------------------------
(* find and match. *)

\* The start of a search: a negative one counts from the end.
FindInit(text, init) == IF init < 0 THEN Max({Len(text) + init + 1, 1}) ELSE Max({init, 1})
MatchInit(init) == Max({init, 1})

\* What a capture is to the program.
push_captures(text, caps) == [i \in DOMAIN caps |-> Piece(text, caps[i])]

str_find ==
  /\ req.op = "find" /\ call.r = ""
  /\ LET f == Find(req.text, req.pat, FindInit(req.text, req.init) - 1)
     IN  call' = [call EXCEPT !.r = f.k, !.v = IF f.k = "found" THEN <<f.start + 1, f.end, push_captures(req.text, f.caps)>> ELSE <<>>]
  /\ UNCHANGED req

str_find_plain ==
  /\ req.op = "plain" /\ call.r = ""
  /\ LET init == FindInit(req.text, req.init)
         S == {p \in (init - 1) .. (Len(req.text) - Len(req.pat)) : Slice(req.text, p, p + Len(req.pat)) = req.pat}
         start == Min(S) + 1
     IN  call' = IF S = {} THEN [call EXCEPT !.r = "none"]
                 ELSE [call EXCEPT !.r = "found", !.v = <<start, start + Len(req.pat) - 1, <<>>>>]
  /\ UNCHANGED req

str_match ==
  /\ req.op = "match" /\ call.r = ""
  /\ LET f == Find(req.text, req.pat, MatchInit(req.init) - 1)
         whole == <<Slice(req.text, f.start, f.end)>>
     IN  call' = [call EXCEPT !.r = f.k, !.v = IF f.k # "found" THEN <<>> ELSE IF f.caps = <<>> THEN whole
                                               ELSE push_captures(req.text, f.caps)]
  /\ UNCHANGED req

---------------------------------------------------------------------------
(* The iterator of gmatch keeps the place of the next search; an error     *)
(* ends it as no match does.                                               *)

NextPos_Past(f) == f.end + 1
NextPos(f) == IF f.end = f.start THEN f.start + 1 ELSE f.end

gmatch_iter ==
  /\ req.op = "gmatch" /\ call.r = ""
  /\ LET f == Find(req.text, req.pat, call.pos)
     IN  call' = IF f.k = "found" THEN [call EXCEPT !.pos = NextPos(f), !.spans = Append(@, f)] ELSE [call EXCEPT !.r = "done"]
  /\ UNCHANGED req

---------------------------------------------------------------------------
(* gsub with a string (or a number): the engine tries every position. *)

GsubEnds(c, copied) == [c EXCEPT !.r = "done", !.out = @ \o Slice(req.text, copied, Len(req.text))]

\* An empty match that touches the nonempty one before it is passed over,
\* with the character behind it.
Char1(si) == IF si < Len(req.text) THEN <<CharAt(req.text, si)>> ELSE <<>>
Skip_Uncopied(c, si) == [c EXCEPT !.out = @ \o Char1(si), !.pos = si + 1, !.nonempty = FALSE]
Skip(c, si) == [c EXCEPT !.out = @ \o Char1(si), !.copied = Min({si + 1, Len(req.text)}), !.pos = si + 1, !.nonempty = FALSE]

Replace(c, f) ==
  LET s == Substitute(req.repl, req.text, f)
      d == [c EXCEPT !.out = @ \o Slice(req.text, c.copied, f.start) \o s.s, !.copied = f.end, !.spans = Append(@, f)]
  IN  IF s.e # "" THEN [c EXCEPT !.r = "error"]
      ELSE IF f.start = f.end THEN Skip(d, f.start) ELSE [d EXCEPT !.pos = f.end, !.nonempty = TRUE]

gsub ==
  /\ req.op = "gsub" /\ call.r = ""
  /\ ~is_plain_pattern(req.pat) \/ req.pat = <<>>
  /\ LET f == TryAt(req.text, req.pat, call.pos)
         over == Full(req.max) \/ call.pos > Len(req.text)
     IN  call' = CASE ~validate_pattern(req.pat) -> [call EXCEPT !.r = "error"]
                   [] over -> GsubEnds(call, call.copied)
                   [] f.k = "error" -> [call EXCEPT !.r = "error"]
                   [] f.k = "none" -> IF Anchored(req.pat) \/ call.pos >= Len(req.text) THEN GsubEnds(call, call.copied)
                                      ELSE [call EXCEPT !.pos = @ + 1, !.nonempty = FALSE]
                   [] f.k = "found" -> IF f.start = f.end /\ call.nonempty THEN Skip(call, call.pos) ELSE Replace(call, f)
  /\ UNCHANGED req

\* A pattern without special characters is looked for as a text.
gsub_plain ==
  /\ req.op = "gsub" /\ call.r = ""
  /\ is_plain_pattern(req.pat) /\ req.pat # <<>>
  /\ LET p == find_bytes_in_slice(req.text, call.pos, req.pat)
         f == Found(p, p + Len(req.pat), <<>>)
         s == Substitute(req.repl, req.text, f)
         over == Full(req.max) \/ call.pos > Len(req.text)
     IN  call' = IF over \/ p = None THEN GsubEnds(call, call.pos)
                 ELSE IF s.e # "" THEN [call EXCEPT !.r = "error"]
                 ELSE [call EXCEPT !.out = @ \o Slice(req.text, call.pos, p) \o s.s, !.pos = f.end, !.spans = Append(@, f)]
  /\ UNCHANGED req

\* gsub with a function or a table: nil or false keeps the match, a text
\* takes its place, anything else (or an error in the function) ends it.
Answers == {"nil", "x", "error"}
GsubFound(f, answer) ==
  LET kept == Slice(req.text, f.start, f.end)
      out == call.out \o Slice(req.text, call.pos, f.start) \o (IF answer = "nil" THEN kept ELSE <<answer>>)
      d == [call EXCEPT !.out = out, !.spans = Append(@, f), !.v = Append(@, answer)]
  IN  CASE answer = "error" -> [call EXCEPT !.r = "error"]
        [] f.start = f.end /\ f.end = Len(req.text) -> GsubEnds(d, call.pos)
        [] f.start = f.end -> [d EXCEPT !.out = out \o Slice(req.text, f.end, f.end + 1), !.pos = f.end + 1]
        [] OTHER -> [d EXCEPT !.pos = f.end]
gsub_fn ==
  /\ req.op = "gsub_fn" /\ call.r = ""
  /\ LET f == Find(req.text, req.pat, call.pos)
     IN  \/ Full(req.max) /\ call' = GsubEnds(call, call.pos)
         \/ ~Full(req.max) /\ f.k = "none" /\ call' = GsubEnds(call, call.pos)
         \/ ~Full(req.max) /\ f.k = "error" /\ call' = [call EXCEPT !.r = "error"]
         \/ ~Full(req.max) /\ f.k = "found" /\ \E answer \in Answers : call' = GsubFound(f, answer)
  /\ UNCHANGED req

---------------------------------------------------------------------------
(* Substrings: i and j are <<>> when the argument is missing. *)

SubFrom(len, i) == IF i < 0 THEN Max({len + i, 0}) ELSE Min({Max({i - 1, 0}), len})
SubTo_FromEnd(len, j) == Min({Max({IF j < 0 THEN len + j + 1 ELSE j - 1, -1}), len - 1}) + 1
SubTo(len, j) == Min({Max({IF j < 0 THEN len + j ELSE j - 1, -1}), len - 1}) + 1
str_sub(text, i, j) ==
  LET a == SubFrom(Len(text), IF i = <<>> THEN 1 ELSE i[1])
      b == IF j = <<>> THEN Len(text) ELSE SubTo(Len(text), j[1])
  IN  IF a >= b THEN <<>> ELSE Slice(text, a, b)
str_byte(text, i, j) ==
  LET len == Len(text)
      FromEnd(k) == IF k < 0 THEN len + k + 1 ELSE k
      from == IF i = <<>> THEN 1 ELSE i[1]
      lo == Max({FromEnd(from), 1})
      hi == Min({FromEnd(IF j = <<>> THEN from ELSE j[1]), len})
  IN  IF lo > hi THEN <<>> ELSE SubSeq(text, lo, hi)
Sub ==
  /\ req.op = "sub" /\ call.r = ""
  /\ call' = [call EXCEPT !.r = "done", !.v = <<str_sub(req.text, req.i, req.j), str_byte(req.text, req.i, req.j)>>]
  /\ UNCHANGED req

---------------------------------------------------------------------------
(* Calls on a table, which has no holes: list is what the calls of         *)
(* lib_table.c leave in it and want what they give.  Where this one does   *)
(* something else (Other), list starts again from what the table holds     *)
(* and nothing is wanted of the call.                                      *)

Call(u, list, want) ==
  /\ call.calls < MaxCalls
  /\ call' = [call EXCEPT !.t = u.t, !.r = u.r, !.list = list, !.want = want, !.calls = @ + 1]
  /\ UNCHANGED req

Other(u) == Call(u, SelectSeq(u.t, LAMBDA v : v # Nil), "any")

\* A place of the list, one outside of it, or none.
Places == {<<>>} \cup {<<p>> : p \in 0 .. (Len(call.list) + 2)}
InsertCall ==
  /\ req.op = "list" /\ Len(call.list) < MaxList
  /\ \E p \in Places :
       LET at == IF p = <<>> THEN Len(call.list) + 1 ELSE p[1]
           v == (call.calls % req.values) + 1
           u == tab_insert(call.t, p, v)
       IN  IF at \in 1 .. (Len(call.list) + 1) THEN Call(u, InsertAt(call.list, at, v), "none") ELSE Call(u, call.list, "error")
\* A place outside of the list is nothing to remove, but this one raises an
\* error before it and takes the last element for any place behind it.
RemoveCall ==
  /\ req.op = "list"
  /\ \E p \in Places :
       LET at == IF p = <<>> THEN Len(call.list) ELSE p[1]
           u == tab_remove(call.t, p)
       IN  CASE at \in DOMAIN call.list -> Call(u, RemoveAt(call.list, at), ToString(call.list[at]))
             [] call.list = <<>> /\ p # <<0>> -> Call(u, <<>>, ToString(Nil))
             [] OTHER -> Other(u)
\* A range goes to its new place as a whole, but this one moves it from its
\* first element on, over elements it has still to move.
MoveCall ==
  /\ req.op = "list"
  /\ \E f, e \in DOMAIN call.list, pos \in 1 .. (Len(call.list) + 1) :
       LET last == pos + e - f
           New(i) == IF i \in pos .. last THEN call.list[f + i - pos] ELSE call.list[i]
           u == tab_move(call.t, f, e, pos)
       IN  /\ f <= e /\ last <= MaxList
           /\ IF f < pos /\ pos <= e THEN Other(u)
              ELSE Call(u, [i \in 1 .. Max({last, Len(call.list)}) |-> New(i)], "none")
Less == [a, b \in 1 .. MaxCalls |-> IF a < b THEN "yes" ELSE "no"]
SortCall ==
  /\ req.op = "list"
  /\ Call(SortTable(call.t, Less, req.depth), SortSeq(call.list, <), "none")

\* A sort with any comparator.
Sort ==
  /\ req.op = "sort" /\ call.r = ""
  /\ LET u == SortTable([i \in 1 .. MaxList |-> IF i \in DOMAIN req.items THEN req.items[i] ELSE Nil], req.cmp, req.depth)
     IN  call' = [call EXCEPT !.r = IF u.r = "error" THEN "error" ELSE "done", !.v = u.t]
  /\ UNCHANGED req

Done == (IF req.op = "list" THEN call.calls = MaxCalls ELSE call.r # "") /\ UNCHANGED lvars

LibNext ==
  \/ str_find \/ str_find_plain \/ str_match \/ gmatch_iter \/ gsub \/ gsub_plain \/ gsub_fn \/ Sub
  \/ InsertCall \/ RemoveCall \/ MoveCall \/ SortCall \/ Sort \/ Done

LibSpec == LibInit /\ [][LibNext]_lvars
=============================================================================
