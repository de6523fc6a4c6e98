---------------------------- MODULE LibraryProps ----------------------------
(***************************************************************************)
(* What the calls of Library promise, said with PatternRef.  A req carries *)
(* the items of its pattern (and whether it is anchored) and the pieces of *)
(* its replacement beside their spelling.                                  *)
(***************************************************************************)
EXTENDS Library, PatternRef

\* RefFind and RefAll of PatternRef.
CONSTANTS FirstOf(_, _, _, _), AllOf(_, _, _, _, _)

\* string.find and string.match (string.rs 33-150) give the match that comes
\* first by the meaning of the pattern, with its captures, and an error when
\* the pattern is one that cannot be matched to its end: whatever the
\* matcher did and took back in its match state on the way.
FirstMatch ==
  (req.op \in {"find", "match"} /\ call.r # "") =>
    LET init == IF req.op = "match" THEN MatchInit(req.init) ELSE FindInit(req.text, req.init)
        f == FirstOf(req.text, req.anchored, req.items, init - 1)
        caps == [i \in DOMAIN f.caps |-> PieceText(req.text, CapRef(i), f)]
    IN  /\ call.r = f.k
        /\ call.r = "found" =>
             call.v = CASE req.op = "find" -> <<f.start + 1, f.end, caps>>
                        [] req.op = "match" /\ f.caps = <<>> -> <<SubSeq(req.text, f.start + 1, f.end)>>
                        [] OTHER -> caps

\* The matches gmatch and gsub go through (string.rs 187-239, 319-455,
\* engine.rs 760-983) are all there are, one behind the other, and none
\* twice: those of the plain search, of the loop over the positions and of
\* repeated calls of find.  Only gsub with a string passes over an empty
\* match that touches the one before.  An anchored pattern has one match at
\* most; these loops go on behind it and match again, and only their first
\* match is claimed (gmatch, where ^ is no anchor in lstrlib.c, not at all).
Again == req.anchored /\ Len(call.spans) > 1
EveryMatch ==
  (req.op \in {"gmatch", "gsub", "gsub_fn"} /\ call.r = "done" /\ ~(req.op = "gmatch" /\ req.anchored)) =>
    LET all == AllOf(req.text, req.anchored, req.items, req.op = "gsub", req.max)
        found == SelectSeq(all, LAMBDA f : f.k = "found")
    IN  IF Again THEN found = <<call.spans[1]>> ELSE call.spans = found

\* gsub writes the text with its matches replaced, nothing of it twice and
\* nothing left out; with a string for the replacement it raises an error
\* when the pattern or an escape has no meaning (engine.rs 789-854), with a
\* function a match it answers nil for is kept (string.rs 336-382).  Not
\* claimed, because it is not so: the text when an anchored pattern matched
\* again (Again), and the text when gsub_fn or gsub_tab finds an empty match
\* at its end from further left, where they write its last part twice.
Rebuilt ==
  LET all == AllOf(req.text, req.anchored, req.items, req.op = "gsub", req.max)
      bad == \E i \in DOMAIN all : all[i].k = "error" \/ \E j \in DOMAIN req.pieces : ~PieceOk(req.pieces[j], all[i])
      Answer(i) == IF call.v[i] = "nil" THEN SubSeq(req.text, all[i].start + 1, all[i].end) ELSE <<call.v[i]>>
      n == Len(call.spans)
      twice == n > 0 /\ call.spans[n].start = Len(req.text) /\ call.pos < Len(req.text)
  IN  /\ (req.op = "gsub" /\ call.r # "" /\ ~Again) =>
           IF bad THEN call.r = "error"
           ELSE call.r = "done" /\ call.out = RefReplaced(req.text, all, [i \in DOMAIN all |-> RefRepl(req.text, req.pieces, all[i])])
      /\ (req.op = "gsub_fn" /\ call.r = "done" /\ ~twice /\ ~Again) =>
           call.out = RefReplaced(req.text, all, [i \in DOMAIN all |-> Answer(i)])

\* string.sub and string.byte (string.rs 502-536, 822-880) agree on what a
\* range of indices is, at and beyond both ends and counted from the end.
SubRange ==
  (req.op = "sub" /\ call.r # "") =>
    LET At1(k) == IF k < 0 THEN Len(req.text) + k + 1 ELSE k
        Between(i, j) == SelectSeq([k \in DOMAIN req.text |-> k], LAMBDA k : At1(i) <= k /\ k <= At1(j))
        Text(i, j) == LET ks == Between(i, j) IN [n \in DOMAIN ks |-> req.text[ks[n]]]
        i == IF req.i = <<>> THEN 1 ELSE req.i[1]
    IN  call.v = IF req.j = <<>> THEN <<Text(i, -1), Text(i, i)>> ELSE <<Text(i, req.j[1]), Text(i, req.j[1])>>

\* After any sequence of table.insert, remove, move and sort (table.rs 67-213)
\* a table without holes is the list that those of lib_table.c leave, shifted,
\* moved and sorted as a whole, and each call gives what it gives there.
\* Not claimed is the effect of two calls that do something else: remove
\* outside of the list and move onto a later part of its own range; claimed
\* is that they leave no hole.
IsList ==
  req.op = "list" =>
    /\ call.t = [i \in 1 .. MaxList |-> IF i \in DOMAIN call.list THEN call.list[i] ELSE Nil]
    /\ call.want = "any" \/ call.r = call.want

\* table.sort (sort.rs, table.rs 191-213) sorts when the comparator is an
\* order; with a comparator that makes no sense the table still has the same
\* elements; when the comparator raises an error the table is untouched.
SortsOrKeeps ==
  (req.op = "sort" /\ call.r # "") =>
    LET Now == SubSeq(call.v, 1, Len(req.items))
        Times(s, x) == Cardinality({i \in DOMAIN s : s[i] = x})
        V == ToSet(req.items)
        order == \A a, b, c \in V : /\ req.cmp[a, b] # "err" /\ (req.cmp[a, b] = "yes" => req.cmp[b, a] = "no")
                                    /\ (req.cmp[a, b] = "no" /\ req.cmp[b, c] = "no" => req.cmp[a, c] = "no")
    IN  /\ \A i \in (Len(req.items) + 1) .. MaxList : call.v[i] = Nil
        /\ \A x \in V : Times(Now, x) = Times(req.items, x)
        /\ call.r = "error" => Now = req.items
        /\ order => call.r = "done" /\ \A i, j \in DOMAIN Now : i < j => req.cmp[Now[j], Now[i]] = "no"
=============================================================================
