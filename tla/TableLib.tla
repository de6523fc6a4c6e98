------------------------------ MODULE TableLib ------------------------------
(***************************************************************************)
(* The functions of the table library that move elements about             *)
(* (stdlib/table.rs) and the sort they use (stdlib/sort.rs).  A table is a *)
(* function from 1 .. MaxList to values or Nil.  The sort works on a copy  *)
(* of the elements with indices from 0, here a sequence, and calls the     *)
(* comparator through cmp_apply: the comparator answers "yes" or "no" or   *)
(* raises an error, and nothing says that its answers make sense.          *)
(***************************************************************************)
EXTENDS Integers, Sequences, SequencesExt, FiniteSetsExt

CONSTANTS MaxList,  \* largest index of a table
          Cutoff    \* shorter ranges are sorted by insertion (16 in the source)

Nil == 0

---------------------------------------------------------------------------
(* sort.rs.  x is the state of a sort: the items, the comparator, and      *)
(* whether a comparison raised an error (then nothing more happens).       *)

Item0(x, i) == x.items[i + 1]
Swap(x, i, j) == [x EXCEPT !.items[i + 1] = x.items[j + 1], !.items[j + 1] = x.items[i + 1]]
cmp_apply(x, a, b) == x.cmp[a, b]
\* Swap i and j when b is before a.
SwapIf(x, a, b, i, j) ==
  LET c == cmp_apply(x, Item0(x, a), Item0(x, b))
  IN  IF x.err THEN x ELSE IF c = "err" THEN [x EXCEPT !.err = TRUE] ELSE IF c = "yes" THEN Swap(x, i, j) ELSE x

\* The item at j goes down past the items it is before.
RECURSIVE Sink(_, _, _)
Sink(x, lo, j) ==
  LET c == cmp_apply(x, Item0(x, j), Item0(x, j - 1))
  IN  IF j <= lo THEN x
      ELSE CASE c = "err" -> [x EXCEPT !.err = TRUE] [] c = "yes" -> Sink(Swap(x, j, j - 1), lo, j - 1) [] c = "no" -> x
insertion_sort(x, lo, hi) == FoldLeft(LAMBDA y, i : IF y.err THEN y ELSE Sink(y, lo, i), x, [k \in 1 .. (hi - lo) |-> lo + k])

\* One scan of partition, up (d = 1) or down (d = -1), while the comparator
\* says yes: the index where it ends, or -1 for an error.
RECURSIVE Scan(_, _, _, _, _)
Scan(x, i, stop, d, pivot) ==
  LET c == IF d = 1 THEN cmp_apply(x, Item0(x, i), pivot) ELSE cmp_apply(x, pivot, Item0(x, i))
  IN  IF (d = 1 /\ i >= stop) \/ (d = -1 /\ i <= stop) THEN i
      ELSE CASE c = "err" -> -1 [] c = "yes" -> Scan(x, i + d, stop, d, pivot) [] c = "no" -> i
RECURSIVE Exchange(_, _, _, _)
Exchange(x, i, j, pivot) ==
  LET a == Scan(x, i + 1, j, 1, pivot)
      b == Scan(x, j - 1, a, -1, pivot)
  IN  CASE a = -1 -> [x |-> [x EXCEPT !.err = TRUE], p |-> i]
        [] b = -1 -> [x |-> [x EXCEPT !.err = TRUE], p |-> i]
        [] a >= b -> [x |-> x, p |-> a]
        [] OTHER -> Exchange(Swap(x, a, b), a, b, pivot)
\* Median of three, the pivot kept at hi - 1.
Median(x, lo, mid, hi) == SwapIf(SwapIf(SwapIf(x, mid, lo, lo, mid), hi, lo, lo, hi), hi, mid, mid, hi)
partition_NoPivot(x, lo, hi) ==
  LET mid == lo + ((hi - lo) \div 2)
      y == Median(x, lo, mid, hi)
      e == Exchange(Swap(y, mid, hi - 1), lo, hi - 1, Item0(y, mid))
  IN  IF y.err THEN [x |-> y, p |-> lo] ELSE e
partition(x, lo, hi) ==
  LET mid == lo + ((hi - lo) \div 2)
      y == Median(x, lo, mid, hi)
      e == Exchange(Swap(y, mid, hi - 1), lo, hi - 1, Item0(y, mid))
  IN  IF y.err THEN [x |-> y, p |-> lo] ELSE IF e.x.err THEN e ELSE [e EXCEPT !.x = Swap(e.x, e.p, hi - 1)]

RECURSIVE sift_down(_, _, _, _)
sift_down(x, lo, n, r) ==
  LET left == 2 * r + 1
      right == left + 1
      c1 == cmp_apply(x, Item0(x, lo + r), Item0(x, lo + left))
      l1 == IF c1 = "yes" THEN left ELSE r
      c2 == IF right < n THEN cmp_apply(x, Item0(x, lo + l1), Item0(x, lo + right)) ELSE "no"
      largest == IF c2 = "yes" THEN right ELSE l1
  IN  IF x.err \/ left >= n THEN x
      ELSE IF c1 = "err" THEN [x EXCEPT !.err = TRUE]
      ELSE IF c2 = "err" THEN [x EXCEPT !.err = TRUE]
      ELSE IF largest = r THEN x ELSE sift_down(Swap(x, lo + r, lo + largest), lo, n, largest)
heapsort(x, lo, hi) ==
  LET n == hi - lo + 1
      heap == FoldLeft(LAMBDA y, i : sift_down(y, lo, n, (n \div 2) - i), x, [i \in 1 .. (n \div 2) |-> i])
      Take(y, i) == IF y.err THEN y ELSE sift_down(Swap(y, lo, lo + (n - i)), lo, n - i, 0)
  IN  FoldLeft(Take, heap, [i \in 1 .. (n - 1) |-> i])

RECURSIVE introsort_impl(_, _, _, _)
introsort_impl(x, lo, hi, depth) ==
  LET e == partition(x, lo, hi)
      below == IF e.p > lo THEN introsort_impl(e.x, lo, e.p - 1, depth - 1) ELSE e.x
      above == IF e.p < hi THEN introsort_impl(below, e.p + 1, hi, depth - 1) ELSE below
  IN  CASE x.err -> x
        [] hi - lo < Cutoff -> insertion_sort(x, lo, hi)
        [] depth = 0 -> heapsort(x, lo, hi)
        [] OTHER -> IF e.x.err THEN e.x ELSE above
introsort(items, cmp, max_depth) ==
  LET x == [items |-> items, cmp |-> cmp, err |-> FALSE]
  IN  IF Len(items) <= 1 THEN x ELSE introsort_impl(x, 0, Len(items) - 1, max_depth)

---------------------------------------------------------------------------
(* table.rs.  Every function returns the table and its result: a value, or *)
(* "error".                                                                 *)

Border(t) == Max({0} \cup {n \in DOMAIN t : \A i \in 1 .. n : t[i] # Nil})
get_int(t, i) == IF i \in DOMAIN t THEN t[i] ELSE Nil
set_int(t, i, v) == IF i \in DOMAIN t THEN [t EXCEPT ![i] = v] ELSE t

\* The copy is written back when the sort has come to its end.
tab_sort(t, cmp, depth) ==
  LET x == introsort([i \in 1 .. Border(t) |-> t[i]], cmp, depth)
  IN  IF x.err THEN [t |-> t, r |-> "error"] ELSE [t |-> [i \in DOMAIN t |-> IF i <= Border(t) THEN x.items[i] ELSE t[i]], r |-> "none"]

\* The elements from pos on move up, the last one first.
ShiftUp_FirstFirst(t, pos, len) == FoldLeft(LAMBDA u, i : set_int(u, pos + i, get_int(u, pos + i - 1)), t, [i \in 1 .. (len - pos + 1) |-> i])
ShiftUp(t, pos, len) == FoldLeft(LAMBDA u, i : set_int(u, len + 2 - i, get_int(u, len + 1 - i)), t, [i \in 1 .. (len - pos + 1) |-> i])
ShiftDown(t, pos, len) == FoldLeft(LAMBDA u, i : set_int(u, pos + i - 1, get_int(u, pos + i)), t, [i \in 1 .. (len - pos) |-> i])

\* Without a position (0 arguments for it) the value goes to the end.
tab_insert(t, pos, v) ==
  LET len == Border(t)
  IN  CASE pos = <<>> -> [t |-> set_int(t, len + 1, v), r |-> "none"]
        [] pos[1] < 1 \/ pos[1] > len + 1 -> [t |-> t, r |-> "error"]
        [] OTHER -> [t |-> set_int(ShiftUp(t, pos[1], len), pos[1], v), r |-> "none"]
tab_remove(t, pos) ==
  LET len == Border(t)
      p == Min({len, IF pos = <<>> THEN Max({len, 1}) ELSE pos[1]})
  IN  IF pos # <<>> /\ pos[1] < 1 THEN [t |-> t, r |-> "error"]
      ELSE IF p = 0 THEN [t |-> t, r |-> ToString(Nil)]
      ELSE [t |-> set_int(ShiftDown(t, p, len), len, Nil), r |-> ToString(get_int(t, p))]
\* The copy goes upwards, whatever the ranges are.
tab_move(t, f, e, pos) ==
  [t |-> FoldLeft(LAMBDA u, k : set_int(u, pos + k - 1, get_int(u, f + k - 1)), t, [k \in 1 .. (e - f + 1) |-> k]), r |-> "none"]
=============================================================================
