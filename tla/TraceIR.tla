------------------------------ MODULE TraceIR -------------------------------
(***************************************************************************)
(* The intermediate code of a trace (jit/ir.rs) and the rules that simplify *)
(* an instruction while it is emitted (jit/opt/opt_fold.rs, opt_mem.rs).   *)
(*                                                                         *)
(* A reference is an integer: instructions count up from 1, constants down *)
(* from -1 (nil, false and true are -1, -2 and -3), 0 is no reference.     *)
(* A literal operand is kept apart from the references, in lit.  A buffer  *)
(* is a record of the instructions, the constants, and whether a guard was *)
(* emitted since the last snapshot.                                        *)
(*                                                                         *)
(* The chain of an opcode is the set of instructions that have it.  Numbers *)
(* are rationals: there is no negative zero, no infinity and no NaN.       *)
(***************************************************************************)
EXTENDS Bytecode, FiniteSetsExt, SequencesExt

NONE == 0
REF_NIL == -1
REF_FALSE == -2
REF_TRUE == -3
\* Returned for a guard that always holds, and for one that never does.
REF_DROP == 100000
GFAIL == 100001

\* The value of an instruction that was not executed.
Junk == <<"junk">>

irref_isk(r) == r <= 0
irt_ispri(t) == t \in {"nil", "false", "true"}
tref_pri(t) == CASE t = "nil" -> REF_NIL [] t = "false" -> REF_FALSE [] t = "true" -> REF_TRUE
irt_sametype(t, u) == t = u

IRIns(op, t, op1, op2, lit) ==
  [op |-> op, t |-> t, g |-> FALSE, phi |-> FALSE, mark |-> FALSE, op1 |-> op1, op2 |-> op2, lit |-> lit]
Guarded(ins) == [ins EXCEPT !.g = TRUE]
NOP == IRIns("NOP", "nil", NONE, NONE, NONE)

\* What kind of instruction an opcode is: a load, a store, an allocation or
\* none of them; and those whose guard does not keep them alive.
Loads == {"ALOAD", "HLOAD", "ULOAD", "FLOAD", "SLOAD", "ALEN", "CALLL", "BUFHDR", "BUFPUT"}
Stores == {"ASTORE", "HSTORE", "FSTORE", "GCSTEP", "LOOP", "PHI", "USE"}
Allocs == {"TNEW", "TDUP", "CNEW", "BUFSTR"}
irm_kind(op) == CASE op \in Loads -> "L" [] op \in Stores -> "S" [] op \in Allocs -> "A" [] OTHER -> "N"
Weak == {"ADDOV", "SUBOV", "MULOV", "TNEW", "TDUP", "CNEW", "CALLL", "BUFPUT", "BUFSTR"}
sideeff(ins) == irm_kind(ins.op) = "S" \/ (ins.g /\ ins.op \notin Weak)

---------------------------------------------------------------------------
(* Numbers. *)

RECURSIVE Gcd(_, _)
Gcd(a, b) == IF b = 0 THEN a ELSE Gcd(b, a % b)
Abs(n) == IF n < 0 THEN -n ELSE n
Ratio(p, q) ==
  LET s == IF q < 0 THEN -1 ELSE 1
      g == Gcd(Abs(p), Abs(q))
  IN  IF Abs(q) = g THEN Num(s * (p \div g)) ELSE <<"rat", s * (p \div g), Abs(q) \div g>>
P(v) == v[2]
Q(v) == IF v[1] = "rat" THEN v[3] ELSE 1
Floor(v) == Num(P(v) \div Q(v))
Lt(x, y) == P(x) * Q(y) < P(y) * Q(x)
Plus(x, y) == Ratio(P(x) * Q(y) + P(y) * Q(x), Q(x) * Q(y))
Times(x, y) == Ratio(P(x) * P(y), Q(x) * Q(y))
Minus(x) == IF x[1] = "rat" THEN <<"rat", -P(x), Q(x)>> ELSE Num(-P(x))
Over(x, y) == Ratio(P(x) * Q(y), Q(x) * P(y))

fold_numarith(x, y, op) ==
  CASE op = "ADD" -> Plus(x, y)
    [] op = "SUB" -> Plus(x, Minus(y))
    [] op = "MUL" -> Times(x, y)
    [] op = "DIV" -> Over(x, y)
    [] op = "MOD" -> Plus(x, Minus(Times(Floor(Over(x, y)), y)))
    [] op = "POW" -> Num(P(x) ^ P(y))
    [] op = "NEG" -> Minus(x)
    [] op = "ABS" -> IF Lt(x, Num(0)) THEN Minus(x) ELSE x
    [] op = "MIN" -> IF Lt(x, y) THEN x ELSE y
    [] op = "MAX" -> IF Lt(y, x) THEN x ELSE y

\* Ordered and unordered comparisons agree: there is no NaN.
fold_numcmp(x, y, op) ==
  CASE op = "EQ" -> x = y
    [] op = "NE" -> x # y
    [] op \in {"LT", "ULT"} -> Lt(x, y)
    [] op \in {"GE", "UGE"} -> ~Lt(x, y)
    [] op \in {"LE", "ULE"} -> ~Lt(y, x)
    [] op \in {"GT", "UGT"} -> Lt(y, x)

BitName == ("BAND" :> "&") @@ ("BOR" :> "|") @@ ("BXOR" :> "~") @@ ("BSHL" :> "<<") @@ ("BSHR" :> ">>") @@ ("BSAR" :> "~>>")
kfold_intop(x, y, op) ==
  IF op \in DOMAIN BitName THEN Num(Bits(BitName[op], P(x), P(y))) ELSE fold_numarith(x, y, op)

---------------------------------------------------------------------------
(* The buffer. *)

KIns(op, t, v) == [op |-> op, t |-> t, g |-> FALSE, phi |-> FALSE, mark |-> FALSE, op1 |-> NONE, op2 |-> NONE, lit |-> v]
IrBuf == [ins |-> <<>>,
          k |-> <<KIns("KPRI", "nil", Nil), KIns("KPRI", "false", Bool(FALSE)), KIns("KPRI", "true", Bool(TRUE))>>,
          guardemit |-> FALSE]

nins(b) == Len(b.ins) + 1
ir(b, r) == IF r > 0 THEN b.ins[r] ELSE b.k[-r]
\* A step that emits returns the buffer and the reference.
Emitted(b, r) == [b |-> b, r |-> r]

\* Constants are interned: one per opcode and value.
InternK(b, op, t, v) ==
  LET same == {i \in DOMAIN b.k : b.k[i].op = op /\ b.k[i].lit = v}
  IN  IF same # {} THEN Emitted(b, -Min(same))
      ELSE Emitted([b EXCEPT !.k = Append(@, KIns(op, t, v))], -(Len(b.k) + 1))
kint(b, n) == InternK(b, "KINT", "int", Num(n))
knum(b, v) == InternK(b, "KNUM", "num", v)
kgc(b, v, t) == InternK(b, "KGC", t, v)

emit_ins(b, ins) == Emitted([b EXCEPT !.ins = Append(@, ins), !.guardemit = @ \/ ins.g], nins(b))
rollback(b, r) == [b EXCEPT !.ins = SubSeq(@, 1, r - 1)]

---------------------------------------------------------------------------
(* Memory: forwarding a store to a later load, and removing a store that   *)
(* is overwritten (opt_mem.rs).  The operand of a store is the pair CARG   *)
(* of its key and its value.                                               *)

\* The store a search downwards from the end meets first; a hash store into
\* the table, a call on it and the start of the loop end the search.
\* A field store has the value itself as operand, but is searched like the
\* others: the first operand of the value is taken for the field.
IRFL_TAB_META == 0
FieldOf(b, r) == CASE r = NONE -> NONE - 1
                   [] ir(b, r).op = "SLOAD" -> ir(b, r).lit.slot
                   [] OTHER -> ir(b, r).op1
Matches(b, i, op, tab, key) ==
  b.ins[i].op = op /\ b.ins[i].op1 = tab /\ FieldOf(b, b.ins[i].op2) = key
Ends(b, i, op, tab) ==
  \/ b.ins[i].op = "LOOP"
  \/ b.ins[i].op = "CALLL" /\ b.ins[i].op1 = tab
  \/ op = "ASTORE" /\ b.ins[i].op = "HSTORE" /\ b.ins[i].op1 = tab
find_matching(b, op, tab, key) ==
  LET hits == {i \in DOMAIN b.ins : Matches(b, i, op, tab, key)}
      r == Max(hits)
  IN  IF hits = {} \/ \E i \in (r + 1) .. Len(b.ins) : Ends(b, i, op, tab) THEN NONE ELSE r
find_matching_store(b, tab, key) == find_matching(b, "ASTORE", tab, key)
find_matching_fstore(b, obj, fid) == find_matching(b, "FSTORE", obj, fid)

\* The reference whose value the load would read.
try_fwd(b, f) ==
  LET s == CASE f.op = "ALOAD" -> find_matching_store(b, f.op1, f.op2)
             [] f.op = "FLOAD" -> find_matching_fstore(b, f.op1, f.lit)
             [] OTHER -> NONE
  IN  IF s = NONE THEN NONE ELSE ir(b, b.ins[s].op2).op2

dse_astore(b, f) ==
  LET key == ir(b, f.op2).op1
      s == find_matching_store(b, f.op1, key)
      read == \E i \in (s + 1) .. Len(b.ins) : b.ins[i].op = "ALOAD" /\ b.ins[i].op1 = f.op1 /\ b.ins[i].op2 = key
  IN  IF f.op # "ASTORE" \/ s = NONE \/ read THEN b ELSE [b EXCEPT !.ins[s] = NOP]

---------------------------------------------------------------------------
(* Folding (opt_fold.rs).  A rule ends the search with a reference, drops  *)
(* or refutes a guard, rewrites the instruction and starts again, or falls *)
(* through to the search for a common subexpression.                       *)

Ref(b, r) == [k |-> "ref", b |-> b, r |-> r]
FromK(e) == [k |-> "ref", b |-> e.b, r |-> e.r]
Retry(b, f) == [k |-> "retry", b |-> b, f |-> f]
Cse == [k |-> "cse"]
Drop(b) == Ref(b, REF_DROP)
condfold(b, cond) == IF cond THEN Drop(b) ELSE Ref(b, GFAIL)

opt_cse(b, f) ==
  LET lim == Max({f.op1, f.op2, 0})
      same == {i \in (lim + 1) .. Len(b.ins) :
                 b.ins[i].op = f.op /\ b.ins[i].op1 = f.op1 /\ b.ins[i].op2 = f.op2 /\ b.ins[i].lit = f.lit}
  IN  IF same # {} THEN Emitted(b, Max(same)) ELSE emit_ins(b, f)

comm_swap(b, f) == IF f.op1 < f.op2 THEN Retry(b, [f EXCEPT !.op1 = f.op2, !.op2 = f.op1]) ELSE Cse
Mirror == ("LT" :> "GT") @@ ("GT" :> "LT") @@ ("GE" :> "LE") @@ ("LE" :> "GE") @@ ("ULT" :> "UGT")
       @@ ("UGT" :> "ULT") @@ ("UGE" :> "ULE") @@ ("ULE" :> "UGE") @@ ("EQ" :> "EQ") @@ ("NE" :> "NE")
comm_swap_comp(b, f) ==
  IF f.op1 < f.op2 THEN Retry(b, [f EXCEPT !.op1 = f.op2, !.op2 = f.op1, !.op = Mirror[@]]) ELSE Cse

\* The operands: whether they are a constant of an opcode or a negation, and
\* the value of a constant.
IsOp(b, r, op) == r # NONE /\ ir(b, r).op = op
KnumVal(b, r) == ir(b, r).lit
BothK(b, f, op) == IsOp(b, f.op1, op) /\ IsOp(b, f.op2, op)
\* A negation whose operand may be used in its place: a PHI is left alone.
Through(b, r, op) == IsOp(b, r, op) /\ ~ir(b, r).phi
Blocked(b, r, op) == IsOp(b, r, op) /\ ir(b, r).phi
IsKint(b, r, n) == IsOp(b, r, "KINT") /\ KnumVal(b, r) = Num(n)
IsKnum(b, r, n) == IsOp(b, r, "KNUM") /\ KnumVal(b, r) = Num(n)
PowersOfTwo == {2 ^ i : i \in 0 .. 30}
Log2(n) == CHOOSE i \in 0 .. 30 : 2 ^ i = n

\* Two constants.
FoldK(b, f) ==
  IF BothK(b, f, "KNUM") THEN FromK(knum(b, fold_numarith(KnumVal(b, f.op1), KnumVal(b, f.op2), f.op)))
  ELSE FromK(kint(b, P(kfold_intop(KnumVal(b, f.op1), KnumVal(b, f.op2), f.op))))
AnyK(b, f) == BothK(b, f, "KNUM") \/ BothK(b, f, "KINT")

FoldAdd(b, f) ==
  CASE AnyK(b, f) -> FoldK(b, f)
    [] Blocked(b, f.op1, "NEG") -> Cse
    [] Through(b, f.op1, "NEG") -> Retry(b, [f EXCEPT !.op = "SUB", !.op1 = f.op2, !.op2 = ir(b, f.op1).op1])
    [] Blocked(b, f.op2, "NEG") -> Cse
    [] Through(b, f.op2, "NEG") -> Retry(b, [f EXCEPT !.op = "SUB", !.op2 = ir(b, f.op2).op1])
    [] f.t = "int" /\ IsKint(b, f.op2, 0) -> Ref(b, f.op1)
    [] OTHER -> comm_swap(b, f)

FoldSub(b, f) ==
  LET nk == knum(b, Minus(KnumVal(b, f.op2)))
      ni == kint(b, -P(KnumVal(b, f.op2)))
  IN  CASE AnyK(b, f) -> FoldK(b, f)
        [] Blocked(b, f.op1, "NEG") /\ IsOp(b, f.op2, "KNUM") -> Cse
        [] Through(b, f.op1, "NEG") /\ IsOp(b, f.op2, "KNUM") ->
             Retry(nk.b, [f EXCEPT !.op2 = ir(b, f.op1).op1, !.op1 = nk.r])
        [] IsKnum(b, f.op2, 0) -> Ref(b, f.op1)
        [] Blocked(b, f.op2, "NEG") -> Cse
        [] Through(b, f.op2, "NEG") -> Retry(b, [f EXCEPT !.op = "ADD", !.op2 = ir(b, f.op2).op1])
        [] IsKint(b, f.op2, 0) -> Ref(b, f.op1)
        [] IsOp(b, f.op2, "KINT") -> Retry(ni.b, [f EXCEPT !.op = "ADD", !.op2 = ni.r])
        [] IsKint(b, f.op1, 0) -> Retry(b, [f EXCEPT !.op = "NEG", !.op1 = f.op2])
        [] OTHER -> Cse

FoldMul(b, f) ==
  LET sh == kint(b, Log2(P(KnumVal(b, f.op2))))
  IN  CASE AnyK(b, f) -> FoldK(b, f)
        [] IsKnum(b, f.op2, 1) \/ IsKint(b, f.op2, 1) -> Ref(b, f.op1)
        [] IsKnum(b, f.op2, 2) -> Retry(b, [f EXCEPT !.op = "ADD", !.op2 = f.op1])
        [] IsKint(b, f.op2, 0) -> Ref(b, f.op2)
        [] IsOp(b, f.op2, "KINT") /\ P(KnumVal(b, f.op2)) \in PowersOfTwo ->
             Retry(sh.b, [f EXCEPT !.op = "BSHL", !.op2 = sh.r])
        [] OTHER -> comm_swap(b, f)

FoldDiv(b, f) ==
  LET recip == knum(b, Over(Num(1), KnumVal(b, f.op2)))
  IN  CASE BothK(b, f, "KNUM") -> FoldK(b, f)
        [] IsKnum(b, f.op2, 1) -> Ref(b, f.op1)
        [] IsOp(b, f.op2, "KNUM") /\ Abs(P(KnumVal(b, f.op2))) \in PowersOfTwo /\ Q(KnumVal(b, f.op2)) = 1 ->
             Retry(recip.b, [f EXCEPT !.op = "MUL", !.op2 = recip.r])
        [] OTHER -> Cse

FoldMod(b, f) ==
  LET mask == kint(b, P(KnumVal(b, f.op2)) - 1)
  IN  CASE BothK(b, f, "KNUM") \/ (BothK(b, f, "KINT") /\ ~IsKint(b, f.op2, 0)) -> FoldK(b, f)
        [] IsOp(b, f.op2, "KINT") /\ P(KnumVal(b, f.op2)) \in PowersOfTwo ->
             Retry(mask.b, [f EXCEPT !.op = "BAND", !.op2 = mask.r])
        [] OTHER -> Cse

RECURSIVE opt_fold(_, _)

FoldPow(b, f) ==
  CASE BothK(b, f, "KNUM") -> FoldK(b, f)
    [] IsKnum(b, f.op2, 0) -> FromK(knum(b, Num(1)))
    [] IsKnum(b, f.op2, 1) -> Ref(b, f.op1)
    [] IsKnum(b, f.op2, 2) -> FromK(opt_fold(b, IRIns("MUL", "num", f.op1, f.op1, NONE)))
    [] OTHER -> Cse

FoldNeg(b, f) ==
  CASE IsOp(b, f.op1, "KNUM") -> FromK(knum(b, Minus(KnumVal(b, f.op1))))
    [] IsOp(b, f.op1, "KINT") -> FromK(kint(b, -P(KnumVal(b, f.op1))))
    [] Through(b, f.op1, "NEG") -> Ref(b, ir(b, f.op1).op1)
    [] OTHER -> Cse

FoldMinMax(b, f) ==
  CASE AnyK(b, f) -> FoldK(b, f)
    [] f.op1 = f.op2 -> Ref(b, f.op1)
    [] OTHER -> Cse

\* 32 bit arithmetic that checks for overflow.
FoldOv(b, f) ==
  LET base == CASE f.op = "ADDOV" -> "ADD" [] f.op = "SUBOV" -> "SUB" [] f.op = "MULOV" -> "MUL"
  IN  CASE BothK(b, f, "KINT") -> FromK(kint(b, P(fold_numarith(KnumVal(b, f.op1), KnumVal(b, f.op2), base))))
        [] f.op # "MULOV" /\ IsKint(b, f.op2, 0) -> Ref(b, f.op1)
        [] f.op = "MULOV" /\ IsKint(b, f.op2, 0) -> Ref(b, f.op2)
        [] f.op = "MULOV" /\ IsKint(b, f.op2, 1) -> Ref(b, f.op1)
        [] f.op = "MULOV" /\ IsKint(b, f.op2, 2) -> Retry(b, [f EXCEPT !.op = "ADDOV", !.op2 = f.op1])
        [] f.op # "SUBOV" -> comm_swap(b, f)
        [] OTHER -> Cse

\* Integer bit operators; those on numbers convert their operands and are
\* not simplified.
FoldBit(b, f) ==
  CASE f.t = "num" -> Cse
    [] f.op = "BNOT" /\ IsOp(b, f.op1, "KINT") -> FromK(kint(b, BitNot(P(KnumVal(b, f.op1)))))
    [] f.op = "BNOT" /\ Through(b, f.op1, "BNOT") -> Ref(b, ir(b, f.op1).op1)
    [] f.op # "BNOT" /\ BothK(b, f, "KINT") -> FoldK(b, f)
    [] f.op \in {"BAND", "BOR"} /\ f.op1 = f.op2 -> Ref(b, f.op1)
    [] f.op = "BXOR" /\ f.op1 = f.op2 -> FromK(kint(b, 0))
    [] f.op \in {"BAND", "BOR", "BXOR"} -> comm_swap(b, f)
    [] OTHER -> Cse

FoldEq(b, f) ==
  CASE BothK(b, f, "KNUM") -> condfold(b, fold_numcmp(KnumVal(b, f.op1), KnumVal(b, f.op2), f.op))
    [] BothK(b, f, "KINT") \/ BothK(b, f, "KGC") -> condfold(b, (f.op1 = f.op2) = (f.op = "EQ"))
    [] f.op1 = f.op2 /\ f.t # "num" -> condfold(b, f.op = "EQ")
    [] OTHER -> comm_swap_comp(b, f)

MinInt == -2147483647 - 1
MaxInt == 2147483647
BitResults == {"BAND", "BOR", "BXOR", "BSHL", "BSHR", "BSAR", "BNOT"}
FoldComp(b, f) ==
  LET inrange == /\ f.t = "num" /\ IsOp(b, f.op2, "KNUM") /\ f.op1 > 0 /\ ir(b, f.op1).op \in BitResults
                 /\ \/ f.op = "GE" /\ KnumVal(b, f.op2) = Num(MinInt)
                    \/ f.op = "LE" /\ KnumVal(b, f.op2) = Num(MaxInt)
  IN  CASE AnyK(b, f) -> condfold(b, fold_numcmp(KnumVal(b, f.op1), KnumVal(b, f.op2), f.op))
        [] (f.op = "UGE" /\ IsKint(b, f.op2, 0)) \/ inrange -> Drop(b)
        [] f.op1 = f.op2 /\ f.t # "num" -> condfold(b, f.op \in {"GE", "LE", "UGE", "ULE"})
        [] OTHER -> comm_swap_comp(b, f)

fold_step(b, f) ==
  CASE f.op = "ADD" -> FoldAdd(b, f)
    [] f.op = "SUB" -> FoldSub(b, f)
    [] f.op = "MUL" -> FoldMul(b, f)
    [] f.op = "DIV" -> FoldDiv(b, f)
    [] f.op = "MOD" -> FoldMod(b, f)
    [] f.op = "POW" -> FoldPow(b, f)
    [] f.op = "NEG" -> FoldNeg(b, f)
    [] f.op = "ABS" -> IF IsOp(b, f.op1, "KNUM") THEN FromK(knum(b, fold_numarith(KnumVal(b, f.op1), Num(0), "ABS"))) ELSE Cse
    [] f.op \in {"MIN", "MAX"} -> FoldMinMax(b, f)
    [] f.op \in {"ADDOV", "SUBOV", "MULOV"} -> FoldOv(b, f)
    [] f.op \in BitResults \cup {"TOBIT"} -> FoldBit(b, f)
    [] f.op \in {"EQ", "NE"} -> FoldEq(b, f)
    [] f.op \in {"LT", "GE", "LE", "GT", "ULT", "UGE", "ULE", "UGT"} -> FoldComp(b, f)
    [] OTHER -> Cse

\* Loads and stores are only forwarded or removed, allocations only emitted.
opt_fold(b, f) ==
  LET v == try_fwd(b, f)
      s == fold_step(b, f)
  IN  CASE irm_kind(f.op) = "L" /\ v # NONE -> Emitted(b, v)
        [] irm_kind(f.op) = "S" -> emit_ins(dse_astore(b, f), f)
        [] irm_kind(f.op) # "N" -> emit_ins(b, f)
        [] s.k = "ref" -> Emitted(s.b, s.r)
        [] s.k = "retry" -> opt_fold(s.b, s.f)
        [] s.k = "cse" -> opt_cse(b, f)

emitir(b, ins) == opt_fold(b, ins)
=============================================================================
