------------------------------ MODULE Bytecode ------------------------------
(***************************************************************************)
(* The instructions the compiler emits and the interpreter executes        *)
(* (compiler/bc.rs), and the values both of them handle.  A constant is    *)
(* carried by the instruction itself instead of by an index into a         *)
(* constant table of the prototype; the unbiased jump distance of a        *)
(* jump-format instruction is its operand d.                               *)
(***************************************************************************)
EXTENDS Integers, Sequences, TLC, Bitwise

\* Register and position sentinels of the emitter.
NO_REG == 255
NO_JMP == -1

\* Instructions with the operand layouts A-D (or A-J) and A-B-C.
AD(op, a, d) == [op |-> op, a |-> a, b |-> 0, c |-> 0, d |-> d]
ABC(op, a, b, c) == [op |-> op, a |-> a, b |-> b, c |-> c, d |-> 0]

\* Values: a tag and its payload, so that values of all types compare.
Nil == <<"nil">>
Bool(x) == <<"bool", x>>
Num(n) == <<"num", n>>
Str(s) == <<"str", s>>
Table(i) == <<"table", i>>
Lua(i) == <<"lua", i>>
CFun(s) == <<"cfun", s>>
Truthy(v) == v # Nil /\ v # Bool(FALSE)
IsNum(v) == v[1] = "num"

\* The bit operators, on words that are not negative: a shift counts modulo
\* the width of 32 bits.
BitOps == {"&", "|", "~", "<<", ">>", "~>>"}
Bits(op, x, y) ==
  CASE op = "&" -> x & y
    [] op = "|" -> x | y
    [] op = "~" -> x ^^ y
    [] op = "<<" -> x * 2 ^ (y % 32)
    [] op \in {">>", "~>>"} -> x \div 2 ^ (y % 32)
BitNot(x) == -x - 1

\* The opcode with the opposite condition: the last bit of its number.
Opposite == ("ISLT" :> "ISGE") @@ ("ISGE" :> "ISLT") @@ ("ISLE" :> "ISGT")
         @@ ("ISGT" :> "ISLE") @@ ("ISEQV" :> "ISNEV") @@ ("ISNEV" :> "ISEQV")
         @@ ("ISEQK" :> "ISNEK") @@ ("ISNEK" :> "ISEQK")
         @@ ("ISTC" :> "ISFC") @@ ("ISFC" :> "ISTC")
         @@ ("IST" :> "ISF") @@ ("ISF" :> "IST")
=============================================================================
