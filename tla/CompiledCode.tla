---------------------------- MODULE CompiledCode ----------------------------
(***************************************************************************)
(* The compiler and the interpreter together: source programs are compiled *)
(* by the model of the parser, executed by the model of the interpreter,   *)
(* and compared with what the language says of them.                       *)
(***************************************************************************)
EXTENDS Vm

C == INSTANCE Compiler
L == INSTANCE LuaRef

\* The prototypes of a compiled function as one sequence, the function first.
RECURSIVE Flatten(_, _)
Flatten(pt, first) ==
  LET Add(r, k) == LET sub == Flatten(k, first + Len(r.all) + 1)
                   IN  [all |-> r.all \o sub, kids |-> Append(r.kids, first + Len(r.all) + 1)]
      r == FoldLeft(Add, [all |-> <<>>, kids |-> <<>>], pt.kgc)
  IN  <<[bc |-> pt.bc, uv |-> pt.uv, numparams |-> pt.numparams, framesize |-> pt.framesize,
         vararg |-> pt.vararg, needsarg |-> pt.needsarg, kids |-> r.kids]>> \o r.all

\* Programs to run, each of which may start n recordings.
CompiledFrom(Sources, n) ==
  {[src |-> x, code |-> Flatten(C!parse(x).proto, 1), meaning |-> L!Meaning(x), records |-> n] : x \in Sources}

Shown(r) == <<r[1], IF r[1] = "ok" THEN L!Shapes(r[2]) ELSE L!Shape(r[2])>>
Meant == [log |-> L!Shapes(m.log), res |-> Shown(m.res)] = m.prog.meaning

\* Compiled code does what the program means: when it ends, it has handed the
\* same values to the host in the same order and has returned the same
\* results or raised the same error.  Nothing is said of a program in which
\* an error left upvalues open on discarded frames: what their closures read
\* is then anything (UnwindingCloses of Vm).
Outcome == (Ended /\ m.prog.records = 0 /\ m.left = {}) => Meant

\* So does a program whose hot loops are recorded and run as traces, from
\* whichever iteration on, through side traces, exits and failed recordings:
\* nobody can tell from its output.
TracedOutcome == (Ended /\ m.prog.records > 0 /\ m.left = {}) => Meant
=============================================================================
