---------------------------- MODULE MCJitTraces ----------------------------
(* A numeric for loop and a function header of one prototype. *)
EXTENDS JitTraces

CONSTANTS forl, funcf, p

MCProtoOf == [h \in Headers |-> p]

\* Bound: with a flush that is due, or once jit.flush left a patched header,
\* two traces at a time.
FewAfterFlush == invalidate \/ left # {} => trace[MaxTrace] = NoTrace
============================================================================
