----------------------------- MODULE MCPrograms -----------------------------
(* Programs compiled, interpreted and traced: the families of Programs,    *)
(* in which no recording is started, and the loops of LoopPrograms         *)
(* ("hot"), with up to two recordings, each at any loop instruction.       *)
EXTENDS TracedVm, TraceExec, CompiledCode
Plain == INSTANCE Programs
Hot == INSTANCE LoopPrograms
MCPrograms(f) ==
  LET sources == IF f = "hot" THEN Hot!AllLoops ELSE Plain!Family(f)
      n == IF f = "hot" THEN 2 ELSE 0
  IN  CompiledFrom(sources, n)

MCSetupRoot(no, s, p, pc) == LET J == setup_root(no, s, p, pc) IN J
MCSetupSide(no, s, t, parent, exitno) == LET J == setup_side(no, s, t, parent, exitno) IN J
MCRecordIns(J, s, js) == LET K == record_ins(J, s, js) IN K
MCLastSnapshot(J) == LET K == last_snapshot(J) IN K
MCLoopPasses(J) == LET o == loop_passes(J) IN o
MCFinalPasses(t) == LET o == final_passes(t) IN o
MCRunIr(x, start) == LET e == run_ir(x, start) IN e
=============================================================================
