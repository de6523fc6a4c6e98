---------------------------- MODULE MCCoroutine ----------------------------
(* Coroutines are interchangeable. *)
EXTENDS Coroutine, TLC

Symmetry == Permutations(Co)
=============================================================================
