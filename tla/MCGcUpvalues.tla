--------------------------- MODULE MCGcUpvalues ---------------------------
(* Small instances of GcUpvalues for TLC. *)
EXTENDS GcUpvalues
=============================================================================
