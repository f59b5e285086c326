------------------------- MODULE MCBatchGeneration -------------------------
(***************************************************************************)
(* BatchGeneration for TLC.                                                *)
(***************************************************************************)
EXTENDS BatchGeneration

=============================================================================
