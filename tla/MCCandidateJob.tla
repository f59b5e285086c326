--------------------------- MODULE MCCandidateJob ---------------------------
(***************************************************************************)
(* CandidateJob for TLC.                                                   *)
(***************************************************************************)
EXTENDS CandidateJob, TLC

RunSymmetry == Permutations(Runs)

=============================================================================
