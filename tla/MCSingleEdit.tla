---------------------------- MODULE MCSingleEdit ----------------------------
EXTENDS SingleEdit, TLC

CONSTANTS r1, r2

Symmetry == Permutations(Requests)

=============================================================================
