--------------------------- MODULE MCCustomerAccess ---------------------------
EXTENDS CustomerAccess, TLC

CONSTANTS a1, a2, s1

Symmetry == Permutations(Admins)

=============================================================================
