---------------------------- MODULE MCDesignTasks ----------------------------
(* DesignTasks for TLC: the request handlers and the keys are symmetric.   *)
EXTENDS DesignTasks, TLC

Symmetry == Permutations(Requests) \union Permutations(Keys)

=============================================================================
