---------------------------- MODULE MCSimManager ----------------------------
(* SimManager on small sets.                                                 *)
EXTENDS SimManager, TLC

Symmetry == Permutations(Callers) \cup Permutations(Objects)

=============================================================================
