----------------------------- MODULE MCUpdateSet -----------------------------
(* TLC instances of UpdateSet.                                             *)
EXTENDS UpdateSet, TLC

Locations == Permutations(Loc)

=============================================================================
