------------------------------ MODULE MCApiTokens ------------------------------
EXTENDS ApiTokens, TLC

(* The tasks run the same code.                                            *)
Symmetry == Permutations(Tasks)
=============================================================================
