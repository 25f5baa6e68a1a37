--------------------------- MODULE MCKeyRotation ---------------------------
(* TLC instances of KeyRotation: the constants are given in the .cfg files, *)
(* the symmetry sets here.                                                 *)
EXTENDS KeyRotation, TLC

Symmetry == Permutations(Refs) \cup Permutations(Vers)
ManagerSymmetry == Symmetry \cup Permutations(Managers)
=============================================================================
