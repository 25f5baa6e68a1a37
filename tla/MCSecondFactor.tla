--------------------------- MODULE MCSecondFactor ---------------------------
(* SecondFactor, with the slots of requests interchangeable.                *)
EXTENDS SecondFactor, TLC

RequestSymmetry == Permutations(Requests)
=============================================================================
