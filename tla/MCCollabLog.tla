---------------------------- MODULE MCCollabLog ----------------------------
(* TLC instances of CollabLog: the constants are given in the .cfg files,  *)
(* the symmetry set here.                                                  *)
EXTENDS CollabLog, TLC

Symmetry == Permutations(Edits) \cup Permutations(Clients) \cup Permutations(Managers)
=============================================================================
