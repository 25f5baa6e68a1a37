----------------------------- MODULE MCNodeTree -----------------------------
(* NodeTree, with files, folders, blobs and requests interchangeable: sound *)
(* for its safety runs.                                                     *)
EXTENDS NodeTree, TLC

Symmetry == Permutations(Files) \cup Permutations(Nodes \ Files)
              \cup Permutations(Blobs) \cup Permutations(Requests)
=============================================================================
