----------------------------- MODULE MCSessions -----------------------------
(* Sessions, with the tabs interchangeable: sound for its safety runs.      *)
EXTENDS Sessions, TLC

TabSymmetry == Permutations(Tabs)
=============================================================================
