---------------------------- MODULE MCDriveSync ----------------------------
(* DriveSync, with one run at a time on each device; devices, items and    *)
(* folders are interchangeable, which is sound for its safety runs.        *)
EXTENDS DriveSync, TLC

MCHome == [r \in Runs |-> r]
Symmetry == Permutations(Devices) \cup Permutations(Items) \cup Permutations(Folders)
=============================================================================
