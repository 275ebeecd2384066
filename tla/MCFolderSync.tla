---------------------------- MODULE MCFolderSync ----------------------------
(* Instances of FolderSync for TLC: see the cfg files.                      *)
EXTENDS FolderSync, TLC

CONSTANTS v1, v2, v3

\* Versions are only compared for equality.
Symmetry == Permutations(Versions)
=============================================================================
