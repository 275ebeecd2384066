-------------------------- MODULE MCResumableCopy --------------------------
(* Instances of ResumableCopy for TLC: see the cfg files.                   *)
EXTENDS ResumableCopy

\* journal_file_idx as CopyOptions::default leaves it, for every file.
ZeroIdx(f) == 0
=============================================================================
