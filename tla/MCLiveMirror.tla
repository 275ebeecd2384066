---------------------------- MODULE MCLiveMirror ----------------------------
(***************************************************************************)
(* One ordinary file, one staging file and one swap file: enough for every *)
(* save dance and for an overflow between its halves.                      *)
(***************************************************************************)
EXTENDS LiveMirror
=============================================================================
