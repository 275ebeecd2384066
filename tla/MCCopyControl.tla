--------------------------- MODULE MCCopyControl ---------------------------
(* Instance of CopyControl for TLC: see MCCopyControl.cfg.                  *)
EXTENDS CopyControl
=============================================================================
