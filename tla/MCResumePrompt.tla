--------------------------- MODULE MCResumePrompt ---------------------------
(* Instance of ResumePrompt for TLC: see the cfg files.                     *)
EXTENDS ResumePrompt
=============================================================================
