-------------------------- MODULE MCQueueRegistry --------------------------
(* Instances of QueueRegistry for TLC: see the cfg files.                   *)
EXTENDS QueueRegistry, TLC

Symmetric == Permutations(Enqueuers)
=============================================================================
