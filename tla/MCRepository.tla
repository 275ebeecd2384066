---------------------------- MODULE MCRepository ----------------------------
(* Instances of Repository for TLC: see the cfg files.                      *)
EXTENDS Repository, TLC

CONSTANTS c1, c2, t1, t2

\* Three packs of one chunk, or two of two.
Packs == [r \in {1, 2} |-> IF r = 1 THEN 3 ELSE 2]

\* Chunks and threads are only compared for equality.
Symmetry == Permutations(Chunks) \union Permutations(Threads)
=============================================================================
