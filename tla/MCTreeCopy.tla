----------------------------- MODULE MCTreeCopy -----------------------------
(***************************************************************************)
(* Small trees for TreeCopy.  Under KeepBoth a copy of `a` may land on     *)
(* `a_2`, which the source may hold too and which then goes on to          *)
(* `a_2_2`; no further candidates are tried.  A third file, `c`, is what   *)
(* it takes to leave the walker blocked on a full channel.                 *)
(***************************************************************************)
EXTENDS TreeCopy

AllNames == {"a", "a_2", "a_2_2", "c"}
AllFiles == {"a", "a_2", "c"}
AllSuffixes ==
    [f \in AllFiles |-> CASE f = "a" -> <<"a_2">> [] f = "a_2" -> <<"a_2_2">> [] f = "c" -> <<>>]

\* Bounds: the third file comes with a plain copy into an empty directory, and
\* something is at `a_2_2` only where the job's own policy may choose that name.
SmallInit ==
    /\ Init
    /\ "c" \in src =>
          /\ src = AllFiles
          /\ job = [kind |-> "copy", policy |-> "skip", onError |-> "abort"]
          /\ \A n \in Names : dst[n] = Nothing
    /\ dst["c"] = Nothing
    /\ dst["a_2_2"] = Before => job.policy \in {"keep", "a_2_2"}

SmallSpec == SmallInit /\ [][Next]_vars /\ Fairness

Pair == {"a", "a_2"}
PairNames == {"a", "a_2", "a_2_2"}
PairSuffixes == [f \in Pair |-> IF f = "a" THEN <<"a_2">> ELSE <<"a_2_2">>]

Triple == {"a", "b", "c"}
NoSuffixes == [f \in Triple |-> <<>>]
=============================================================================
