--------------------------- MODULE SnapshotCatalog ---------------------------
(***************************************************************************)
(* What a backup repository promises (crates/freally-chunk): a catalog of  *)
(* snapshots.  A committed snapshot restores to what was recorded until it *)
(* is removed, whatever is written, swept, compacted or interrupted        *)
(* meanwhile, and no id is ever given to a second snapshot.                *)
(***************************************************************************)
EXTENDS Integers

CONSTANTS Chunks,   \* contents, named by their BLAKE3
          MaxSnaps, \* bound on snapshot ids
          None      \* no such snapshot

VARIABLES
  catalog,  \* id -> what restoring it yields, chunk by chunk
  next,     \* next id to hand out
  pending   \* ids handed out whose snapshot is not recorded yet

vars == <<catalog, next, pending>>

SnapIds == 1 .. MaxSnaps

\* A snapshot of the chunks in S: each one restores to itself.
Faithful(S) == [c \in S |-> c]

Init ==
  /\ catalog = [i \in SnapIds |-> None]
  /\ next = 1
  /\ pending = {}

HandOut ==
  /\ next \in SnapIds
  /\ next' = next + 1
  /\ pending' = pending \union {next}
  /\ UNCHANGED catalog

Record(i, S) ==
  /\ i \in pending
  /\ catalog[i] = None
  /\ catalog' = [catalog EXCEPT ![i] = Faithful(S)]
  /\ pending' = pending \ {i}
  /\ UNCHANGED next

\* The recording failed, or the process died.
Forsake(ids) ==
  /\ ids \subseteq pending
  /\ pending' = pending \ ids
  /\ UNCHANGED <<catalog, next>>

Remove(ids) ==
  /\ catalog' = [i \in SnapIds |-> IF i \in ids THEN None ELSE catalog[i]]
  /\ UNCHANGED <<next, pending>>

Next ==
  \/ HandOut
  \/ \E i \in SnapIds, S \in SUBSET Chunks : Record(i, S)
  \/ \E ids \in SUBSET SnapIds : Forsake(ids) \/ Remove(ids)

Spec == Init /\ [][Next]_vars
=============================================================================
