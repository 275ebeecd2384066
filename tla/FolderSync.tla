----------------------------- MODULE FolderSync -----------------------------
(***************************************************************************)
(* Folder sync: rounds of crates/freally-sync/src/engine.rs over a pair of *)
(* folders that users go on editing, with the process killed at any point. *)
(*                                                                         *)
(* One relative path.  A round treats paths independently of each other    *)
(* but for one thing: a conflict renames its loser to another, free path,  *)
(* which the next round walks like any other.  The path modelled here may  *)
(* be the one in conflict (ExecuteConflict) or the one a loser lands on    *)
(* (ConflictLands); every path of a pair is an instance of this module.  A *)
(* file is the version it holds; two files have one BLAKE3 iff they hold   *)
(* one version.  Torn is what an interrupted in-place copy leaves.  mtimes *)
(* are abstracted: in a conflict either side may be the later one.  Vector *)
(* clocks are left out, decide_action does not read them.  A dry run is a  *)
(* round cancelled before it executes.                                     *)
(***************************************************************************)
EXTENDS Integers

CONSTANTS Versions,    \* what users may write to a file
          Torn,        \* a partly copied file
          None,        \* no file, no baseline row
          Modes,       \* the sync modes a pair may be configured for
          MaxEdits,    \* bound on writes and deletions by users, and on losers
                       \* that conflicts on other paths put here
          MaxKills     \* bound on process kills

ASSUME BoundsAssumption == MaxEdits \in Nat /\ MaxKills \in Nat
ASSUME ValuesAssumption == Torn \notin Versions /\ None \notin Versions /\ Torn # None
ASSUME ModesAssumption ==
  Modes \subseteq {"TwoWay", "MirrorLeftToRight", "MirrorRightToLeft",
                   "ContributeLeftToRight"}

VARIABLES
  mode,     \* SyncMode of the pair
  disk,     \* the file on each side
  kept,     \* versions moved to a sync-conflict path, on each side
  db,       \* baseline row: the version last seen in sync
  pc,       \* where the round is ("idle": no round, or one that failed)
  seen,     \* what the walks found on each side
  act,      \* the planned action
  touched,  \* history: the path was written, but not by its own action, since the
            \* round began
  settled,  \* history: an untouched round has finished and no such write came since
  edits, kills

vars == <<mode, disk, kept, db, pc, seen, act, touched, settled, edits, kills>>
history == <<touched, settled>>
bounds == <<edits, kills>>

Sides == {"left", "right"}
Other(s) == IF s = "left" THEN "right" ELSE "left"
Files == Versions \union {Torn}
States == Files \union {None}

Noop == [kind |-> "Noop", from |-> "left"]
Copy(s) == [kind |-> "Copy", from |-> s]
Delete(s) == [kind |-> "Delete", from |-> s]            \* s is the side that deleted
KeepConflict(s) == [kind |-> "KeepConflict", from |-> s] \* s is the winner
Actions == [kind : {"Noop", "Copy", "Delete", "KeepConflict"}, from : Sides]

Pcs == {"idle", "walk_left", "walk_right", "decide", "execute", "remove", "delete_file",
        "open", "copying", "put_file", "finished"}

TypeOK ==
  /\ mode \in Modes
  /\ disk \in [Sides -> States]
  /\ kept \in [Sides -> SUBSET Files]
  /\ db \in States
  /\ pc \in Pcs
  /\ seen \in [Sides -> States]
  /\ act \in Actions
  /\ touched \in BOOLEAN
  /\ settled \in BOOLEAN
  /\ edits \in 0 .. MaxEdits
  /\ kills \in 0 .. MaxKills

Init ==
  /\ mode \in Modes
  /\ disk \in [Sides -> Versions \union {None}]
  /\ kept = [s \in Sides |-> {}]
  /\ db = None
  /\ pc = "idle"
  /\ seen = [s \in Sides |-> None]
  /\ act = Noop
  /\ touched = FALSE
  /\ settled = FALSE
  /\ edits = 0
  /\ kills = 0

-----------------------------------------------------------------------------
(* A round.                                                                *)

Start ==
  /\ pc \in {"idle", "finished"}
  /\ pc' = "walk_left"
  /\ seen' = [s \in Sides |-> None]
  /\ act' = Noop
  /\ touched' = FALSE
  /\ UNCHANGED <<mode, disk, kept, db, settled, bounds>>

Walk(s, next) ==
  /\ seen' = [seen EXCEPT ![s] = disk[s]]
  /\ pc' = next
  /\ UNCHANGED <<mode, disk, kept, db, act, history, bounds>>

WalkLeft == pc = "walk_left" /\ Walk("left", "walk_right")
WalkRight == pc = "walk_right" /\ Walk("right", "decide")

DirectionAllowed(s) ==
  \/ mode = "TwoWay"
  \/ s = "left" /\ mode \in {"MirrorLeftToRight", "ContributeLeftToRight"}
  \/ s = "right" /\ mode = "MirrorRightToLeft"

\* Mutant: contribute mode propagates deletions like the others.
OneSideGoneAlwaysDeletes(s) ==
  IF seen[s] = db THEN {Delete(Other(s))} ELSE {KeepConflict(s)}

\* One side has the file, the other had it at the last sync.
OneSideGone(s) ==
  IF seen[s] = db
    THEN IF mode = "ContributeLeftToRight"
           THEN IF s = "left" THEN {Copy("left")} ELSE {Noop}
           ELSE {Delete(Other(s))}
    ELSE {KeepConflict(s)}

\* Both sides have the file and differ.
BothPresent ==
  CASE db = None -> {KeepConflict(s) : s \in Sides}
    [] db # None /\ seen["left"] = db ->
         {IF mode = "ContributeLeftToRight" THEN Noop ELSE Copy("right")}
    [] db # None /\ seen["right"] = db -> {Copy("left")}
    [] OTHER -> {KeepConflict(s) : s \in Sides}

\* decide_action; a set, as either side may have the later mtime.
DecideAction ==
  CASE seen["left"] = seen["right"] -> {Noop}
    [] seen["left"] = None /\ seen["right"] # None ->
         IF db # None THEN OneSideGone("right")
         ELSE {IF DirectionAllowed("right") THEN Copy("right") ELSE Noop}
    [] seen["right"] = None /\ seen["left"] # None ->
         IF db # None THEN OneSideGone("left")
         ELSE {IF DirectionAllowed("left") THEN Copy("left") ELSE Noop}
    [] OTHER -> BothPresent

Decide ==
  /\ pc = "decide"
  /\ act' \in DecideAction
  /\ pc' = "execute"
  /\ UNCHANGED <<mode, disk, kept, db, seen, history, bounds>>

\* The last step of an action, and of the round.
Finished(row) ==
  /\ db' = row
  /\ pc' = "finished"
  /\ settled' = (settled \/ ~touched)
  /\ UNCHANGED <<mode, disk, kept, seen, act, touched, bounds>>

\* Mutant: the baseline always follows the right side.
NoopFollowsRight ==
  /\ pc = "execute"
  /\ act.kind = "Noop"
  /\ Finished(seen["right"])

\* Noop: agreed content becomes the baseline, a row without files is pruned.
ExecuteNoop ==
  /\ pc = "execute"
  /\ act.kind = "Noop"
  /\ Finished(IF seen["left"] = seen["right"] THEN seen["left"] ELSE db)

ExecuteCopy ==
  /\ pc = "execute"
  /\ act.kind = "Copy"
  /\ pc' = "open"
  /\ UNCHANGED <<mode, disk, kept, db, seen, act, history, bounds>>

\* apply_delete looks at the deleting side again.  A file that came back there
\* stops the deletion: as a conflict if it is not the baseline, as "Deleted",
\* row included, if it is.
ExecuteDelete ==
  /\ pc = "execute"
  /\ act.kind = "Delete"
  /\ LET now == disk[act.from]
     IN \/ now = None /\ pc' = "remove"
        \/ now \notin {None, db} /\ pc' = "finished"
        \/ now # None /\ now = db /\ pc' = "delete_file"
  /\ UNCHANGED <<mode, disk, kept, db, seen, act, history, bounds>>

Remove ==
  /\ pc = "remove"
  /\ disk' = [disk EXCEPT ![Other(act.from)] = None]
  /\ pc' = "delete_file"
  /\ UNCHANGED <<mode, kept, db, seen, act, history, bounds>>

\* Mutant: the baseline row of a deleted file stays.
DeleteFileForgotten == pc = "delete_file" /\ Finished(db)

DeleteFile == pc = "delete_file" /\ Finished(None)

\* Mutant: the loser is overwritten in place.
ExecuteConflictInPlace ==
  /\ pc = "execute"
  /\ act.kind = "KeepConflict"
  /\ pc' = IF disk[act.from] # None THEN "open" ELSE "put_file"
  /\ UNCHANGED <<mode, disk, kept, db, seen, act, history, bounds>>

\* apply_conflict: the loser moves to a free sync-conflict path (the file that
\* ConflictLands puts there), then the winner is copied if it is still there.
ExecuteConflict ==
  /\ pc = "execute"
  /\ act.kind = "KeepConflict"
  /\ LET loser == Other(act.from)
     IN /\ kept' = [kept EXCEPT ![loser] = @ \union ({disk[loser]} \ {None})]
        /\ disk' = [disk EXCEPT ![loser] = None]
  /\ pc' = IF disk[act.from] # None THEN "open" ELSE "put_file"
  /\ UNCHANGED <<mode, db, seen, act, history, bounds>>

\* copy_file opens the source (one that is gone fails the round), then
\* truncates the destination.
OpenCopy ==
  /\ pc = "open"
  /\ disk[act.from] # None
  /\ disk' = [disk EXCEPT ![Other(act.from)] = Torn]
  /\ pc' = "copying"
  /\ UNCHANGED <<mode, kept, db, seen, act, history, bounds>>

\* The copy is complete.  If users wrote to or deleted either file meanwhile, it
\* may hold the file as it was opened, the new one, or a mixture.
FinishCopy ==
  /\ pc = "copying"
  /\ \E v \in {disk[act.from]} \union (IF touched THEN {seen[act.from], Torn} ELSE {}) :
       /\ v # None
       /\ disk' = [disk EXCEPT ![Other(act.from)] = v]
  /\ pc' = "put_file"
  /\ UNCHANGED <<mode, kept, db, seen, act, history, bounds>>

\* A read or write error: the partial destination is removed, the round fails.
CopyError ==
  /\ pc = "copying"
  /\ disk' = [disk EXCEPT ![Other(act.from)] = None]
  /\ pc' = "idle"
  /\ UNCHANGED <<mode, kept, db, seen, act, history, bounds>>

\* The baseline row is written from what the walk saw.
PutFile ==
  /\ pc = "put_file"
  /\ Finished(IF seen[act.from] # None THEN seen[act.from] ELSE db)

\* The round is cancelled at a yield point, or an I/O or database error ends it.
Abort ==
  /\ pc \notin {"idle", "copying", "finished"}
  /\ pc' = "idle"
  /\ UNCHANGED <<mode, disk, kept, db, seen, act, history, bounds>>

-----------------------------------------------------------------------------
(* The environment.                                                        *)

Kill ==
  /\ pc \notin {"idle", "finished"}
  /\ kills < MaxKills
  /\ kills' = kills + 1
  /\ pc' = "idle"
  /\ UNCHANGED <<mode, disk, kept, db, seen, act, history, edits>>

\* A user writes, restores or deletes a file, also while a round is running.
Edit(s, v) ==
  /\ edits < MaxEdits
  /\ edits' = edits + 1
  /\ v # disk[s]
  /\ disk' = [disk EXCEPT ![s] = v]
  /\ touched' = TRUE
  /\ settled' = FALSE
  /\ UNCHANGED <<mode, kept, db, pc, seen, act, kills>>

\* A conflict on another path takes this one, free on side s, for its loser:
\* before or after this path's own turn in the round.
ConflictLands(s, v) ==
  /\ pc \in {"execute", "finished"}
  /\ edits < MaxEdits
  /\ edits' = edits + 1
  /\ disk[s] = None
  /\ disk' = [disk EXCEPT ![s] = v]
  /\ touched' = TRUE
  /\ settled' = FALSE
  /\ UNCHANGED <<mode, kept, db, pc, seen, act, kills>>

RoundStep ==
  \/ Start \/ WalkLeft \/ WalkRight \/ Decide
  \/ ExecuteNoop \/ ExecuteCopy \/ ExecuteDelete \/ ExecuteConflict
  \/ Remove \/ DeleteFile \/ OpenCopy \/ FinishCopy \/ CopyError \/ PutFile
  \/ Abort

Next ==
  \/ RoundStep
  \/ Kill
  \/ \E s \in Sides, v \in Versions \union {None} : Edit(s, v)
  \/ \E s \in Sides, v \in Files : ConflictLands(s, v)

Spec == Init /\ [][Next]_vars

-----------------------------------------------------------------------------
(* Properties.                                                             *)

\* The round destroys what users wrote to side s: it was not the version last
\* seen in sync, and neither a sync-conflict file nor the other side holds it.
DestroysEdit(s) ==
  /\ edits' = edits
  /\ disk[s] \in Versions \ {db}
  /\ disk'[s] # disk[s]
  /\ disk[s] \notin kept'[s] \union {disk'[Other(s)]}

\* "so no data is lost even when both sides edited" (head of lib.rs): whatever
\* rounds were killed or failed before, no step of a round destroys an edit that
\* its walks could see.
SyncKeepsEdits == [][~touched => \A s \in Sides : ~DestroysEdit(s)]_vars

\* One complete round brings a path of a two-way pair and its baseline together,
\* also after rounds that stopped between any two steps, and for a path on which
\* the round before left the loser of a conflict.
RoundConverges ==
  pc = "finished" /\ ~touched /\ mode = "TwoWay" =>
    disk["left"] = disk["right"] /\ db = disk["left"]

\* No ping-pong: once a round has finished undisturbed, further rounds change
\* nothing at the path on either side, in every mode, until a user writes there
\* or the loser of a conflict on another path lands there. (So a conflict costs
\* the pair a round more: the one that copies the loser over.)
SettledStaysSettled == [][settled /\ settled' => disk' = disk]_vars

\* "never deletes anything on the receiver": a contribute round leaves a file
\* on the right where it found one.
ContributeKeepsReceiver ==
  pc = "finished" /\ ~touched /\ mode = "ContributeLeftToRight" /\ seen["right"] # None =>
    disk["right"] # None
=============================================================================
