-------------------------- MODULE FolderSyncProofs --------------------------
(***************************************************************************)
(* Theorems about FolderSync, for any versions, modes and bounds.          *)
(***************************************************************************)
EXTENDS FolderSync, TLAPS

USE DEF Sides, Other

\* What the decision table guarantees about a planned action, in terms of what
\* the walks saw and of the baseline they were compared with.
NoopPlanned(l, r, b) ==
  \/ l = r
  \/ l = None /\ b = None /\ ~DirectionAllowed("right")
  \/ r = None /\ b = None /\ ~DirectionAllowed("left")
  \/ l = None /\ b # None /\ r = b /\ mode = "ContributeLeftToRight"
  \/ r # None /\ b # None /\ l = b /\ mode = "ContributeLeftToRight"

Planned ==
  /\ act.kind = "Noop" => NoopPlanned(seen["left"], seen["right"], db)
  /\ act.kind = "Copy" => /\ seen[act.from] # None
                          /\ seen[Other(act.from)] \in {None, db}
                          /\ seen["left"] # seen["right"]
  /\ act.kind = "Delete" => /\ seen[act.from] = None
                            /\ seen[Other(act.from)] = db
                            /\ db # None
                            /\ mode # "ContributeLeftToRight"
  /\ act.kind = "KeepConflict" => /\ seen[act.from] # None
                                  /\ seen["left"] # seen["right"]

\* While nobody has touched the pair since the round began, the plan is about
\* what is on disk, up to what the round itself has done.
Current ==
  ~touched =>
    /\ pc = "walk_right" => seen["left"] = disk["left"]
    /\ pc \in {"decide", "execute", "remove"} =>
         seen["left"] = disk["left"] /\ seen["right"] = disk["right"]
    /\ pc \in {"execute", "remove", "delete_file", "open", "copying", "put_file"} => Planned
    /\ pc \in {"remove", "delete_file"} => act.kind = "Delete"
    /\ pc = "delete_file" => disk["left"] = None /\ disk["right"] = None
    /\ pc \in {"open", "copying", "put_file"} =>
         act.kind \in {"Copy", "KeepConflict"} /\ disk[act.from] = seen[act.from]
    /\ pc = "open" => disk[Other(act.from)] \in {None, db}
    /\ pc = "copying" => disk[Other(act.from)] = Torn
    /\ pc = "put_file" => disk[Other(act.from)] = seen[act.from]

\* A pair that an undisturbed round has left is one for which the next round
\* plans nothing.
Stable ==
  settled =>
    /\ ~touched
    /\ NoopPlanned(disk["left"], disk["right"], db)
    /\ pc \notin {"remove", "delete_file", "open", "copying", "put_file"}
    /\ pc = "execute" => act.kind = "Noop"

IInv == TypeOK /\ Current /\ RoundConverges /\ ContributeKeepsReceiver

-----------------------------------------------------------------------------

\* The decision table plans only what Planned says.
LEMMA DecisionIsPlanned ==
  ASSUME TypeOK, NEW a \in DecideAction
  PROVE  /\ a \in Actions
         /\ a.kind = "Noop" => NoopPlanned(seen["left"], seen["right"], db)
         /\ a.kind = "Copy" => /\ seen[a.from] # None
                               /\ seen[Other(a.from)] \in {None, db}
                               /\ seen["left"] # seen["right"]
         /\ a.kind = "Delete" => /\ seen[a.from] = None
                                 /\ seen[Other(a.from)] = db
                                 /\ db # None
                                 /\ mode # "ContributeLeftToRight"
         /\ a.kind = "KeepConflict" => /\ seen[a.from] # None
                                       /\ seen["left"] # seen["right"]
<1> DEFINE l == seen["left"]
           r == seen["right"]
<1>1. CASE l = r
  <2>1. a = Noop
    BY <1>1 DEF DecideAction
  <2> QED BY <1>1, <2>1 DEF Noop, Actions, NoopPlanned
<1>2. CASE l = None /\ r # None
  <2>1. a \in IF db # None THEN OneSideGone("right")
              ELSE {IF DirectionAllowed("right") THEN Copy("right") ELSE Noop}
    BY <1>2 DEF DecideAction
  <2>2. \/ a = Delete("left") /\ r = db /\ db # None /\ mode # "ContributeLeftToRight"
        \/ a = KeepConflict("right")
        \/ a = Copy("right")
        \/ a = Noop /\ r = db /\ db # None /\ mode = "ContributeLeftToRight"
        \/ a = Noop /\ db = None /\ ~DirectionAllowed("right")
    BY <2>1 DEF OneSideGone
  <2> QED BY <1>2, <2>2 DEF Noop, Copy, Delete, KeepConflict, Actions, NoopPlanned
<1>3. CASE r = None /\ l # None
  <2>1. a \in IF db # None THEN OneSideGone("left")
              ELSE {IF DirectionAllowed("left") THEN Copy("left") ELSE Noop}
    BY <1>3 DEF DecideAction
  <2>2. \/ a = Delete("right") /\ l = db /\ db # None /\ mode # "ContributeLeftToRight"
        \/ a = KeepConflict("left")
        \/ a = Copy("left")
        \/ a = Noop /\ db = None /\ ~DirectionAllowed("left")
    BY <2>1 DEF OneSideGone
  <2> QED BY <1>3, <2>2 DEF Noop, Copy, Delete, KeepConflict, Actions, NoopPlanned
<1>4. CASE l # r /\ l # None /\ r # None
  <2>1. a \in BothPresent
    BY <1>4 DEF DecideAction
  <2>2. \/ \E s \in Sides : a = KeepConflict(s)
        \/ a = Noop /\ l = db /\ db # None /\ mode = "ContributeLeftToRight"
        \/ a = Copy("right") /\ l = db
        \/ a = Copy("left") /\ r = db
    BY <2>1 DEF BothPresent
  <2> QED BY <1>4, <2>2 DEF Noop, Copy, KeepConflict, Actions, NoopPlanned
<1> QED BY <1>1, <1>2, <1>3, <1>4

\* The initial states satisfy the invariant.
LEMMA InitIInv == Init => IInv /\ Stable
<1> SUFFICES ASSUME Init PROVE IInv /\ Stable
  OBVIOUS
<1>1. TypeOK
  <2>1. edits \in 0 .. MaxEdits /\ kills \in 0 .. MaxKills
    BY BoundsAssumption DEF Init
  <2>2. mode \in Modes /\ act \in Actions
    BY DEF Init, Actions, Noop
  <2>3. disk \in [Sides -> States] /\ seen \in [Sides -> States]
    BY DEF Init, States, Files
  <2>4. kept \in [Sides -> SUBSET Files] /\ db \in States /\ pc \in Pcs
    BY DEF Init, States, Pcs
  <2>5. touched \in BOOLEAN /\ settled \in BOOLEAN
    BY DEF Init
  <2> QED BY <2>1, <2>2, <2>3, <2>4, <2>5 DEF TypeOK
<1>2. Current /\ RoundConverges /\ ContributeKeepsReceiver /\ Stable
  BY DEF Init, Current, RoundConverges, ContributeKeepsReceiver, Stable
<1> QED BY <1>1, <1>2 DEF IInv

\* Each step keeps the types.
LEMMA TypeStep == ASSUME TypeOK, [Next]_vars PROVE TypeOK'
<1> USE BoundsAssumption DEF TypeOK, history, bounds, Pcs, States, Files
<1>1. CASE UNCHANGED vars
  BY <1>1 DEF vars
<1>2. CASE Start
  BY <1>2 DEF Start, Noop, Actions
<1>3. CASE WalkLeft \/ WalkRight
  BY <1>3 DEF WalkLeft, WalkRight, Walk
<1>4. CASE Decide
  <2>1. act' \in Actions
    BY <1>4, DecisionIsPlanned DEF Decide
  <2> QED BY <1>4, <2>1 DEF Decide
<1>5. CASE ExecuteNoop
  BY <1>5 DEF ExecuteNoop, Finished
<1>6. CASE ExecuteCopy \/ ExecuteDelete \/ Abort
  BY <1>6 DEF ExecuteCopy, ExecuteDelete, Abort
<1>7. CASE ExecuteConflict
  <2>1. Other(act.from) \in Sides
    BY DEF Actions
  <2>2. disk' \in [Sides -> States] /\ kept' \in [Sides -> SUBSET Files]
    BY <1>7, <2>1 DEF ExecuteConflict
  <2> QED BY <1>7, <2>2 DEF ExecuteConflict
<1>8. CASE Remove \/ OpenCopy \/ CopyError
  BY <1>8 DEF Remove, OpenCopy, CopyError, Actions
<1>9. CASE DeleteFile
  BY <1>9 DEF DeleteFile, Finished
<1>10. CASE FinishCopy
  BY <1>10 DEF FinishCopy, Actions
<1>11. CASE PutFile
  BY <1>11 DEF PutFile, Finished, Actions
<1>12. CASE Kill
  BY <1>12 DEF Kill
<1>14. CASE \E s \in Sides, v \in Files : ConflictLands(s, v)
  <2> PICK s \in Sides, v \in Files : ConflictLands(s, v)
    BY <1>14
  <2>1. disk' \in [Sides -> States]
    BY DEF ConflictLands
  <2>2. edits' \in 0 .. MaxEdits
    BY DEF ConflictLands
  <2> QED BY <2>1, <2>2 DEF ConflictLands
<1>13. CASE \E s \in Sides, v \in Versions \union {None} : Edit(s, v)
  <2> PICK s \in Sides, v \in Versions \union {None} : Edit(s, v)
    BY <1>13
  <2>1. disk' \in [Sides -> States]
    BY DEF Edit
  <2>2. edits' \in 0 .. MaxEdits
    BY DEF Edit
  <2> QED BY <2>1, <2>2 DEF Edit
<1> QED BY <1>1, <1>2, <1>3, <1>4, <1>5, <1>6, <1>7, <1>8, <1>9, <1>10, <1>11, <1>12, <1>13, <1>14
        DEF Next, RoundStep

\* Each step keeps the plan current.
LEMMA CurrentStep == ASSUME IInv, [Next]_vars PROVE Current'
<1> USE DEF IInv, history, bounds
<1>0. TypeOK /\ act.from \in Sides /\ DOMAIN disk = Sides
  BY DEF TypeOK, Actions
<1>1. CASE UNCHANGED vars
  BY <1>1 DEF vars, Current, Planned, NoopPlanned, DirectionAllowed
<1>2. CASE Start
  BY <1>2 DEF Start, Current
<1>3. CASE WalkLeft \/ WalkRight
  BY <1>0, <1>3 DEF WalkLeft, WalkRight, Walk, Current, TypeOK
<1>4. CASE Decide
  <2>1. Planned'
    BY <1>4, DecisionIsPlanned DEF Decide, Planned, NoopPlanned, DirectionAllowed
  <2> QED BY <1>4, <2>1 DEF Decide, Current
<1>5. CASE ExecuteNoop \/ DeleteFile \/ PutFile \/ Abort \/ Kill \/ CopyError
  BY <1>5 DEF ExecuteNoop, DeleteFile, PutFile, Finished, Abort, Kill, CopyError, Current
<1>6. CASE ExecuteCopy
  BY <1>0, <1>6 DEF ExecuteCopy, Current, Planned, NoopPlanned, DirectionAllowed
<1>7. CASE ExecuteDelete
  BY <1>0, <1>7 DEF ExecuteDelete, Current, Planned, NoopPlanned, DirectionAllowed
<1>8. CASE Remove
  BY <1>0, <1>8 DEF Remove, Current, Planned, NoopPlanned, DirectionAllowed
<1>9. CASE ExecuteConflict
  BY <1>0, <1>9 DEF ExecuteConflict, Current, Planned, NoopPlanned, DirectionAllowed
<1>10. CASE OpenCopy
  BY <1>0, <1>10 DEF OpenCopy, Current, Planned, NoopPlanned, DirectionAllowed
<1>11. CASE FinishCopy
  BY <1>0, <1>11 DEF FinishCopy, Current, Planned, NoopPlanned, DirectionAllowed
<1>12. CASE \/ \E s \in Sides, v \in Versions \union {None} : Edit(s, v)
            \/ \E s \in Sides, v \in Files : ConflictLands(s, v)
  BY <1>12 DEF Edit, ConflictLands, Current
<1> QED BY <1>1, <1>2, <1>3, <1>4, <1>5, <1>6, <1>7, <1>8, <1>9, <1>10, <1>11, <1>12
        DEF Next, RoundStep

\* A round that finishes undisturbed has done its work.
LEMMA FinishStep ==
  ASSUME IInv, [Next]_vars
  PROVE  RoundConverges' /\ ContributeKeepsReceiver'
<1> USE DEF IInv, history, bounds
<1> DEFINE Goal == RoundConverges' /\ ContributeKeepsReceiver'
<1>0. TypeOK /\ act.from \in Sides /\ DOMAIN disk = Sides
  BY DEF TypeOK, Actions
<1>1. CASE UNCHANGED vars
  BY <1>1 DEF vars, RoundConverges, ContributeKeepsReceiver
<1>2. CASE \/ Start \/ WalkLeft \/ WalkRight \/ Decide \/ ExecuteCopy \/ ExecuteConflict
           \/ Remove \/ OpenCopy \/ FinishCopy \/ CopyError \/ Abort \/ Kill
  <2>1. pc' # "finished"
    BY <1>2 DEF Start, WalkLeft, WalkRight, Walk, Decide, ExecuteCopy, ExecuteConflict, Remove,
                OpenCopy, FinishCopy, CopyError, Abort, Kill
  <2> QED BY <2>1 DEF RoundConverges, ContributeKeepsReceiver
<1>3. CASE ExecuteNoop
  BY <1>3 DEF ExecuteNoop, Finished, RoundConverges, ContributeKeepsReceiver, Current, Planned,
              NoopPlanned, DirectionAllowed
<1>4. CASE ExecuteDelete
  BY <1>0, <1>4 DEF ExecuteDelete, RoundConverges, ContributeKeepsReceiver, Current, Planned
<1>5. CASE DeleteFile
  BY <1>5 DEF DeleteFile, Finished, RoundConverges, ContributeKeepsReceiver, Current, Planned
<1>6. CASE PutFile
  BY <1>0, <1>6 DEF PutFile, Finished, RoundConverges, ContributeKeepsReceiver, Current, Planned
<1>7. CASE \/ \E s \in Sides, v \in Versions \union {None} : Edit(s, v)
           \/ \E s \in Sides, v \in Files : ConflictLands(s, v)
  BY <1>7 DEF Edit, ConflictLands, RoundConverges, ContributeKeepsReceiver
<1> QED BY <1>1, <1>2, <1>3, <1>4, <1>5, <1>6, <1>7 DEF Next, RoundStep

\* The invariant is inductive.
LEMMA Invariance == Spec => []IInv
<1>1. IInv /\ [Next]_vars => IInv'
  BY TypeStep, CurrentStep, FinishStep DEF IInv
<1> QED BY <1>1, InitIInv, PTL DEF Spec

\* Once a pair is settled, rounds plan nothing for it.
LEMMA StableStep == ASSUME IInv, Stable, [Next]_vars PROVE Stable'
<1> USE DEF IInv, history, bounds
<1>0. TypeOK /\ act.from \in Sides
  BY DEF TypeOK, Actions
<1>1. CASE UNCHANGED vars
  BY <1>1 DEF vars, Stable, NoopPlanned, DirectionAllowed
<1>2. CASE Start \/ WalkLeft \/ WalkRight \/ Abort \/ Kill
  BY <1>2 DEF Start, WalkLeft, WalkRight, Walk, Abort, Kill, Stable, NoopPlanned,
              DirectionAllowed
<1>3. CASE Decide
  <2> SUFFICES ASSUME settled PROVE Stable'
    BY <1>3 DEF Decide, Stable
  <2>1. NoopPlanned(seen["left"], seen["right"], db)
    BY <1>3 DEF Decide, Stable, Current
  <2>2. act' = Noop
    BY <1>3, <2>1 DEF Decide, DecideAction, OneSideGone, BothPresent, NoopPlanned,
                      DirectionAllowed
  <2> QED BY <1>3, <2>2 DEF Decide, Stable, NoopPlanned, DirectionAllowed, Noop
<1>4. CASE ExecuteNoop
  BY <1>4 DEF ExecuteNoop, Finished, Stable, Current, Planned, NoopPlanned, DirectionAllowed
<1>5. CASE ExecuteCopy \/ ExecuteDelete \/ ExecuteConflict
  BY <1>5 DEF ExecuteCopy, ExecuteDelete, ExecuteConflict, Stable
<1>6. CASE Remove \/ OpenCopy \/ FinishCopy \/ CopyError
  BY <1>6 DEF Remove, OpenCopy, FinishCopy, CopyError, Stable
<1>7. CASE DeleteFile
  BY <1>7 DEF DeleteFile, Finished, Stable, Current, NoopPlanned
<1>8. CASE PutFile
  BY <1>0, <1>8 DEF PutFile, Finished, Stable, Current, NoopPlanned
<1>9. CASE \/ \E s \in Sides, v \in Versions \union {None} : Edit(s, v)
           \/ \E s \in Sides, v \in Files : ConflictLands(s, v)
  BY <1>9 DEF Edit, ConflictLands, Stable
<1> QED BY <1>1, <1>2, <1>3, <1>4, <1>5, <1>6, <1>7, <1>8, <1>9 DEF Next, RoundStep

\* Every variable of a sync pair keeps its type.
THEOREM TypeCorrect == Spec => []TypeOK
BY Invariance, PTL DEF IInv

\* One undisturbed round makes a two-way pair and its baseline agree, whatever
\* stopped the rounds before it.
THEOREM OneRoundConverges == Spec => []RoundConverges
BY Invariance, PTL DEF IInv

\* A contribute round never deletes a file of the receiver.
THEOREM ReceiverIsKept == Spec => []ContributeKeepsReceiver
BY Invariance, PTL DEF IInv

\* No step of a round destroys an edit that its walks could see.
THEOREM EditsSurvive == Spec => SyncKeepsEdits
<1> DEFINE Safe == ~touched => \A s \in Sides : ~DestroysEdit(s)
<1>1. ASSUME IInv, [Next]_vars PROVE [Safe]_vars
  <2> SUFFICES ASSUME ~touched, NEW s \in Sides, DestroysEdit(s), Next PROVE FALSE
    BY <1>1 DEF DestroysEdit
  <2> USE <1>1 DEF IInv, history, bounds, DestroysEdit
  <2>0. TypeOK /\ act.from \in Sides /\ DOMAIN disk = Sides
    BY DEF TypeOK, Actions
  <2>1. CASE \/ Start \/ WalkLeft \/ WalkRight \/ Decide \/ ExecuteNoop \/ ExecuteCopy
             \/ ExecuteDelete \/ DeleteFile \/ PutFile \/ Abort \/ Kill
    BY <2>1 DEF Start, WalkLeft, WalkRight, Walk, Decide, ExecuteNoop, Finished, ExecuteCopy,
                ExecuteDelete, DeleteFile, PutFile, Abort, Kill
  <2>2. CASE Remove
    BY <2>0, <2>2 DEF Remove, Current, Planned
  <2>3. CASE ExecuteConflict
    BY <2>0, <2>3, ValuesAssumption DEF ExecuteConflict, TypeOK
  <2>4. CASE OpenCopy
    BY <2>0, <2>4, ValuesAssumption DEF OpenCopy, Current
  <2>5. CASE FinishCopy \/ CopyError
    BY <2>0, <2>5, ValuesAssumption DEF FinishCopy, CopyError, Current
  <2>6. CASE \/ \E t \in Sides, v \in Versions \union {None} : Edit(t, v)
             \/ \E t \in Sides, v \in Files : ConflictLands(t, v)
    BY <2>6 DEF Edit, ConflictLands, TypeOK
  <2> QED BY <2>1, <2>2, <2>3, <2>4, <2>5, <2>6 DEF Next, RoundStep
<1> QED BY <1>1, Invariance, PTL DEF Spec, SyncKeepsEdits

\* After an undisturbed round nothing changes at a path until a user writes
\* there or the loser of another path's conflict lands there.
THEOREM NoPingPong == Spec => SettledStaysSettled
<1> DEFINE Still == settled /\ settled' => disk' = disk
<1>1. IInv /\ Stable /\ [Next]_vars => Stable'
  BY StableStep
<1>2. IInv /\ Stable /\ [Next]_vars => [Still]_vars
  <2> SUFFICES ASSUME IInv, Stable, Next, settled, settled' PROVE disk' = disk
    OBVIOUS
  <2> USE DEF IInv, history, bounds, Stable
  <2>1. CASE \/ Start \/ WalkLeft \/ WalkRight \/ Decide \/ ExecuteNoop \/ ExecuteCopy
             \/ ExecuteDelete \/ DeleteFile \/ PutFile \/ Abort \/ Kill
    BY <2>1 DEF Start, WalkLeft, WalkRight, Walk, Decide, ExecuteNoop, Finished, ExecuteCopy,
                ExecuteDelete, DeleteFile, PutFile, Abort, Kill
  <2>2. CASE Remove \/ ExecuteConflict \/ OpenCopy \/ FinishCopy \/ CopyError
    BY <2>2 DEF Remove, ExecuteConflict, OpenCopy, FinishCopy, CopyError
  <2>3. CASE \/ \E t \in Sides, v \in Versions \union {None} : Edit(t, v)
             \/ \E t \in Sides, v \in Files : ConflictLands(t, v)
    BY <2>3 DEF Edit, ConflictLands
  <2> QED BY <2>1, <2>2, <2>3 DEF Next, RoundStep
<1> QED BY <1>1, <1>2, InitIInv, Invariance, PTL DEF Spec, SettledStaysSettled
=============================================================================
