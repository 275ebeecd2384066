------------------------- MODULE ResumePromptProofs -------------------------
(***************************************************************************)
(* TLAPS proofs about ResumePrompt, for any number of rows and launches.   *)
(***************************************************************************)
EXTENDS ResumePrompt, TLAPS

\* Ids not handed out yet are untouched by every table and list.
FutureRowsUnused ==
  \A r \in Rows : r >= nextRow =>
    /\ rows[r].status = "absent"
    /\ runs[r].pc = "none"
    /\ r \notin startup
    /\ r \notin discarded

\* Rows found at boot belong to an earlier launch, and the prompt shows no
\* others; tasks exist only while the app runs.
EarlierLaunch ==
  /\ modal \subseteq startup
  /\ doomed \subseteq startup
  /\ \A r \in startup : runs[r].pc = "none"
  /\ app = "closed" => startup = {} /\ \A r \in Rows : runs[r].pc = "none"

\* A discarded row is gone from the table and, but for the one command that is
\* still deleting, from the list; that command has deleted or spared what it no
\* longer has on its own list.
DiscardedUnused ==
  /\ \A r \in discarded : /\ rows[r].status = "absent"
                          /\ runs[r].pc = "none"
                          /\ r \notin doomed
                          /\ app # "wiping" => r \notin startup
  /\ app = "wiping" =>
       \A r \in startup : r \in doomed \union spared \/ rows[r].status = "absent"
  /\ app # "wiping" => doomed = {}

Inv == TypeOK /\ FutureRowsUnused /\ EarlierLaunch /\ DiscardedUnused /\ NoJobForgotten

LEMMA InitInv == Init => Inv
  BY RowsAssumption
  DEF Init, Inv, TypeOK, FutureRowsUnused, EarlierLaunch, DiscardedUnused,
      NoJobForgotten, Rows, None, Absent, NoRun, RunPcs

\* Destinations nest once per allocated row, which bounds their depth.
DepthBound ==
  /\ \A r \in Rows : rows[r].dst < nextRow
  /\ \A r \in Rows : runs[r].dst < nextRow

LEMMA InitDepth == Init => DepthBound
  BY RowsAssumption DEF Init, DepthBound, Rows, Absent, NoRun

LEMMA TypeStep == TypeOK /\ DepthBound /\ [Next]_vars => TypeOK' /\ DepthBound'
<1> SUFFICES ASSUME TypeOK, DepthBound, [Next]_vars PROVE TypeOK' /\ DepthBound'
  OBVIOUS
<1> USE RowsAssumption
    DEF TypeOK, DepthBound, Rows, None, Absent, NoRun, RunPcs, tables, memory, lists
<1>1. ASSUME NEW outcome \in {"running", "unread", "unjournalled"}, Boot(outcome)
      PROVE TypeOK' /\ DepthBound'
  <2>1. UNCHANGED <<nextRow, rows, files, runs, doomed, spared, discarded>>
    BY <1>1 DEF Boot
  <2>2. app' \in {"closed", "running", "wiping", "unread", "unjournalled"}
    BY <1>1 DEF Boot
  <2>3. boots' \in 0 .. MaxBoots
    BY <1>1 DEF Boot
  <2>4. startup' \in SUBSET Rows /\ modal' \in SUBSET Rows
    BY <1>1 DEF Boot, Unfinished
  <2> QED BY <2>1, <2>2, <2>3, <2>4
<1>2. CASE StartCopy
  <2>1. [pc |-> "allocated", dst |-> 0 + 1, of |-> None]
          \in [pc : RunPcs, dst : 0 .. MaxRows, of : Rows \union {None}]
    BY <1>2 DEF StartCopy, Allocate
  <2>2. runs' \in [Rows -> [pc : RunPcs, dst : 0 .. MaxRows, of : Rows \union {None}]]
    BY <1>2, <2>1 DEF StartCopy, Allocate
  <2>3. DepthBound'
    BY <1>2 DEF StartCopy, Allocate
  <2>4. nextRow' \in 1 .. MaxRows + 1
    BY <1>2 DEF StartCopy, Allocate
  <2>5. UNCHANGED <<rows, files, app, boots, startup, modal, doomed, spared, discarded>>
    BY <1>2 DEF StartCopy, Allocate
  <2> QED BY <2>2, <2>3, <2>4, <2>5
<1>3. CASE DiscardAll
  <2>1. nextRow' \in 1 .. MaxRows + 1
    BY <1>3 DEF DiscardAll, DeleteJob
  <2>2. rows' \in [Rows -> [status : {"absent", "Running", "Ended"}, dst : 0 .. MaxRows]]
    BY <1>3 DEF DiscardAll, DeleteJob
  <2>3. /\ files' \in SUBSET Rows /\ startup' \in SUBSET Rows /\ modal' \in SUBSET Rows
        /\ discarded' \in SUBSET Rows
        /\ doomed' \in SUBSET Rows /\ spared' \in SUBSET Rows
    BY <1>3 DEF DiscardAll, DeleteJob
  <2>4. runs' \in [Rows -> [pc : RunPcs, dst : 0 .. MaxRows, of : Rows \union {None}]]
    BY <1>3 DEF DiscardAll, DeleteJob
  <2>5. app' \in {"closed", "running", "wiping", "unread", "unjournalled"} /\ boots' \in 0 .. MaxBoots
    BY <1>3 DEF DiscardAll, DeleteJob
  <2>6. DepthBound'
    BY <1>3 DEF DiscardAll, DeleteJob
  <2> QED BY <2>1, <2>2, <2>3, <2>4, <2>5, <2>6
<1>4. CASE Crash
  BY <1>4 DEF Crash
<1>5. ASSUME NEW r \in Rows, Resume(r) PROVE TypeOK' /\ DepthBound'
  <2>1. [pc |-> "allocated", dst |-> rows[r].dst + 1, of |-> r]
          \in [pc : RunPcs, dst : 0 .. MaxRows, of : Rows \union {None}]
    BY <1>5 DEF Resume, Allocate
  <2>2. runs' \in [Rows -> [pc : RunPcs, dst : 0 .. MaxRows, of : Rows \union {None}]]
    BY <1>5, <2>1 DEF Resume, Allocate
  <2>3. /\ nextRow' = nextRow + 1 /\ nextRow \in Rows /\ rows' = rows
        /\ runs' = [runs EXCEPT ![nextRow] =
                      [pc |-> "allocated", dst |-> rows[r].dst + 1, of |-> r]]
    BY <1>5 DEF Resume, Allocate
  <2>4. rows[r].dst \in Int /\ rows[r].dst < nextRow
    OBVIOUS
  <2>5. \A q \in Rows : runs'[q].dst < nextRow'
    <3> TAKE q \in Rows
    <3>1. CASE q = nextRow
      BY <2>3, <2>4, <3>1
    <3>2. CASE q # nextRow
      BY <2>3, <3>2
    <3> QED BY <3>1, <3>2
  <2>6. \A q \in Rows : rows'[q].dst < nextRow'
    BY <2>3
  <2>7. UNCHANGED <<app, boots, startup, discarded, files, doomed, spared>> /\ modal' \subseteq modal
    BY <1>5 DEF Resume, Allocate
  <2>8. nextRow' \in 1 .. MaxRows + 1
    BY <2>3
  <2>9. rows' \in [Rows -> [status : {"absent", "Running", "Ended"}, dst : 0 .. MaxRows]]
    BY <2>3
  <2>10. TypeOK'
    BY <2>2, <2>7, <2>8, <2>9
  <2> QED BY <2>5, <2>6, <2>10
<1>6. ASSUME NEW r \in Rows, BeginJob(r) PROVE TypeOK' /\ DepthBound'
  <2>1. nextRow' \in 1 .. MaxRows + 1
    BY <1>6 DEF BeginJob
  <2>2. rows' \in [Rows -> [status : {"absent", "Running", "Ended"}, dst : 0 .. MaxRows]]
    BY <1>6 DEF BeginJob
  <2>3. /\ files' \in SUBSET Rows /\ startup' \in SUBSET Rows /\ modal' \in SUBSET Rows
        /\ discarded' \in SUBSET Rows
        /\ doomed' \in SUBSET Rows /\ spared' \in SUBSET Rows
    BY <1>6 DEF BeginJob
  <2>4. runs' \in [Rows -> [pc : RunPcs, dst : 0 .. MaxRows, of : Rows \union {None}]]
    BY <1>6 DEF BeginJob
  <2>5. app' \in {"closed", "running", "wiping", "unread", "unjournalled"} /\ boots' \in 0 .. MaxBoots
    BY <1>6 DEF BeginJob
  <2>6. DepthBound'
    BY <1>6 DEF BeginJob
  <2> QED BY <2>1, <2>2, <2>3, <2>4, <2>5, <2>6
<1>7. ASSUME NEW r \in Rows, Checkpoint(r) \/ FinishJob(r) PROVE TypeOK' /\ DepthBound'
  <2>1. CASE Checkpoint(r)
    BY <2>1 DEF Checkpoint
  <2>2. CASE FinishJob(r)
    <3>1. rows' \in [Rows -> [status : {"absent", "Running", "Ended"}, dst : 0 .. MaxRows]]
      <4>1. [rows EXCEPT ![r].status = "Ended"]
              \in [Rows -> [status : {"absent", "Running", "Ended"}, dst : 0 .. MaxRows]]
        OBVIOUS
      <4> QED BY <2>2, <4>1 DEF FinishJob
    <3>2. runs' \in [Rows -> [pc : RunPcs, dst : 0 .. MaxRows, of : Rows \union {None}]]
      BY <2>2 DEF FinishJob
    <3>3. DepthBound'
      BY <2>2 DEF FinishJob
    <3> QED BY <2>2, <3>1, <3>2, <3>3 DEF FinishJob
  <2> QED BY <1>7, <2>1, <2>2
<1>8. ASSUME NEW r \in Rows, Discard(r) PROVE TypeOK' /\ DepthBound'
  <2>1. nextRow' \in 1 .. MaxRows + 1
    BY <1>8 DEF Discard, DeleteJob
  <2>2. rows' \in [Rows -> [status : {"absent", "Running", "Ended"}, dst : 0 .. MaxRows]]
    BY <1>8 DEF Discard, DeleteJob
  <2>3. /\ files' \in SUBSET Rows /\ startup' \in SUBSET Rows /\ modal' \in SUBSET Rows
        /\ discarded' \in SUBSET Rows
        /\ doomed' \in SUBSET Rows /\ spared' \in SUBSET Rows
    BY <1>8 DEF Discard, DeleteJob
  <2>4. runs' \in [Rows -> [pc : RunPcs, dst : 0 .. MaxRows, of : Rows \union {None}]]
    BY <1>8 DEF Discard, DeleteJob
  <2>5. app' \in {"closed", "running", "wiping", "unread", "unjournalled"} /\ boots' \in 0 .. MaxBoots
    BY <1>8 DEF Discard, DeleteJob
  <2>6. DepthBound'
    BY <1>8 DEF Discard, DeleteJob
  <2> QED BY <2>1, <2>2, <2>3, <2>4, <2>5, <2>6
<1>10. CASE DiscardAllDone
  BY <1>10 DEF DiscardAllDone
<1>11. ASSUME NEW r \in Rows, BeginJobFails(r) PROVE TypeOK' /\ DepthBound'
  BY <1>11 DEF BeginJobFails
<1>12. ASSUME NEW r \in Rows, DiscardNext(r) PROVE TypeOK' /\ DepthBound'
  <2>1. UNCHANGED <<nextRow, app, boots, startup, modal, runs>>
    BY <1>12 DEF DiscardNext, DeleteJob
  <2>2. rows' \in [Rows -> [status : {"absent", "Running", "Ended"}, dst : 0 .. MaxRows]]
    BY <1>12 DEF DiscardNext, DeleteJob
  <2>3. /\ files' \in SUBSET Rows /\ doomed' \in SUBSET Rows
        /\ spared' \in SUBSET Rows /\ discarded' \in SUBSET Rows
    BY <1>12 DEF DiscardNext, DeleteJob
  <2>4. \A q \in Rows : rows'[q].dst < nextRow
    BY <1>12 DEF DiscardNext, DeleteJob
  <2> QED BY <2>1, <2>2, <2>3, <2>4
<1>9. CASE UNCHANGED vars
  BY <1>9 DEF vars
<1> QED
  BY <1>1, <1>2, <1>3, <1>4, <1>5, <1>6, <1>7, <1>8, <1>9, <1>10, <1>11, <1>12 DEF Next, Over

LEMMA StepInv == Inv /\ TypeOK' /\ [Next]_vars => Inv'
<1> SUFFICES ASSUME Inv, TypeOK', [Next]_vars PROVE Inv'
  OBVIOUS
<1> USE RowsAssumption
    DEF Inv, TypeOK, FutureRowsUnused, EarlierLaunch, DiscardedUnused,
        NoJobForgotten, Rows, None, Absent, NoRun, RunPcs, tables, memory, lists
<1>1. ASSUME NEW outcome \in {"running", "unread", "unjournalled"}, Boot(outcome)
      PROVE Inv'
  BY <1>1 DEF Boot, Unfinished
<1>2. CASE StartCopy
  <2>1. FutureRowsUnused'
    BY <1>2 DEF StartCopy, Allocate
  <2>2. EarlierLaunch'
    BY <1>2 DEF StartCopy, Allocate
  <2>3. DiscardedUnused'
    BY <1>2 DEF StartCopy, Allocate
  <2>4. NoJobForgotten'
    BY <1>2 DEF StartCopy, Allocate
  <2> QED BY <2>1, <2>2, <2>3, <2>4
<1>3. CASE DiscardAll
  BY <1>3 DEF DiscardAll, DeleteJob
<1>4. CASE Crash
  BY <1>4 DEF Crash
<1>5. ASSUME NEW r \in Rows, Resume(r) PROVE Inv'
  <2>1. FutureRowsUnused'
    BY <1>5 DEF Resume, Allocate
  <2>2. EarlierLaunch'
    BY <1>5 DEF Resume, Allocate
  <2>3. DiscardedUnused'
    BY <1>5 DEF Resume, Allocate
  <2>4. NoJobForgotten'
    BY <1>5 DEF Resume, Allocate
  <2> QED BY <2>1, <2>2, <2>3, <2>4
<1>6. ASSUME NEW r \in Rows, BeginJob(r) PROVE Inv'
  <2>1. FutureRowsUnused'
    BY <1>6 DEF BeginJob
  <2>2. EarlierLaunch'
    BY <1>6 DEF BeginJob
  <2>3. DiscardedUnused'
    BY <1>6 DEF BeginJob
  <2>4. NoJobForgotten'
    BY <1>6 DEF BeginJob
  <2> QED BY <2>1, <2>2, <2>3, <2>4
<1>7. ASSUME NEW r \in Rows, Checkpoint(r) \/ FinishJob(r) PROVE Inv'
  <2>1. CASE Checkpoint(r)
    BY <2>1 DEF Checkpoint
  <2>2. CASE FinishJob(r)
    <3>1. FutureRowsUnused'
      BY <2>2 DEF FinishJob
    <3>2. EarlierLaunch'
      BY <2>2 DEF FinishJob
    <3>3. DiscardedUnused'
      <4>1. r \notin discarded /\ r \notin startup
        BY <2>2 DEF FinishJob
      <4>2. \A q \in Rows : q # r => rows'[q] = rows[q] /\ runs'[q] = runs[q]
        BY <2>2 DEF FinishJob
      <4>3. UNCHANGED <<app, startup, doomed, spared, discarded>>
        BY <2>2 DEF FinishJob
      <4>4. \A q \in discarded : q \in Rows /\ q # r
        BY <4>1
      <4>5. \A q \in startup : q \in Rows /\ q # r
        BY <4>1
      <4> HIDE DEF TypeOK
      <4> QED BY <4>2, <4>3, <4>4, <4>5
    <3>4. NoJobForgotten'
      BY <2>2 DEF FinishJob
    <3> QED BY <3>1, <3>2, <3>3, <3>4
  <2> QED BY <1>7, <2>1, <2>2
<1>8. ASSUME NEW r \in Rows, Discard(r) PROVE Inv'
  <2>1. FutureRowsUnused'
    BY <1>8 DEF Discard, DeleteJob
  <2>2. EarlierLaunch'
    BY <1>8 DEF Discard, DeleteJob
  <2>3. DiscardedUnused'
    BY <1>8 DEF Discard, DeleteJob
  <2>4. NoJobForgotten'
    BY <1>8 DEF Discard, DeleteJob
  <2> QED BY <2>1, <2>2, <2>3, <2>4
<1>10. CASE DiscardAllDone
  BY <1>10 DEF DiscardAllDone
<1>11. ASSUME NEW r \in Rows, BeginJobFails(r) PROVE Inv'
  BY <1>11 DEF BeginJobFails
<1>12. ASSUME NEW r \in Rows, DiscardNext(r) PROVE Inv'
  <2>1. /\ UNCHANGED <<nextRow, app, boots, startup, modal, runs>>
        /\ app = "wiping" /\ r \in startup /\ doomed' = doomed \ {r}
    BY <1>12 DEF DiscardNext, DeleteJob
  <2>2. CASE DeleteJob(r) /\ UNCHANGED spared
    <3>1. /\ rows'[r].status = "absent" /\ discarded' = discarded \union {r}
          /\ \A q \in Rows : q # r => rows'[q] = rows[q]
      BY <2>2 DEF DeleteJob
    <3>2. r < nextRow
      BY <2>1
    <3>3. FutureRowsUnused'
      BY <2>1, <3>1, <3>2
    <3>4. EarlierLaunch'
      BY <2>1
    <3>5. DiscardedUnused'
      BY <2>1, <2>2, <3>1
    <3>6. NoJobForgotten'
      BY <2>1, <2>2, <3>1
    <3> QED BY <3>3, <3>4, <3>5, <3>6
  <2>3. CASE spared' = spared \union {r} /\ UNCHANGED <<tables, discarded>>
    BY <2>1, <2>3
  <2> QED BY <1>12, <2>2, <2>3 DEF DiscardNext
<1>9. CASE UNCHANGED vars
  BY <1>9 DEF vars
<1> QED
  BY <1>1, <1>2, <1>3, <1>4, <1>5, <1>6, <1>7, <1>8, <1>9, <1>10, <1>11, <1>12 DEF Next, Over

LEMMA InvAlways == Spec => [](Inv /\ DepthBound)
<1>1. Init => Inv /\ DepthBound
  BY InitInv, InitDepth
<1>2. Inv /\ DepthBound /\ [Next]_vars => (Inv /\ DepthBound)'
  BY TypeStep, StepInv DEF Inv
<1> QED BY <1>1, <1>2, PTL DEF Spec

\* The variables keep their types.
THEOREM TypeCorrect == Spec => []TypeOK
<1>1. Inv => TypeOK
  BY DEF Inv
<1> QED BY <1>1, InvAlways, PTL

\* Every interrupted job is listed by a launch whose sweep could read the
\* journal, until its row is deleted or a failed deletion took it off the list.
THEOREM InterruptedJobsAreOffered == Spec => []NoJobForgotten
<1>1. Inv => NoJobForgotten
  BY DEF Inv
<1> QED BY <1>1, InvAlways, PTL

\* A discarded row stays gone and its id is never given to another job.
THEOREM DiscardIsFinal == Spec => []DiscardedStaysGone
<1>1. Inv => DiscardedStaysGone
  BY DEF Inv, DiscardedUnused, EarlierLaunch, DiscardedStaysGone
<1> QED BY <1>1, InvAlways, PTL
=============================================================================
