------------------------ MODULE QueueRegistryProofs ------------------------
(***************************************************************************)
(* TLAPS proofs about QueueRegistry, for any number of enqueuers, drives,  *)
(* jobs and queues and any set of commands.                                *)
(***************************************************************************)
EXTENDS QueueRegistry, TLAPS

-----------------------------------------------------------------------------
(* Types, and the handles the actors hold.                                 *)

\* Ids of queues in the registry and of the handles held outside it have been
\* minted.
QueueIds ==
  /\ \A q \in reg : q < nextQueue
  /\ \A t \in Enqueuers :
       enq[t].pc \in {"add", "get_queue", "get_job"} =>
         enq[t].queue \in Queues /\ enq[t].queue < nextQueue
  /\ \A j \in Jobs :
       runner[j].pc # "none" =>
         runner[j].queue \in Queues /\ runner[j].queue < nextQueue

\* What the main thread works on inside a command.
UiTargets ==
  /\ ui.pc \in {"drain", "extend", "unregister"} =>
       ui.queue \in Queues /\ ui.dst \in Queues /\ ui.queue # ui.dst
  /\ ui.pc \in {"control", "erase"} => ui.job \in Jobs /\ ui.queue \in Queues

LEMMA InitTypes == Init => TypeOK /\ QueueIds /\ UiTargets
<1> SUFFICES ASSUME Init PROVE TypeOK /\ QueueIds /\ UiTargets
  OBVIOUS
<1>1. SomeDrive \in Drives
  BY DrivesAssumption DEF SomeDrive
<1>2. TypeOK
  BY <1>1 DEF Init, TypeOK, EnqRecords, UiRecords, RunnerRecords, UiIdle, EnqPcs,
     UiPcs, RunnerPcs, AllCommands, JobStates, Flags, None, Free, Ui
<1>3. QueueIds /\ UiTargets
  BY DEF Init, QueueIds, UiTargets, UiIdle
<1> QED BY <1>2, <1>3

\* A step of an enqueuer keeps the types.
LEMMA EnqueuerTypes ==
  ASSUME TypeOK, NEW t \in Enqueuers, EnqueuerStep(t)
  PROVE TypeOK'
<1> USE DEF regVars, jobVars, enqRest
<1>0. /\ enq \in [Enqueuers -> EnqRecords]
      /\ reg \subseteq Queues
      /\ runner \in [Jobs -> RunnerRecords]
  BY DEF TypeOK
<1>1. {"f2", "scan", "spawn", "add", "get_queue", "get_job", "idle", "panicked"} \subseteq EnqPcs
  BY DEF EnqPcs
<1>2. ASSUME NEW p \in EnqPcs
      PROVE [enq EXCEPT ![t].pc = p] \in [Enqueuers -> EnqRecords]
  BY <1>0 DEF EnqRecords
<1>3. ASSUME NEW p \in EnqPcs, NEW q \in Queues \union {None}
      PROVE [enq EXCEPT ![t].pc = p, ![t].queue = q] \in [Enqueuers -> EnqRecords]
  BY <1>0 DEF EnqRecords
<1>4. ASSUME NEW d \in Drives, Route(t, d) PROVE TypeOK'
  <2>1. ASSUME NEW p \in EnqPcs
        PROVE [pc |-> p, drive |-> d, queue |-> None, job |-> None] \in EnqRecords
    BY DEF EnqRecords
  <2>2. enq' \in [Enqueuers -> EnqRecords]
    BY <1>0, <1>1, <1>4, <2>1 DEF Route
  <2> QED BY <1>4, <2>2 DEF Route, TypeOK
<1>5. CASE ScanLock(t)
  <2>1. enq' \in [Enqueuers -> EnqRecords]
    BY <1>1, <1>2, <1>5 DEF ScanLock
  <2> QED BY <1>5, <2>1 DEF ScanLock, TypeOK
<1>6. CASE Scan(t)
  <2>1. ASSUME NEW q \in reg PROVE [enq EXCEPT ![t].queue = q] \in [Enqueuers -> EnqRecords]
    BY <1>0 DEF EnqRecords
  <2>2. ASSUME NEW q \in reg
        PROVE [enq EXCEPT ![t].pc = "add", ![t].queue = q] \in [Enqueuers -> EnqRecords]
    BY <1>0, <1>1, <1>3
  <2>3. [enq EXCEPT ![t].pc = "spawn", ![t].queue = None] \in [Enqueuers -> EnqRecords]
    BY <1>1, <1>3
  <2>4. enq' \in [Enqueuers -> EnqRecords]
    BY <1>6, <2>1, <2>2, <2>3 DEF Scan
  <2>5. lock' \in Enqueuers \union {Free, Ui}
    BY <1>6 DEF Scan, TypeOK
  <2> QED BY <1>6, <2>4, <2>5 DEF Scan, TypeOK
<1>7. CASE FindOrSpawn(t)
  <2>1. enq[t].drive \in Drives
    BY <1>0 DEF EnqRecords
  <2>2. CASE UNCHANGED regVars
    <3>1. PICK q \in Queues : enq' = [enq EXCEPT ![t].pc = "add", ![t].queue = q]
      BY <1>0, <1>7, <2>2 DEF FindOrSpawn
    <3>2. enq' \in [Enqueuers -> EnqRecords]
      BY <1>1, <1>3, <3>1
    <3> QED BY <1>7, <2>2, <3>2 DEF FindOrSpawn, TypeOK
  <2>3. CASE nextQueue \in Queues
             /\ reg' = reg \union {nextQueue}
             /\ driveOf' = [driveOf EXCEPT ![nextQueue] = enq[t].drive]
             /\ nextQueue' = nextQueue + 1
             /\ enq' = [enq EXCEPT ![t].pc = "add", ![t].queue = nextQueue]
    <3>1. enq' \in [Enqueuers -> EnqRecords]
      BY <1>1, <1>3, <2>3
    <3>2. driveOf' \in [Queues -> Drives] /\ reg' \in SUBSET Queues /\ nextQueue' \in Nat
      BY <2>1, <2>3 DEF TypeOK
    <3>3. UNCHANGED <<nextJob, entries, job, flag, removed, late, f2, lock, ui, runner>>
      BY <1>7 DEF FindOrSpawn
    <3> QED BY <3>1, <3>2, <3>3 DEF TypeOK
  <2> QED BY <1>7, <2>2, <2>3 DEF FindOrSpawn
<1>8. CASE Add(t)
  <2>1. ASSUME NEW p \in EnqPcs, NEW i \in Jobs
        PROVE [enq EXCEPT ![t].pc = p, ![t].job = i] \in [Enqueuers -> EnqRecords]
    BY <1>0 DEF EnqRecords
  <2>2. enq' \in [Enqueuers -> EnqRecords]
    BY <1>1, <1>8, <2>1 DEF Add
  <2>3. entries' \in [Queues -> SUBSET Jobs] /\ late' \in SUBSET Jobs
    BY <1>8 DEF Add, TypeOK
  <2> QED BY <1>8, <2>2, <2>3 DEF Add, TypeOK
<1>9. CASE GetQueue(t)
  <2>1. enq' \in [Enqueuers -> EnqRecords]
    BY <1>1, <1>2, <1>9 DEF GetQueue
  <2> QED BY <1>9, <2>1 DEF GetQueue, TypeOK
<1>10. CASE GetJob(t)
  <2>1. enq[t].queue \in Queues \union {None}
    BY <1>0 DEF EnqRecords
  <2>2. ASSUME NEW j, NEW q \in Queues \union {None}
        PROVE [runner EXCEPT ![j].pc = "start", ![j].queue = q] \in [Jobs -> RunnerRecords]
    BY <1>0 DEF RunnerRecords, RunnerPcs
  <2>3. runner' \in [Jobs -> RunnerRecords]
    <3>1. CASE enq[t].job \in entries[enq[t].queue]
      <4>1. runner' = [runner EXCEPT ![enq[t].job].pc = "start",
                                     ![enq[t].job].queue = enq[t].queue]
        BY <1>10, <3>1 DEF GetJob
      <4> QED BY <2>1, <2>2, <4>1
    <3>2. CASE enq[t].job \notin entries[enq[t].queue]
      BY <1>0, <1>10, <3>2 DEF GetJob
    <3> QED BY <3>1, <3>2
  <2>4. enq' \in [Enqueuers -> EnqRecords]
    BY <1>1, <1>2, <1>10 DEF GetJob
  <2> QED BY <1>10, <2>3, <2>4 DEF GetJob, TypeOK
<1> QED BY <1>4, <1>5, <1>6, <1>7, <1>8, <1>9, <1>10 DEF EnqueuerStep

\* A step of the main thread keeps the types.
LEMMA UiTypes ==
  ASSUME TypeOK, UiTargets, UiStep
  PROVE TypeOK'
<1> USE DEF jobVars, uiRest
<1>0. /\ ui \in UiRecords /\ UiIdle \in UiRecords
      /\ entries \in [Queues -> SUBSET Jobs]
      /\ job \in [Jobs -> [state : JobStates, started : BOOLEAN]]
      /\ flag \in [Jobs -> Flags]
  BY DEF TypeOK, UiIdle, UiRecords, UiPcs
<1>1. {"idle", "control", "erase", "prune", "retain", "drain", "extend", "unregister"} \subseteq UiPcs
  BY DEF UiPcs
<1>2. ASSUME NEW p \in UiPcs PROVE [ui EXCEPT !.pc = p] \in UiRecords
  BY <1>0 DEF UiRecords
<1>3. ASSUME NEW op \in {"pause", "resume", "cancel", "remove"}, NEW j \in Jobs, Command(op, j)
      PROVE TypeOK'
  <2>1. ASSUME NEW p \in UiPcs, NEW q \in Queues
        PROVE [UiIdle EXCEPT !.op = op, !.job = j, !.queue = q, !.pc = p] \in UiRecords
    BY DEF UiIdle, UiRecords, AllCommands
  <2>2. PICK q \in Queues, p \in UiPcs :
          ui' = [UiIdle EXCEPT !.op = op, !.job = j, !.queue = q, !.pc = p]
    BY <1>1, <1>3 DEF Command, TypeOK
  <2>3. NewState(op, job[j]) \in JobStates
    BY <1>0 DEF NewState, JobStates
  <2>4. job' \in [Jobs -> [state : JobStates, started : BOOLEAN]]
    BY <1>0, <1>3, <2>3 DEF Command
  <2> QED BY <1>3, <2>1, <2>2, <2>4 DEF Command, TypeOK
<1>4. CASE Control
  <2>1. ui' \in UiRecords
    BY <1>0, <1>1, <1>2, <1>4 DEF Control
  <2>2. flag' \in [Jobs -> Flags]
    BY <1>0, <1>4 DEF Control, Flags
  <2> QED BY <1>4, <2>1, <2>2 DEF Control, TypeOK
<1>5. CASE Erase
  <2>1. ui' \in UiRecords
    BY <1>1, <1>2, <1>5 DEF Erase
  <2>2. entries' \in [Queues -> SUBSET Jobs] /\ removed' \in SUBSET Jobs
    BY <1>5 DEF Erase, TypeOK, UiTargets
  <2> QED BY <1>5, <2>1, <2>2 DEF Erase, TypeOK
<1>6. CASE PruneList
  <2>1. ASSUME NEW e \in SUBSET Queues
        PROVE [ui EXCEPT !.pc = "retain", !.queue = None, !.empty = e] \in UiRecords
    BY <1>0 DEF UiRecords, UiPcs
  <2>2. {q \in reg : entries[q] = {}} \in SUBSET Queues
    BY DEF TypeOK
  <2>3. ui' \in UiRecords
    BY <1>0, <1>6, <2>1, <2>2 DEF PruneList
  <2>4. lock' \in Enqueuers \union {Free, Ui}
    BY <1>6 DEF PruneList, TypeOK
  <2> QED BY <1>6, <2>3, <2>4 DEF PruneList, TypeOK
<1>7. CASE Retain
  <2>1. ASSUME NEW q \in Queues PROVE [ui EXCEPT !.queue = q] \in UiRecords
    BY <1>0 DEF UiRecords
  <2>2. ui' \in UiRecords /\ reg' \in SUBSET Queues /\ lock' \in Enqueuers \union {Free, Ui}
    BY <1>0, <1>7, <2>1 DEF Retain, RetainDone, TypeOK
  <2> QED BY <1>7, <2>2 DEF Retain, TypeOK
<1>8. ASSUME NEW s \in reg, NEW d \in reg, Merge(s, d) PROVE TypeOK'
  <2>1. ASSUME NEW p \in Queues, NEW q \in Queues
        PROVE [UiIdle EXCEPT !.pc = "drain", !.op = "merge", !.queue = p, !.dst = q]
                \in UiRecords
    BY DEF UiIdle, UiRecords, UiPcs, AllCommands
  <2>2. ui' \in UiRecords
    BY <1>8, <2>1 DEF Merge, TypeOK
  <2> QED BY <1>8, <2>2 DEF Merge, TypeOK
<1>9. CASE Drain
  <2>1. ASSUME NEW js \in SUBSET Jobs
        PROVE [ui EXCEPT !.pc = "extend", !.drained = js] \in UiRecords
    BY <1>0 DEF UiRecords, UiPcs
  <2>2. entries[ui.queue] \in SUBSET Jobs
    BY <1>0, <1>9 DEF Drain, UiTargets
  <2>3. ui' \in UiRecords
    BY <1>9, <2>1, <2>2 DEF Drain
  <2>4. entries' \in [Queues -> SUBSET Jobs]
    BY <1>0, <1>9 DEF Drain
  <2> QED BY <1>9, <2>3, <2>4 DEF Drain, TypeOK
<1>10. CASE Extend
  <2>1. ui' \in UiRecords /\ ui.drained \in SUBSET Jobs
    BY <1>0, <1>10 DEF Extend, UiRecords, UiPcs
  <2>2. entries' \in [Queues -> SUBSET Jobs]
    BY <1>0, <1>10, <2>1 DEF Extend
  <2> QED BY <1>10, <2>1, <2>2 DEF Extend, TypeOK
<1>11. CASE Unregister
  BY <1>0, <1>11 DEF Unregister, UiTargets, TypeOK
<1>12. ASSUME NEW b \in BOOLEAN, SetF2Mode(b) PROVE TypeOK'
  BY <1>12 DEF SetF2Mode, TypeOK
<1> QED
  BY <1>3, <1>4, <1>5, <1>6, <1>7, <1>8, <1>9, <1>10, <1>11, <1>12 DEF UiStep, UiContinue

\* A step of a runner keeps the types.
LEMMA RunnerTypes ==
  ASSUME TypeOK, NEW j \in Jobs, RunnerStep(j)
  PROVE TypeOK'
<1> USE DEF regVars, runRest
<1>0. /\ runner \in [Jobs -> RunnerRecords]
      /\ job \in [Jobs -> [state : JobStates, started : BOOLEAN]]
  BY DEF TypeOK
<1>1. {"poll", "io", "status", "mark", "ended"} \subseteq RunnerPcs
  BY DEF RunnerPcs
<1>2. ASSUME NEW p \in RunnerPcs PROVE [runner EXCEPT ![j].pc = p] \in [Jobs -> RunnerRecords]
  BY <1>0 DEF RunnerRecords
<1>3. ASSUME NEW p \in RunnerPcs, NEW r \in {"ok", "cancelled", "failed"}
      PROVE [runner EXCEPT ![j].pc = p, ![j].result = r] \in [Jobs -> RunnerRecords]
  BY <1>0 DEF RunnerRecords
<1>4. CASE Start(j)
  <2>1. runner' \in [Jobs -> RunnerRecords]
    BY <1>1, <1>2, <1>4 DEF Start
  <2>2. job' \in [Jobs -> [state : JobStates, started : BOOLEAN]]
    BY <1>0, <1>4 DEF Start, JobStates
  <2> QED BY <1>4, <2>1, <2>2 DEF Start, TypeOK
<1>5. CASE Poll(j)
  <2>1. runner' \in [Jobs -> RunnerRecords]
    <3>1. CASE flag[j] = "CANCELLED"
      <4>1. runner' = [runner EXCEPT ![j].pc = "status", ![j].result = "cancelled"]
        BY <1>5, <3>1 DEF Poll
      <4> QED BY <1>1, <1>3, <4>1
    <3>2. CASE flag[j] = "RUNNING"
      <4>1. runner' = [runner EXCEPT ![j].pc = "io"]
        BY <1>5, <3>2 DEF Poll
      <4> QED BY <1>1, <1>2, <4>1
    <3> QED BY <1>5, <3>1, <3>2 DEF Poll
  <2> QED BY <1>5, <2>1 DEF Poll, TypeOK
<1>6. CASE MoveBuffer(j)
  <2>1. runner' \in [Jobs -> RunnerRecords]
    <3>1. CASE runner' = [runner EXCEPT ![j].pc = "poll"]
      BY <1>1, <1>2, <3>1
    <3>2. ASSUME NEW r \in {"ok", "failed"},
                 runner' = [runner EXCEPT ![j].pc = "status", ![j].result = r]
          PROVE runner' \in [Jobs -> RunnerRecords]
      BY <1>1, <1>3, <3>2
    <3> QED BY <1>6, <3>1, <3>2 DEF MoveBuffer
  <2> QED BY <1>6, <2>1 DEF MoveBuffer, TypeOK
<1>7. CASE TerminalStatus(j)
  <2>1. ASSUME NEW s \in {"none", "succeeded", "cancelled", "failed"}
        PROVE [runner EXCEPT ![j].pc = "mark", ![j].status = s] \in [Jobs -> RunnerRecords]
    BY <1>0, <1>1 DEF RunnerRecords
  <2>2. StatusOf(j) \in {"none", "succeeded", "cancelled", "failed"}
    BY <1>0 DEF StatusOf, RunnerRecords
  <2>3. runner' \in [Jobs -> RunnerRecords]
    BY <1>7, <2>1, <2>2 DEF TerminalStatus
  <2> QED BY <1>7, <2>3 DEF TerminalStatus, TypeOK
<1>8. CASE Mark(j)
  <2>1. runner' \in [Jobs -> RunnerRecords]
    BY <1>1, <1>2, <1>8 DEF Mark
  <2>2. Outcome(runner[j].status) \in JobStates
    BY DEF Outcome, JobStates
  <2>3. job' \in [Jobs -> [state : JobStates, started : BOOLEAN]]
    BY <1>0, <1>8, <2>2 DEF Mark
  <2> QED BY <1>8, <2>1, <2>3 DEF Mark, TypeOK
<1> QED BY <1>4, <1>5, <1>6, <1>7, <1>8 DEF RunnerStep

\* Handles stay valid.
LEMMA StepTargets ==
  ASSUME TypeOK, QueueIds, UiTargets, [Next]_vars
  PROVE QueueIds' /\ UiTargets'
<1> USE DEF regVars, jobVars, enqRest, uiRest, runRest
<1>0. /\ enq \in [Enqueuers -> EnqRecords] /\ ui \in UiRecords
      /\ runner \in [Jobs -> RunnerRecords] /\ nextQueue \in Nat
      /\ reg \subseteq Queues /\ Queues \subseteq Nat
  BY DEF TypeOK, Queues
<1>1. ASSUME NEW t \in Enqueuers, EnqueuerStep(t) PROVE QueueIds' /\ UiTargets'
  <2>1. UiTargets'
    BY <1>1 DEF EnqueuerStep, Route, ScanLock, Scan, FindOrSpawn, Add, GetQueue, GetJob, UiTargets
  <2>2. CASE FindOrSpawn(t)
    <3>1. /\ nextQueue' \in Nat /\ nextQueue' >= nextQueue
          /\ \A q \in reg' : q < nextQueue'
          /\ runner' = runner
      BY <1>0, <2>2 DEF FindOrSpawn, QueueIds
    <3>2. PICK q \in Queues : q < nextQueue' /\ enq' = [enq EXCEPT ![t].pc = "add", ![t].queue = q]
      BY <1>0, <2>2 DEF FindOrSpawn, QueueIds
    <3>3. ASSUME NEW u \in Enqueuers, enq'[u].pc \in {"add", "get_queue", "get_job"}
          PROVE enq'[u].queue \in Queues /\ enq'[u].queue < nextQueue'
      <4>1. CASE u = t
        BY <1>0, <3>2, <4>1 DEF EnqRecords
      <4>2. CASE u # t
        BY <1>0, <3>1, <3>2, <3>3, <4>2 DEF QueueIds
      <4> QED BY <4>1, <4>2
    <3>4. ASSUME NEW j \in Jobs, runner'[j].pc # "none"
          PROVE runner'[j].queue \in Queues /\ runner'[j].queue < nextQueue'
      <4>1. runner[j].queue \in Queues /\ runner[j].queue < nextQueue
        BY <3>1, <3>4 DEF QueueIds
      <4>2. runner[j].queue \in Nat
        BY <1>0, <4>1
      <4>3. runner[j].queue < nextQueue'
        BY <1>0, <3>1, <4>1, <4>2
      <4> QED BY <3>1, <4>1, <4>3
    <3> QED BY <2>1, <3>1, <3>3, <3>4 DEF QueueIds
  <2>3. CASE GetJob(t)
    <3>1. ASSUME NEW u \in Enqueuers, enq'[u].pc \in {"add", "get_queue", "get_job"}
          PROVE enq'[u].queue \in Queues /\ enq'[u].queue < nextQueue
      BY <1>0, <2>3, <3>1 DEF GetJob, QueueIds, EnqRecords
    <3>2. ASSUME NEW j \in Jobs, runner'[j].pc # "none"
          PROVE runner'[j].queue \in Queues /\ runner'[j].queue < nextQueue
      <4>1. enq[t].queue \in Queues /\ enq[t].queue < nextQueue
        BY <2>3 DEF GetJob, QueueIds
      <4>2. CASE runner' = runner
        BY <3>2, <4>2 DEF QueueIds
      <4>3. CASE runner' = [runner EXCEPT ![enq[t].job].pc = "start",
                                          ![enq[t].job].queue = enq[t].queue]
        <5>1. CASE j = enq[t].job
          BY <1>0, <4>1, <4>3, <5>1 DEF RunnerRecords
        <5>2. CASE j # enq[t].job
          BY <1>0, <3>2, <4>3, <5>2 DEF QueueIds
        <5> QED BY <5>1, <5>2
      <4> QED BY <2>3, <4>2, <4>3 DEF GetJob
    <3>3. reg' = reg /\ nextQueue' = nextQueue
      BY <2>3 DEF GetJob
    <3> QED BY <2>1, <3>1, <3>2, <3>3 DEF QueueIds
  <2>4. CASE Scan(t)
    <3>1. ASSUME NEW u \in Enqueuers, enq'[u].pc \in {"add", "get_queue", "get_job"}
          PROVE enq'[u].queue \in Queues /\ enq'[u].queue < nextQueue
      <4>1. CASE u = t
        BY <1>0, <2>4, <3>1, <4>1 DEF Scan, QueueIds, EnqRecords
      <4>2. CASE u # t
        BY <1>0, <2>4, <3>1, <4>2 DEF Scan, QueueIds
      <4> QED BY <4>1, <4>2
    <3> QED BY <2>1, <2>4, <3>1 DEF Scan, QueueIds
  <2>5. ASSUME NEW d \in Drives, Route(t, d) PROVE QueueIds'
    BY <1>0, <2>5 DEF Route, QueueIds, EnqRecords
  <2>6. CASE ScanLock(t) \/ Add(t) \/ GetQueue(t)
    <3>1. ASSUME NEW u \in Enqueuers, enq'[u].pc \in {"add", "get_queue", "get_job"}
          PROVE enq'[u].queue \in Queues /\ enq'[u].queue < nextQueue
      <4>1. CASE u = t
        BY <1>0, <2>6, <3>1, <4>1 DEF ScanLock, Add, GetQueue, QueueIds, EnqRecords
      <4>2. CASE u # t
        BY <1>0, <2>6, <3>1, <4>2 DEF ScanLock, Add, GetQueue, QueueIds
      <4> QED BY <4>1, <4>2
    <3>2. UNCHANGED <<reg, nextQueue, runner>>
      BY <2>6 DEF ScanLock, Add, GetQueue
    <3> QED BY <2>1, <3>1, <3>2 DEF QueueIds
  <2> QED BY <1>1, <2>1, <2>2, <2>3, <2>4, <2>5, <2>6 DEF EnqueuerStep
<1>2. CASE UiStep
  <2>1. QueueIds'
    BY <1>2 DEF UiStep, UiContinue, Command, Control, Erase, PruneList, Retain, RetainDone, Merge,
       Drain, Extend, Unregister, SetF2Mode, QueueIds
  <2>2. ASSUME NEW op \in {"pause", "resume", "cancel", "remove"}, NEW j \in Jobs, Command(op, j)
        PROVE UiTargets'
    BY <1>0, <2>2 DEF Command, UiTargets, UiIdle
  <2>3. CASE ui' = UiIdle
    BY <2>1, <2>3 DEF UiTargets, UiIdle
  <2>4. CASE Control /\ ui' # UiIdle
    <3>1. ui' = [ui EXCEPT !.pc = "erase"] /\ ui.job \in Jobs /\ ui.queue \in Queues
      BY <2>4 DEF Control, UiTargets
    <3> QED BY <1>0, <2>1, <3>1 DEF UiTargets, UiRecords
  <2>5. CASE Erase \/ (PruneList /\ ui' # UiIdle) \/ (Retain /\ ui' # UiIdle)
    <3>1. ui'.pc \in {"prune", "retain"}
      BY <1>0, <2>5 DEF Erase, PruneList, Retain, RetainDone, UiRecords
    <3> QED BY <2>1, <3>1 DEF UiTargets
  <2>6. ASSUME NEW s \in reg, NEW d \in reg, Merge(s, d) PROVE UiTargets'
    BY <1>0, <2>6 DEF Merge, UiTargets, UiIdle
  <2>7. CASE Drain \/ Extend
    <3>1. /\ ui'.pc \in {"extend", "unregister"}
          /\ ui'.queue = ui.queue /\ ui'.dst = ui.dst
      BY <1>0, <2>7 DEF Drain, Extend, UiRecords
    <3>2. ui.queue \in Queues /\ ui.dst \in Queues /\ ui.queue # ui.dst
      BY <2>7 DEF Drain, Extend, UiTargets
    <3> QED BY <2>1, <3>1, <3>2 DEF UiTargets
  <2>8. ASSUME NEW b \in BOOLEAN, SetF2Mode(b) PROVE UiTargets'
    BY <2>8 DEF SetF2Mode, UiTargets
  <2> QED BY <1>2, <2>1, <2>2, <2>3, <2>4, <2>5, <2>6, <2>7, <2>8
     DEF UiStep, UiContinue, Unregister
<1>3. ASSUME NEW j \in Jobs, RunnerStep(j) PROVE QueueIds' /\ UiTargets'
  <2>1. ASSUME NEW i \in Jobs
        PROVE runner'[i].queue = runner[i].queue /\ (runner[i].pc = "none" => runner'[i].pc = "none")
    <3>1. CASE i = j
      BY <1>0, <1>3, <3>1 DEF RunnerStep, Start, Poll, MoveBuffer, TerminalStatus, Mark,
         RunnerRecords
    <3>2. CASE i # j
      BY <1>0, <1>3, <3>2 DEF RunnerStep, Start, Poll, MoveBuffer, TerminalStatus, Mark
    <3> QED BY <3>1, <3>2
  <2>2. UNCHANGED <<reg, nextQueue, enq, ui>>
    BY <1>3 DEF RunnerStep, Start, Poll, MoveBuffer, TerminalStatus, Mark
  <2> QED BY <2>1, <2>2 DEF QueueIds, UiTargets
<1>4. CASE UNCHANGED vars
  BY <1>4 DEF vars, QueueIds, UiTargets
<1> QED BY <1>1, <1>2, <1>3, <1>4 DEF Next, Quiet

TypesInv == TypeOK /\ QueueIds /\ UiTargets

LEMMA StepTypes == TypesInv /\ [Next]_vars => TypesInv'
<1> SUFFICES ASSUME TypesInv, [Next]_vars PROVE TypeOK'
  BY StepTargets DEF TypesInv
<1>1. CASE UNCHANGED vars
  BY <1>1 DEF vars, TypesInv, TypeOK
<1> QED
  BY <1>1, EnqueuerTypes, UiTypes, RunnerTypes DEF Next, Quiet, TypesInv

LEMMA TypesAlways == Spec => []TypesInv
<1>1. Init => TypesInv
  BY InitTypes DEF TypesInv
<1> QED BY <1>1, StepTypes, PTL DEF Spec

\* The variables keep their types.
THEOREM TypeCorrect == Spec => []TypeOK
<1>1. TypesInv => TypeOK
  BY DEF TypesInv
<1> QED BY <1>1, TypesAlways, PTL

-----------------------------------------------------------------------------
(* Who holds a job's record.                                               *)

\* Job ids in any queue, in the hands of a merge or removed have been minted.
Minted ==
  /\ \A q \in Queues : \A j \in entries[q] : j < nextJob
  /\ \A j \in ui.drained : j < nextJob
  /\ \A j \in removed : j < nextJob

\* The main thread carries records only between Drain and Extend, and between
\* the two halves of a command it finds the job where it was.
UiHolds ==
  /\ ui.pc # "extend" => ui.drained = {}
  /\ ui.pc \in {"control", "erase"} => ui.job \in entries[ui.queue]

\* What the user removed is in no queue.
RemovedIsGone ==
  \A j \in removed : j \notin ui.drained /\ \A q \in Queues : j \notin entries[q]

\* Every minted id that was not removed is in some queue, listed or not, or in
\* the hands of a merge.
Somewhere ==
  \A j \in Jobs :
    j < nextJob /\ j \notin removed =>
      j \in ui.drained \/ \E q \in Queues : j \in entries[q]

CustodyInv == Minted /\ UiHolds /\ RemovedIsGone /\ NoJobDuplicated /\ Somewhere

LEMMA InitCustody == Init => CustodyInv
  BY BoundsAssumption
  DEF Init, CustodyInv, Minted, UiHolds, RemovedIsGone, NoJobDuplicated, Somewhere, UiIdle, Jobs

LEMMA StepCustody == TypesInv /\ CustodyInv /\ [Next]_vars => CustodyInv'
<1> SUFFICES ASSUME TypesInv, CustodyInv, [Next]_vars PROVE CustodyInv'
  OBVIOUS
<1> USE DEF regVars, jobVars, enqRest, uiRest, runRest
<1>0. /\ entries \in [Queues -> SUBSET Jobs]
      /\ ui \in UiRecords
      /\ nextJob \in Nat /\ Jobs \subseteq Nat /\ Queues \subseteq Nat
      /\ removed \subseteq Jobs
  BY DEF TypesInv, TypeOK, Jobs, Queues
<1>1. CASE UNCHANGED <<entries, nextJob, removed, ui>>
  BY <1>1 DEF CustodyInv, Minted, UiHolds, RemovedIsGone, NoJobDuplicated, Somewhere
<1>2. ASSUME NEW t \in Enqueuers, Add(t) PROVE CustodyInv'
  <2> DEFINE p == enq[t].queue
  <2>1. /\ p \in Queues /\ nextJob \in Jobs
        /\ entries' = [entries EXCEPT ![p] = @ \union {nextJob}]
        /\ nextJob' = nextJob + 1 /\ UNCHANGED <<removed, ui>>
    BY <1>2 DEF Add, TypesInv, QueueIds
  <2> HIDE DEF p
  <2>2. /\ \A q \in Queues : nextJob \notin entries[q]
        /\ nextJob \notin ui.drained /\ nextJob \notin removed
    BY <1>0 DEF CustodyInv, Minted
  <2>3. \A q \in Queues : entries'[q] = IF q = p THEN entries[q] \union {nextJob} ELSE entries[q]
    BY <1>0, <2>1
  <2>4. ui.drained \subseteq Jobs
    BY <1>0 DEF UiRecords
  <2>5. Minted'
    <3>1. \A q \in Queues : \A j \in entries'[q] : j < nextJob'
      BY <1>0, <2>1, <2>3 DEF CustodyInv, Minted
    <3>2. \A j \in ui.drained \union removed : j < nextJob + 1
      <4> TAKE j \in ui.drained \union removed
      <4>1. j \in Nat /\ j < nextJob
        BY <1>0, <2>4 DEF CustodyInv, Minted
      <4> QED BY <1>0, <4>1
    <3> QED BY <2>1, <3>1, <3>2 DEF Minted
  <2>6. UiHolds'
    BY <1>0, <2>1, <2>3 DEF CustodyInv, UiHolds, TypesInv, UiTargets
  <2>7. RemovedIsGone'
    BY <2>1, <2>2, <2>3 DEF CustodyInv, RemovedIsGone
  <2>8. NoJobDuplicated'
    BY <2>1, <2>2, <2>3 DEF CustodyInv, NoJobDuplicated
  <2>9. Somewhere'
    <3> SUFFICES ASSUME NEW j \in Jobs, j < nextJob', j \notin removed'
                 PROVE j \in ui'.drained \/ \E q \in Queues : j \in entries'[q]
      BY DEF Somewhere
    <3>1. CASE j = nextJob
      BY <2>1, <2>3, <3>1
    <3>2. CASE j # nextJob
      <4>1. j < nextJob
        BY <1>0, <2>1, <3>2
      <4> QED BY <2>1, <2>3, <4>1 DEF CustodyInv, Somewhere
    <3> QED BY <3>1, <3>2
  <2> QED BY <2>5, <2>6, <2>7, <2>8, <2>9 DEF CustodyInv
<1>3. CASE Erase
  <2> DEFINE p == ui.queue
             i == ui.job
  <2>1. /\ p \in Queues /\ i \in Jobs /\ i \in entries[p] /\ ui.drained = {}
        /\ entries' = [entries EXCEPT ![p] = @ \ {i}]
        /\ removed' = removed \union {i} /\ nextJob' = nextJob
        /\ ui'.pc = "prune" /\ ui'.drained = ui.drained
    BY <1>0, <1>3 DEF Erase, TypesInv, UiTargets, CustodyInv, UiHolds, UiRecords
  <2> HIDE DEF p, i
  <2>2. \A q \in Queues : entries'[q] = IF q = p THEN entries[q] \ {i} ELSE entries[q]
    BY <1>0, <2>1
  <2>3. \A q \in Queues : i \notin entries'[q]
    BY <2>1, <2>2 DEF CustodyInv, NoJobDuplicated
  <2>4. Minted' /\ UiHolds'
    BY <2>1, <2>2 DEF CustodyInv, Minted, UiHolds
  <2>5. RemovedIsGone'
    BY <2>1, <2>2, <2>3 DEF CustodyInv, RemovedIsGone
  <2>6. NoJobDuplicated' /\ Somewhere'
    BY <2>1, <2>2 DEF CustodyInv, NoJobDuplicated, Somewhere
  <2> QED BY <2>4, <2>5, <2>6 DEF CustodyInv
<1>4. CASE Drain
  <2> DEFINE p == ui.queue
  <2>1. /\ p \in Queues /\ ui.drained = {}
        /\ entries' = [entries EXCEPT ![p] = {}]
        /\ UNCHANGED <<removed, nextJob>>
        /\ ui'.pc = "extend" /\ ui'.drained = entries[p]
    BY <1>0, <1>4 DEF Drain, TypesInv, UiTargets, CustodyInv, UiHolds, UiRecords
  <2> HIDE DEF p
  <2>2. \A q \in Queues : entries'[q] = IF q = p THEN {} ELSE entries[q]
    BY <1>0, <2>1
  <2>3. Minted' /\ UiHolds'
    BY <2>1, <2>2 DEF CustodyInv, Minted, UiHolds
  <2>4. RemovedIsGone'
    BY <2>1, <2>2 DEF CustodyInv, RemovedIsGone
  <2>5. NoJobDuplicated' /\ Somewhere'
    BY <2>1, <2>2 DEF CustodyInv, NoJobDuplicated, Somewhere
  <2> QED BY <2>3, <2>4, <2>5 DEF CustodyInv
<1>5. CASE Extend
  <2> DEFINE p == ui.dst
  <2>1. /\ p \in Queues
        /\ entries' = [entries EXCEPT ![p] = @ \union ui.drained]
        /\ UNCHANGED <<removed, nextJob>>
        /\ ui'.pc = "unregister" /\ ui'.drained = {}
    BY <1>0, <1>5 DEF Extend, TypesInv, UiTargets, UiRecords
  <2> HIDE DEF p
  <2>2. \A q \in Queues : entries'[q] = IF q = p THEN entries[q] \union ui.drained ELSE entries[q]
    BY <1>0, <2>1
  <2>3. Minted' /\ UiHolds'
    BY <2>1, <2>2 DEF CustodyInv, Minted, UiHolds
  <2>4. RemovedIsGone'
    BY <2>1, <2>2 DEF CustodyInv, RemovedIsGone
  <2>5. NoJobDuplicated' /\ Somewhere'
    BY <2>1, <2>2 DEF CustodyInv, NoJobDuplicated, Somewhere
  <2> QED BY <2>3, <2>4, <2>5 DEF CustodyInv
<1>6. ASSUME UNCHANGED <<entries, nextJob, removed>>, ui.pc # "extend", ui'.pc # "extend",
             ui'.drained = {}, 
             ui'.pc \in {"control", "erase"} => ui'.job \in entries[ui'.queue]
      PROVE CustodyInv'
  BY <1>6 DEF CustodyInv, Minted, UiHolds, RemovedIsGone, NoJobDuplicated, Somewhere
<1>7. ASSUME NEW op \in {"pause", "resume", "cancel", "remove"}, NEW j \in Jobs, Command(op, j)
      PROVE CustodyInv'
  <2>1. /\ ui.pc = "idle" /\ ui'.pc \in {"control", "erase", "idle"} /\ ui'.drained = {}
        /\ ui'.job \in entries[ui'.queue] /\ UNCHANGED <<entries, nextJob, removed>>
    BY <1>7 DEF Command, UiIdle
  <2> QED BY <1>6, <2>1
<1>8. CASE Control
  <2>1. /\ ui.drained = {} /\ ui.job \in entries[ui.queue]
        /\ UNCHANGED <<entries, nextJob, removed>>
    BY <1>8 DEF Control, CustodyInv, UiHolds
  <2>2. CASE ui' = UiIdle
    BY <1>6, <1>8, <2>1, <2>2 DEF Control, UiIdle
  <2>3. CASE ui' = [ui EXCEPT !.pc = "erase"]
    BY <1>0, <1>6, <1>8, <2>1, <2>3 DEF Control, UiRecords
  <2> QED BY <1>8, <2>2, <2>3 DEF Control
<1>9. CASE PruneList
  <2>1. /\ ui.drained = {} /\ ui.pc = "prune" /\ UNCHANGED <<entries, nextJob, removed>>
    BY <1>9 DEF PruneList, CustodyInv, UiHolds
  <2>2. ui'.pc \in {"idle", "retain"} /\ ui'.drained = {}
    <3>1. CASE ui' = UiIdle
      BY <3>1 DEF UiIdle
    <3>2. ASSUME NEW e, ui' = [ui EXCEPT !.pc = "retain", !.queue = None, !.empty = e]
          PROVE ui'.pc \in {"idle", "retain"} /\ ui'.drained = {}
      BY <1>0, <2>1, <3>2 DEF UiRecords
    <3> QED BY <1>9, <3>1, <3>2 DEF PruneList
  <2> QED BY <1>6, <2>1, <2>2
<1>10. CASE Retain \/ Unregister
  <2>1. /\ ui.pc \in {"retain", "unregister"} /\ UNCHANGED <<entries, nextJob, removed>>
        /\ ui.drained = {}
    BY <1>10 DEF Retain, Unregister, CustodyInv, UiHolds
  <2>2. ui'.pc \in {"idle", "retain"} /\ ui'.drained = {}
    BY <1>0, <1>10, <2>1 DEF Retain, RetainDone, Unregister, UiIdle, UiRecords
  <2> QED BY <1>6, <2>1, <2>2
<1>11. ASSUME NEW s \in reg, NEW d \in reg, Merge(s, d) PROVE CustodyInv'
  <2>1. /\ ui.pc = "idle" /\ ui'.pc = "drain" /\ ui'.drained = {}
        /\ UNCHANGED <<entries, nextJob, removed>>
    BY <1>11 DEF Merge, UiIdle
  <2> QED BY <1>6, <2>1
<1>12. ASSUME NEW t \in Enqueuers, EnqueuerStep(t), ~Add(t) PROVE CustodyInv'
  BY <1>1, <1>12 DEF EnqueuerStep, Route, ScanLock, Scan, FindOrSpawn, GetQueue, GetJob
<1>13. ASSUME NEW j \in Jobs, RunnerStep(j) PROVE CustodyInv'
  BY <1>1, <1>13 DEF RunnerStep, Start, Poll, MoveBuffer, TerminalStatus, Mark
<1>14. ASSUME NEW b \in BOOLEAN, SetF2Mode(b) PROVE CustodyInv'
  BY <1>1, <1>14 DEF SetF2Mode
<1>15. CASE UNCHANGED vars
  BY <1>1, <1>15 DEF vars
<1> QED
  BY <1>2, <1>3, <1>4, <1>5, <1>7, <1>8, <1>9, <1>10, <1>11, <1>12, <1>13, <1>14, <1>15
  DEF Next, Quiet, UiStep, UiContinue

LEMMA CustodyAlways == Spec => []CustodyInv
  BY InitCustody, StepCustody, TypesAlways, PTL DEF Spec

\* A job's record is never in two places.
THEOREM JobsAreNotDuplicated == Spec => []NoJobDuplicated
<1>1. CustodyInv => NoJobDuplicated
  BY DEF CustodyInv
<1> QED BY <1>1, CustodyAlways, PTL

\* A queue no command finds holds late jobs only: the ones outside the registry,
\* and the one a merge has emptied and is about to take out.
UnlistedIsLate ==
  /\ \A q \in Queues \ reg : entries[q] \subseteq late
  /\ ui.pc \in {"extend", "unregister"} => entries[ui.queue] \subseteq late
  /\ ui.pc \in {"drain", "extend", "unregister"} => ui.dst \in reg

LEMMA StepUnlisted == TypesInv /\ UnlistedIsLate /\ [Next]_vars => UnlistedIsLate'
<1> SUFFICES ASSUME TypesInv, UnlistedIsLate, [Next]_vars PROVE UnlistedIsLate'
  OBVIOUS
<1> USE DEF regVars, jobVars, enqRest, uiRest, runRest
<1>0. /\ entries \in [Queues -> SUBSET Jobs] /\ ui \in UiRecords /\ reg \subseteq Queues
  BY DEF TypesInv, TypeOK
<1>1. CASE UNCHANGED <<reg, entries, late, ui>>
  BY <1>1 DEF UnlistedIsLate
<1>2. ASSUME NEW t \in Enqueuers, FindOrSpawn(t) PROVE UnlistedIsLate'
  <2>1. reg \subseteq reg' /\ UNCHANGED <<entries, late, ui>>
    BY <1>2 DEF FindOrSpawn
  <2> QED BY <2>1 DEF UnlistedIsLate
<1>3. ASSUME NEW t \in Enqueuers, Add(t) PROVE UnlistedIsLate'
  <2> DEFINE p == enq[t].queue
  <2>1. /\ p \in Queues /\ UNCHANGED <<reg, ui>>
        /\ entries' = [entries EXCEPT ![p] = @ \union {nextJob}]
        /\ late' = IF p \in reg /\ ~Drained(p) THEN late ELSE late \union {nextJob}
    BY <1>3 DEF Add, TypesInv, QueueIds
  <2> HIDE DEF p
  <2>2. /\ \A q \in Queues : entries'[q] = IF q = p THEN entries[q] \union {nextJob} ELSE entries[q]
        /\ late \subseteq late'
    BY <1>0, <2>1
  <2>3. \A q \in Queues \ reg : entries'[q] \subseteq late'
    BY <2>1, <2>2 DEF UnlistedIsLate
  <2>4. ASSUME ui.pc \in {"extend", "unregister"} PROVE entries'[ui.queue] \subseteq late'
    <3>1. ui.queue \in Queues /\ entries[ui.queue] \subseteq late
      BY <2>4 DEF TypesInv, UiTargets, UnlistedIsLate
    <3>2. CASE ui.queue = p
      BY <2>1, <2>2, <2>4, <3>1, <3>2 DEF Drained
    <3>3. CASE ui.queue # p
      BY <2>2, <3>1, <3>3
    <3> QED BY <3>2, <3>3
  <2> QED BY <2>1, <2>3, <2>4 DEF UnlistedIsLate
<1>4. CASE Erase
  <2>1. /\ UNCHANGED <<reg, late>> /\ ui'.pc = "prune"
        /\ \A q \in Queues : entries'[q] \subseteq entries[q]
    BY <1>0, <1>4 DEF Erase, UiRecords
  <2> QED BY <2>1 DEF UnlistedIsLate
<1>5. CASE Drain
  <2>1. /\ UNCHANGED <<reg, late>> /\ ui'.queue = ui.queue /\ ui'.dst = ui.dst
        /\ ui.queue \in Queues /\ ui.dst \in reg
        /\ \A q \in Queues : entries'[q] \subseteq entries[q]
        /\ entries'[ui.queue] = {}
    BY <1>0, <1>5 DEF Drain, UiRecords, TypesInv, UiTargets, UnlistedIsLate
  <2> QED BY <2>1 DEF UnlistedIsLate
<1>6. CASE Extend
  <2>1. /\ UNCHANGED <<reg, late>> /\ ui'.queue = ui.queue /\ ui'.dst = ui.dst
        /\ ui.queue \in Queues /\ ui.queue # ui.dst /\ ui.dst \in reg
        /\ entries[ui.queue] \subseteq late
        /\ \A q \in Queues \ {ui.dst} : entries'[q] = entries[q]
    BY <1>0, <1>6 DEF Extend, UiRecords, TypesInv, UiTargets, UnlistedIsLate
  <2> QED BY <2>1 DEF UnlistedIsLate
<1>7. CASE Unregister
  <2>1. /\ UNCHANGED <<entries, late>> /\ reg' = reg \ {ui.queue}
        /\ ui'.pc = "idle" /\ entries[ui.queue] \subseteq late
    BY <1>7 DEF Unregister, UiIdle, UnlistedIsLate
  <2> QED BY <2>1 DEF UnlistedIsLate
<1>8. CASE Retain
  <2>1. /\ UNCHANGED <<entries, late>> /\ ui'.pc \in {"idle", "retain"}
        /\ \A q \in reg \ reg' : entries[q] = {}
    BY <1>0, <1>8 DEF Retain, RetainDone, UiIdle, UiRecords
  <2> QED BY <2>1 DEF UnlistedIsLate
<1>9. ASSUME NEW s \in reg, NEW d \in reg, Merge(s, d) PROVE UnlistedIsLate'
  BY <1>9 DEF Merge, UiIdle, UnlistedIsLate
<1>10. ASSUME NEW op \in {"pause", "resume", "cancel", "remove"}, NEW j \in Jobs, Command(op, j)
       PROVE UnlistedIsLate'
  BY <1>10 DEF Command, UiIdle, UnlistedIsLate
<1>11. CASE Control \/ PruneList
  <2>1. UNCHANGED <<reg, entries, late>>
    BY <1>11 DEF Control, PruneList
  <2>2. CASE ui' = UiIdle
    BY <2>1, <2>2 DEF UnlistedIsLate, UiIdle
  <2>3. ASSUME NEW e, ui' = [ui EXCEPT !.pc = "retain", !.queue = None, !.empty = e]
        PROVE UnlistedIsLate'
    BY <1>0, <2>1, <2>3 DEF UnlistedIsLate, UiRecords
  <2>4. CASE ui' = [ui EXCEPT !.pc = "erase"]
    BY <1>0, <2>1, <2>4 DEF UnlistedIsLate, UiRecords
  <2> QED BY <1>11, <2>2, <2>3, <2>4 DEF Control, PruneList
<1>12. ASSUME NEW t \in Enqueuers, EnqueuerStep(t), ~Add(t), ~FindOrSpawn(t) PROVE UnlistedIsLate'
  BY <1>1, <1>12 DEF EnqueuerStep, Route, ScanLock, Scan, GetQueue, GetJob
<1>13. ASSUME NEW j \in Jobs, RunnerStep(j) PROVE UnlistedIsLate'
  BY <1>1, <1>13 DEF RunnerStep, Start, Poll, MoveBuffer, TerminalStatus, Mark
<1>14. ASSUME NEW b \in BOOLEAN, SetF2Mode(b) PROVE UnlistedIsLate'
  BY <1>1, <1>14 DEF SetF2Mode
<1>15. CASE UNCHANGED vars
  BY <1>1, <1>15 DEF vars
<1> QED
  BY <1>2, <1>3, <1>4, <1>5, <1>6, <1>7, <1>8, <1>9, <1>10, <1>11, <1>12, <1>13, <1>14, <1>15
  DEF Next, Quiet, UiStep, UiContinue

\* No interleaving of routes, merges, removals and prunes takes a job's record out
\* of the registry, except the record of a job that was added to a queue already
\* drained or dropped.
THEOREM JobsAreNotLost == Spec => []NoJobLost
<1>1. Init => UnlistedIsLate
  BY DEF Init, UnlistedIsLate, UiIdle
<1>2. CustodyInv /\ UnlistedIsLate => NoJobLost
  BY DEF CustodyInv, Somewhere, UnlistedIsLate, NoJobLost
<1> QED BY <1>1, <1>2, StepUnlisted, TypesAlways, CustodyAlways, PTL DEF Spec

-----------------------------------------------------------------------------
(* The registry.                                                           *)

LEMMA StepDrives == TypesInv /\ OneQueuePerDrive /\ [Next]_vars => OneQueuePerDrive'
<1> SUFFICES ASSUME TypesInv, OneQueuePerDrive, [Next]_vars PROVE OneQueuePerDrive'
  OBVIOUS
<1> USE DEF regVars, jobVars, enqRest, uiRest, runRest
<1>1. CASE reg' \subseteq reg /\ driveOf' = driveOf
  BY <1>1 DEF OneQueuePerDrive
<1>2. ASSUME NEW t \in Enqueuers, FindOrSpawn(t) PROVE OneQueuePerDrive'
  <2>1. CASE UNCHANGED regVars
    BY <1>1, <2>1
  <2>2. CASE /\ \A q \in reg : driveOf[q] # enq[t].drive
             /\ nextQueue \in Queues
             /\ reg' = reg \union {nextQueue}
             /\ driveOf' = [driveOf EXCEPT ![nextQueue] = enq[t].drive]
    <3>1. driveOf \in [Queues -> Drives] /\ reg \subseteq Queues
      BY DEF TypesInv, TypeOK
    <3>2. nextQueue \notin reg
      BY DEF TypesInv, QueueIds, TypeOK
    <3>3. driveOf'[nextQueue] = enq[t].drive /\ \A q \in reg : driveOf'[q] = driveOf[q]
      BY <2>2, <3>1, <3>2
    <3> QED BY <2>2, <3>3 DEF OneQueuePerDrive
  <2> QED BY <1>2, <2>1, <2>2 DEF FindOrSpawn
<1>3. ASSUME NEW t \in Enqueuers, EnqueuerStep(t), ~FindOrSpawn(t) PROVE OneQueuePerDrive'
  BY <1>1, <1>3 DEF EnqueuerStep, Route, ScanLock, Scan, Add, GetQueue, GetJob
<1>4. CASE UiStep
  <2>1. reg' \subseteq reg /\ driveOf' = driveOf
    BY <1>4 DEF UiStep, UiContinue, Command, Control, Erase, PruneList, Retain, RetainDone, Merge,
       Drain, Extend, Unregister, SetF2Mode
  <2> QED BY <1>1, <2>1
<1>5. ASSUME NEW j \in Jobs, RunnerStep(j) PROVE OneQueuePerDrive'
  BY <1>1, <1>5 DEF RunnerStep, Start, Poll, MoveBuffer, TerminalStatus, Mark
<1>6. CASE UNCHANGED vars
  BY <1>1, <1>6 DEF vars
<1> QED BY <1>2, <1>3, <1>4, <1>5, <1>6 DEF Next, Quiet

\* Racing routes never give a drive two queues.
THEOREM DrivesHaveOneQueue == Spec => []OneQueuePerDrive
<1>1. Init => OneQueuePerDrive
  BY DEF Init, OneQueuePerDrive
<1> QED BY <1>1, StepDrives, TypesAlways, PTL DEF Spec

-----------------------------------------------------------------------------
(* Cancelling.                                                             *)

\* The record of a cancelled job changes before its control does: in between
\* the main thread is about to cancel the control, and nothing else.
CancelPending ==
  \A j \in Jobs :
    job[j].state = "Cancelled" =>
      \/ flag[j] = "CANCELLED"
      \/ ui.pc = "control" /\ ui.job = j /\ ui.op \in {"cancel", "remove"}

LEMMA StepCancel == TypesInv /\ CancelPending /\ [Next]_vars => CancelPending'
<1> SUFFICES ASSUME TypesInv, CancelPending, [Next]_vars PROVE CancelPending'
  OBVIOUS
<1> USE DEF regVars, jobVars, enqRest, uiRest, runRest
<1>0. /\ job \in [Jobs -> [state : JobStates, started : BOOLEAN]]
      /\ flag \in [Jobs -> Flags] /\ ui \in UiRecords
  BY DEF TypesInv, TypeOK
<1>1. CASE UNCHANGED <<job, flag>> /\ (ui.pc # "control" \/ ui' = ui)
  BY <1>1 DEF CancelPending
<1>2. ASSUME NEW op \in {"pause", "resume", "cancel", "remove"}, NEW j \in Jobs, Command(op, j)
      PROVE CancelPending'
  <2>1. \A i \in Jobs : job[i].state = "Cancelled" => flag[i] = "CANCELLED"
    BY <1>2 DEF Command, CancelPending
  <2>2. /\ flag' = flag
        /\ \A i \in Jobs \ {j} : job'[i] = job[i]
        /\ job'[j].state = NewState(op, job[j])
    BY <1>0, <1>2 DEF Command
  <2>3. CASE NewState(op, job[j]) = job[j].state
    BY <2>1, <2>2, <2>3 DEF CancelPending
  <2>4. CASE NewState(op, job[j]) # job[j].state
    <3>1. ui'.pc = "control" /\ ui'.job = j /\ ui'.op = op
      BY <1>2, <2>4 DEF Command, UiIdle
    <3>2. NewState(op, job[j]) = "Cancelled" => op \in {"cancel", "remove"}
      BY <2>4 DEF NewState
    <3> QED BY <2>1, <2>2, <3>1, <3>2 DEF CancelPending
  <2> QED BY <2>3, <2>4
<1>3. CASE Control
  <2>1. job' = job
    BY <1>3 DEF Control
  <2>2. \A i \in Jobs : flag[i] = "CANCELLED" => flag'[i] = "CANCELLED"
    BY <1>0, <1>3 DEF Control
  <2>3. ui.job \in Jobs /\ ui.op \in {"cancel", "remove"} => flag'[ui.job] = "CANCELLED"
    BY <1>0, <1>3 DEF Control
  <2> QED BY <2>1, <2>2, <2>3 DEF CancelPending
<1>4. ASSUME UiStep, ~Control,
             \A op \in {"pause", "resume", "cancel", "remove"}, j \in Jobs : ~Command(op, j)
      PROVE CancelPending'
  BY <1>1, <1>4 DEF UiStep, UiContinue, Erase, PruneList, Retain, RetainDone, Merge, Drain, Extend,
     Unregister, SetF2Mode
<1>5. ASSUME NEW j \in Jobs, RunnerStep(j) PROVE CancelPending'
  <2>1. UNCHANGED <<flag, ui>>
    BY <1>5 DEF RunnerStep, Start, Poll, MoveBuffer, TerminalStatus, Mark
  <2>2. \A i \in Jobs : job'[i].state = "Cancelled" => job[i].state = "Cancelled"
    BY <1>0, <1>5 DEF RunnerStep, Start, Poll, MoveBuffer, TerminalStatus, Mark, Outcome
  <2> QED BY <2>1, <2>2 DEF CancelPending
<1>6. ASSUME NEW t \in Enqueuers, EnqueuerStep(t) PROVE CancelPending'
  BY <1>1, <1>6 DEF EnqueuerStep, Route, ScanLock, Scan, FindOrSpawn, Add, GetQueue, GetJob
<1>7. CASE UNCHANGED vars
  BY <1>1, <1>7 DEF vars
<1> QED BY <1>2, <1>3, <1>4, <1>5, <1>6, <1>7 DEF Next, Quiet, UiStep

\* A job shown as cancelled has its engine told, or about to be.
THEOREM CancelIsDelivered == Spec => []CancelReachesControl
<1>1. Init => CancelPending
  BY DEF Init, CancelPending
<1>2. CancelPending => CancelReachesControl
  BY DEF CancelPending, CancelReachesControl
<1> QED BY <1>1, <1>2, StepCancel, TypesAlways, PTL DEF Spec

-----------------------------------------------------------------------------
(* The outcome of a job.                                                   *)

\* An enqueuer that has added a job is the only one to spawn its runner.
SpawnOnce ==
  /\ \A t \in Enqueuers :
       enq[t].pc \in {"get_queue", "get_job"} =>
         enq[t].job \in Jobs /\ enq[t].job < nextJob /\ runner[enq[t].job].pc = "none"
  /\ \A t, u \in Enqueuers :
       /\ enq[t].pc \in {"get_queue", "get_job"}
       /\ enq[u].pc \in {"get_queue", "get_job"}
       /\ enq[t].job = enq[u].job
       => t = u
  /\ \A j \in Jobs : j >= nextJob => runner[j].pc = "none"

\* A record that is no longer in the queue its runner knows does not come
\* back: it was removed, or the queue was merged away.
NoReturn ==
  /\ \A j \in Jobs :
       runner[j].pc # "none" /\ ~Held(j) =>
         \/ runner[j].queue \notin reg
         \/ j \in removed
         \/ ui.pc \in {"extend", "unregister"} /\ ui.queue = runner[j].queue
  /\ ui.pc \in {"drain", "extend"} => ui.dst \in reg

\* Until its runner ends, a job whose control is cancelled is shown as
\* Cancelled.
CancelShown ==
  /\ \A j \in Jobs :
       flag[j] = "CANCELLED" => job[j].state = "Cancelled" \/ runner[j].pc = "ended"
  /\ ui.pc = "control" /\ ui.op \in {"cancel", "remove"} =>
       job[ui.job].state = "Cancelled" \/ runner[ui.job].pc = "ended"

\* What the runner knows about the result and the status it has settled on.
RunnerKnows ==
  \A j \in Jobs :
    /\ runner[j].pc = "status" => runner[j].result \in {"ok", "cancelled", "failed"}
    /\ runner[j].pc = "status" /\ runner[j].result = "cancelled" => flag[j] = "CANCELLED"
    /\ runner[j].pc \in {"mark", "ended"} =>
         runner[j].status \in {"succeeded", "cancelled", "failed"}
    /\ runner[j].pc = "mark" /\ runner[j].status = "cancelled" => job[j].state = "Cancelled"

OutcomeInv == SpawnOnce /\ NoReturn /\ CancelShown /\ RunnerKnows /\ TerminalRecordsAgree

LEMMA InitOutcome == Init => OutcomeInv
  BY DEF Init, OutcomeInv, SpawnOnce, NoReturn, CancelShown, RunnerKnows,
     TerminalRecordsAgree, UiIdle

LEMMA StepSpawn == TypesInv /\ SpawnOnce /\ [Next]_vars => SpawnOnce'
<1> SUFFICES ASSUME TypesInv, SpawnOnce, [Next]_vars PROVE SpawnOnce'
  OBVIOUS
<1> USE DEF regVars, jobVars, enqRest, uiRest, runRest
<1>0. /\ enq \in [Enqueuers -> EnqRecords] /\ runner \in [Jobs -> RunnerRecords]
      /\ nextJob \in Nat /\ Jobs \subseteq Nat
  BY DEF TypesInv, TypeOK, Jobs
<1>1. ASSUME NEW t \in Enqueuers, EnqueuerStep(t), ~Add(t), ~GetJob(t) PROVE SpawnOnce'
  <2>1. UNCHANGED <<nextJob, runner>>
    BY <1>1 DEF EnqueuerStep, Route, ScanLock, Scan, FindOrSpawn, GetQueue
  <2>2. \A u \in Enqueuers \ {t} : enq'[u] = enq[u]
    BY <1>0, <1>1 DEF EnqueuerStep, Route, ScanLock, Scan, FindOrSpawn, GetQueue
  <2>3. enq'[t].pc \in {"get_queue", "get_job"} =>
          enq[t].pc = "get_queue" /\ enq'[t].job = enq[t].job
    <3>1. CASE GetQueue(t)
      BY <1>0, <3>1 DEF GetQueue, EnqRecords
    <3>2. CASE ScanLock(t)
      BY <1>0, <3>2 DEF ScanLock, EnqRecords
    <3>3. CASE Scan(t)
      BY <1>0, <3>3 DEF Scan, EnqRecords
    <3>4. CASE FindOrSpawn(t)
      BY <1>0, <3>4 DEF FindOrSpawn, EnqRecords
    <3>5. ASSUME NEW d \in Drives, Route(t, d) PROVE enq'[t].pc \in {"f2", "spawn"}
      BY <1>0, <3>5 DEF Route
    <3> QED BY <1>1, <3>1, <3>2, <3>3, <3>4, <3>5 DEF EnqueuerStep
  <2> QED BY <2>1, <2>2, <2>3 DEF SpawnOnce
<1>2. ASSUME NEW t \in Enqueuers, Add(t) PROVE SpawnOnce'
  <2>1. /\ nextJob \in Jobs /\ nextJob' = nextJob + 1 /\ runner' = runner
        /\ \A u \in Enqueuers \ {t} : enq'[u] = enq[u]
        /\ enq'[t].pc = "get_queue" /\ enq'[t].job = nextJob
    BY <1>0, <1>2 DEF Add, EnqRecords
  <2>2. runner[nextJob].pc = "none"
    BY <1>0, <2>1 DEF SpawnOnce
  <2>3. ASSUME NEW u \in Enqueuers \ {t}, enq'[u].pc \in {"get_queue", "get_job"}
        PROVE /\ enq'[u].job \in Jobs /\ enq'[u].job < nextJob
              /\ runner[enq'[u].job].pc = "none"
    BY <2>1, <2>3 DEF SpawnOnce
  <2>4. \A j \in Jobs : j < nextJob => j < nextJob'
    BY <1>0, <2>1
  <2>5. \A j \in Jobs : j >= nextJob' => j >= nextJob
    BY <1>0, <2>1
  <2>6. nextJob < nextJob' /\ ~(nextJob < nextJob)
    BY <1>0, <2>1
  <2>7. \A u \in Enqueuers : enq'[u].pc \in {"get_queue", "get_job"} =>
          /\ enq'[u].job \in Jobs /\ enq'[u].job < nextJob' /\ runner'[enq'[u].job].pc = "none"
    BY <2>1, <2>2, <2>3, <2>4, <2>6
  <2>8. \A u, v \in Enqueuers :
          /\ enq'[u].pc \in {"get_queue", "get_job"}
          /\ enq'[v].pc \in {"get_queue", "get_job"}
          /\ enq'[u].job = enq'[v].job
          => u = v
    BY <2>1, <2>3, <2>6 DEF SpawnOnce
  <2> QED BY <2>1, <2>5, <2>7, <2>8 DEF SpawnOnce
<1>3. ASSUME NEW t \in Enqueuers, GetJob(t) PROVE SpawnOnce'
  <2> DEFINE i == enq[t].job
  <2>1. i \in Jobs /\ i < nextJob /\ nextJob' = nextJob
    BY <1>3 DEF GetJob, SpawnOnce
  <2>2. /\ \A u \in Enqueuers \ {t} : enq'[u] = enq[u]
        /\ enq'[t].pc \in {"idle", "panicked"}
    BY <1>0, <1>3 DEF GetJob, EnqRecords
  <2>3. \A j \in Jobs \ {i} : runner'[j] = runner[j]
    BY <1>0, <1>3 DEF GetJob
  <2>4. \A u \in Enqueuers \ {t} : enq[u].pc \in {"get_queue", "get_job"} => enq[u].job # i
    BY <1>3 DEF GetJob, SpawnOnce
  <2>5. ~(i >= nextJob)
    <3>1. i \in Nat /\ i < nextJob
      BY <1>0, <2>1
    <3> QED BY <1>0, <3>1
  <2> HIDE DEF i
  <2> QED BY <2>1, <2>2, <2>3, <2>4, <2>5 DEF SpawnOnce
<1>4. CASE UiStep
  <2>1. UNCHANGED <<enq, runner, nextJob>>
    BY <1>4 DEF UiStep, UiContinue, Command, Control, Erase, PruneList, Retain, RetainDone, Merge,
       Drain, Extend, Unregister, SetF2Mode
  <2> QED BY <2>1 DEF SpawnOnce
<1>5. ASSUME NEW j \in Jobs, RunnerStep(j) PROVE SpawnOnce'
  <2>1. /\ UNCHANGED <<enq, nextJob>> /\ runner[j].pc # "none"
        /\ \A i \in Jobs \ {j} : runner'[i] = runner[i]
    BY <1>0, <1>5 DEF RunnerStep, Start, Poll, MoveBuffer, TerminalStatus, Mark
  <2> QED BY <2>1 DEF SpawnOnce
<1>6. CASE UNCHANGED vars
  BY <1>6 DEF vars, SpawnOnce
<1> QED BY <1>1, <1>2, <1>3, <1>4, <1>5, <1>6 DEF Next, Quiet

\* Where a step may put a record: a runner's queue does not regain it.
LEMMA StepReturn ==
  ASSUME TypesInv, CustodyInv, SpawnOnce, NoReturn, [Next]_vars
  PROVE /\ NoReturn'
        /\ \A j \in Jobs : runner[j].pc # "none" => /\ runner'[j].queue = runner[j].queue
                                                    /\ runner'[j].pc # "none"
                                                    /\ ~Held(j) => ~Held(j)'
<1> USE DEF regVars, jobVars, enqRest, uiRest, runRest
<1> DEFINE Stays == \A j \in Jobs : runner[j].pc # "none" => /\ runner'[j].queue = runner[j].queue
                                                             /\ runner'[j].pc # "none"
                                                             /\ ~Held(j) => ~Held(j)'
<1> SUFFICES NoReturn' /\ Stays
  OBVIOUS
<1>0. /\ enq \in [Enqueuers -> EnqRecords] /\ runner \in [Jobs -> RunnerRecords]
      /\ nextJob \in Nat /\ Jobs \subseteq Nat /\ nextQueue \in Nat
      /\ entries \in [Queues -> SUBSET Jobs] /\ ui \in UiRecords
  BY DEF TypesInv, TypeOK, Jobs
<1>1. ASSUME NEW t \in Enqueuers, EnqueuerStep(t), ~Add(t), ~GetJob(t), ~FindOrSpawn(t)
      PROVE NoReturn' /\ Stays
  <2>1. UNCHANGED <<reg, entries, runner, removed, ui>>
    BY <1>1 DEF EnqueuerStep, Route, ScanLock, Scan, GetQueue
  <2> QED BY <2>1 DEF NoReturn, Held
<1>2. ASSUME NEW t \in Enqueuers, FindOrSpawn(t) PROVE NoReturn' /\ Stays
  <2>1. UNCHANGED <<entries, runner, removed, ui>> /\ reg \subseteq reg'
        /\ reg' \subseteq reg \union {nextQueue}
    BY <1>2 DEF FindOrSpawn
  <2>2. \A j \in Jobs : runner[j].pc # "none" => runner[j].queue # nextQueue
    BY <1>0 DEF TypesInv, QueueIds
  <2> QED BY <2>1, <2>2 DEF NoReturn, Held
<1>3. ASSUME NEW t \in Enqueuers, Add(t) PROVE NoReturn' /\ Stays
  <2>1. /\ UNCHANGED <<reg, runner, removed, ui>>
        /\ entries' = [entries EXCEPT ![enq[t].queue] = @ \union {nextJob}]
    BY <1>3 DEF Add
  <2>2. \A j \in Jobs : runner[j].pc # "none" => j # nextJob /\ runner[j].queue \in Queues
    BY <1>0 DEF SpawnOnce, TypesInv, QueueIds
  <2>3. \A q \in Queues : entries[q] \subseteq entries'[q]
                          /\ entries'[q] \subseteq entries[q] \union {nextJob}
    BY <1>0, <2>1
  <2>4. \A j \in Jobs : runner[j].pc # "none" => Held(j)' = Held(j)
    BY <2>1, <2>2, <2>3 DEF Held
  <2> QED BY <2>1, <2>4 DEF NoReturn
<1>4. ASSUME NEW t \in Enqueuers, GetJob(t) PROVE NoReturn' /\ Stays
  <2> DEFINE i == enq[t].job
  <2>1. /\ UNCHANGED <<reg, entries, removed, ui>>
        /\ i \in Jobs /\ runner[i].pc = "none"
        /\ \A j \in Jobs \ {i} : runner'[j] = runner[j]
    BY <1>0, <1>4 DEF GetJob, SpawnOnce
  <2>2. runner'[i].pc # "none" => i \in entries[runner'[i].queue]
    BY <1>0, <1>4, <2>1 DEF GetJob, RunnerRecords
  <2> HIDE DEF i
  <2> QED BY <2>1, <2>2 DEF NoReturn, Held
<1>5. CASE Erase
  <2>1. /\ UNCHANGED <<reg, runner>> /\ ui.pc = "erase" /\ ui'.pc = "prune"
        /\ entries' = [entries EXCEPT ![ui.queue] = @ \ {ui.job}]
        /\ removed' = removed \union {ui.job}
    BY <1>0, <1>5 DEF Erase, UiRecords
  <2>2. \A q \in Queues : entries'[q] \subseteq entries[q]
                          /\ entries[q] \subseteq entries'[q] \union {ui.job}
    BY <1>0, <2>1
  <2>3. \A j \in Jobs : runner[j].pc # "none" => runner[j].queue \in Queues
    BY DEF TypesInv, QueueIds
  <2> QED BY <2>1, <2>2, <2>3 DEF NoReturn, Held
<1>6. CASE Drain
  <2>1. /\ UNCHANGED <<reg, runner, removed>> /\ ui.pc = "drain" /\ ui'.pc = "extend"
        /\ ui'.queue = ui.queue /\ ui'.dst = ui.dst
        /\ entries' = [entries EXCEPT ![ui.queue] = {}]
    BY <1>0, <1>6 DEF Drain, UiRecords
  <2>2. \A q \in Queues : entries'[q] \subseteq entries[q]
                          /\ (q # ui.queue => entries'[q] = entries[q])
    BY <1>0, <2>1
  <2>3. \A j \in Jobs : runner[j].pc # "none" => runner[j].queue \in Queues
    BY DEF TypesInv, QueueIds
  <2> QED BY <2>1, <2>2, <2>3 DEF NoReturn, Held
<1>7. CASE Extend
  <2>1. /\ UNCHANGED <<reg, runner, removed>> /\ ui.pc = "extend" /\ ui'.pc = "unregister"
        /\ ui'.queue = ui.queue /\ ui.dst \in reg /\ ui.queue # ui.dst
        /\ entries' = [entries EXCEPT ![ui.dst] = @ \union ui.drained]
    BY <1>0, <1>7 DEF Extend, UiRecords, NoReturn, TypesInv, UiTargets
  <2>2. \A q \in Queues : entries[q] \subseteq entries'[q]
                          /\ (q # ui.dst => entries'[q] = entries[q])
                          /\ entries'[q] \subseteq entries[q] \union ui.drained
    BY <1>0, <2>1
  <2>3. \A j \in Jobs : runner[j].pc # "none" => runner[j].queue \in Queues
    BY DEF TypesInv, QueueIds
  <2>4. \A j \in removed : j \notin ui.drained
    BY DEF CustodyInv, RemovedIsGone
  <2>5. \A j \in Jobs : runner[j].pc # "none" /\ ~Held(j) => ~Held(j)'
    BY <2>1, <2>2, <2>3, <2>4 DEF NoReturn, Held
  <2>6. Stays
    BY <2>1, <2>5
  <2>7. NoReturn'
    BY <2>1, <2>2, <2>3 DEF NoReturn, Held
  <2> QED BY <2>6, <2>7
<1>8. CASE Unregister
  <2>1. /\ UNCHANGED <<entries, runner, removed>> /\ ui.pc = "unregister" /\ ui'.pc = "idle"
        /\ reg' = reg \ {ui.queue}
    BY <1>8 DEF Unregister, UiIdle
  <2> QED BY <2>1 DEF NoReturn, Held
<1>9. CASE Retain
  <2>1. /\ UNCHANGED <<entries, runner, removed>> /\ ui.pc = "retain"
        /\ ui'.pc \in {"idle", "retain"} /\ reg' \subseteq reg
    BY <1>0, <1>9 DEF Retain, RetainDone, UiIdle, UiRecords
  <2> QED BY <2>1 DEF NoReturn, Held
<1>10. ASSUME NEW s \in reg, NEW d \in reg, Merge(s, d) PROVE NoReturn' /\ Stays
  <2>1. /\ UNCHANGED <<reg, entries, runner, removed>> /\ ui.pc = "idle"
        /\ ui'.pc = "drain" /\ ui'.dst \in reg
    BY <1>10 DEF Merge, UiIdle
  <2> QED BY <2>1 DEF NoReturn, Held
<1>11. ASSUME UNCHANGED <<reg, entries, runner, removed>>,
              ui.pc \notin {"drain", "extend", "unregister"},
              ui'.pc \notin {"drain", "extend", "unregister"}
       PROVE NoReturn' /\ Stays
  BY <1>11 DEF NoReturn, Held
<1>12. ASSUME NEW op \in {"pause", "resume", "cancel", "remove"}, NEW j \in Jobs, Command(op, j)
       PROVE NoReturn' /\ Stays
  <2>1. /\ UNCHANGED <<reg, entries, runner, removed>> /\ ui.pc = "idle"
        /\ ui'.pc \in {"control", "erase", "idle"}
    BY <1>12 DEF Command, UiIdle
  <2> QED BY <1>11, <2>1
<1>13. CASE Control
  <2>1. /\ UNCHANGED <<reg, entries, runner, removed>> /\ ui.pc = "control"
        /\ ui'.pc \in {"erase", "idle"}
    BY <1>0, <1>13 DEF Control, UiIdle, UiRecords
  <2> QED BY <1>11, <2>1
<1>14. CASE PruneList
  <2>1. UNCHANGED <<reg, entries, runner, removed>> /\ ui.pc = "prune"
    BY <1>14 DEF PruneList
  <2>2. ui'.pc \in {"retain", "idle"}
    <3>1. CASE ui' = UiIdle
      BY <3>1 DEF UiIdle
    <3>2. ASSUME NEW e, ui' = [ui EXCEPT !.pc = "retain", !.queue = None, !.empty = e]
          PROVE ui'.pc \in {"idle", "retain"}
      BY <1>0, <3>2 DEF UiRecords
    <3> QED BY <1>14, <3>1, <3>2 DEF PruneList
  <2> QED BY <1>11, <2>1, <2>2
<1>15. ASSUME NEW b \in BOOLEAN, SetF2Mode(b) PROVE NoReturn' /\ Stays
  <2>1. UNCHANGED <<reg, entries, runner, removed, ui>>
    BY <1>15 DEF SetF2Mode
  <2> QED BY <2>1 DEF NoReturn, Held
<1>16. ASSUME NEW j \in Jobs, RunnerStep(j) PROVE NoReturn' /\ Stays
  <2>1. UNCHANGED <<reg, entries, removed, ui>> /\ runner[j].pc # "none"
    BY <1>16 DEF RunnerStep, Start, Poll, MoveBuffer, TerminalStatus, Mark
  <2>2. runner'[j].pc # "none" /\ runner'[j].queue = runner[j].queue
    BY <1>0, <1>16 DEF RunnerStep, Start, Poll, MoveBuffer, TerminalStatus, Mark, RunnerRecords
  <2>3. \A i \in Jobs \ {j} : runner'[i] = runner[i]
    BY <1>0, <1>16 DEF RunnerStep, Start, Poll, MoveBuffer, TerminalStatus, Mark
  <2> QED BY <2>1, <2>2, <2>3 DEF NoReturn, Held
<1>17. CASE UNCHANGED vars
  BY <1>17 DEF vars, NoReturn, Held
<1> HIDE DEF Stays
<1> QED
  BY <1>1, <1>2, <1>3, <1>4, <1>5, <1>6, <1>7, <1>8, <1>9, <1>10, <1>12, <1>13, <1>14, <1>15,
     <1>16, <1>17 DEF Next, Quiet, UiStep, UiContinue

LEMMA StepOutcome ==
  TypesInv /\ CustodyInv /\ OutcomeInv /\ [Next]_vars => OutcomeInv'
<1> SUFFICES ASSUME TypesInv, CustodyInv, OutcomeInv, [Next]_vars PROVE OutcomeInv'
  OBVIOUS
<1> DEFINE Shown == CancelShown /\ RunnerKnows /\ TerminalRecordsAgree
<1> SUFFICES Shown'
  BY StepSpawn, StepReturn DEF OutcomeInv
<1> USE DEF regVars, jobVars, enqRest, uiRest, runRest
<1>0. /\ job \in [Jobs -> [state : JobStates, started : BOOLEAN]]
      /\ flag \in [Jobs -> Flags] /\ ui \in UiRecords
      /\ runner \in [Jobs -> RunnerRecords] /\ enq \in [Enqueuers -> EnqRecords]
      /\ Shown
  BY DEF TypesInv, TypeOK, OutcomeInv
<1>1. \A j \in Jobs : runner[j].pc # "none" /\ ~Held(j) => ~Held(j)'
  BY StepReturn DEF OutcomeInv
<1>2. \A st : Outcome(st) \in Terminal
  BY DEF Outcome, Terminal
<1>3. ASSUME UNCHANGED <<job, flag>>, ui' = ui \/ ui'.pc # "control",
             \A j \in Jobs : \/ runner'[j] = runner[j]
                             \/ runner[j].pc = "none" /\ runner'[j].pc = "start"
      PROVE Shown'
  <2>1. CancelShown'
    <3>1. \A j \in Jobs : runner[j].pc = "ended" => runner'[j].pc = "ended"
      BY <1>3
    <3>2. ui.pc = "control" => ui.job \in Jobs
      BY DEF TypesInv, UiTargets
    <3> QED BY <1>0, <1>3, <3>1, <3>2 DEF CancelShown
  <2>2. RunnerKnows'
    BY <1>0, <1>3 DEF RunnerKnows
  <2>3. TerminalRecordsAgree'
    BY <1>0, <1>1, <1>3 DEF TerminalRecordsAgree
  <2> QED BY <2>1, <2>2, <2>3
<1>4. ASSUME NEW t \in Enqueuers, EnqueuerStep(t) PROVE Shown'
  <2>1. UNCHANGED <<job, flag, ui>>
    BY <1>4 DEF EnqueuerStep, Route, ScanLock, Scan, FindOrSpawn, Add, GetQueue, GetJob
  <2>2. CASE runner' = runner
    BY <1>3, <2>1, <2>2
  <2>3. CASE GetJob(t) /\ runner' # runner
    <3>1. /\ enq[t].job \in Jobs /\ runner[enq[t].job].pc = "none"
          /\ runner' = [runner EXCEPT ![enq[t].job].pc = "start",
                                      ![enq[t].job].queue = enq[t].queue]
      BY <2>3 DEF GetJob, OutcomeInv, SpawnOnce
    <3>2. \A j \in Jobs : \/ runner'[j] = runner[j]
                          \/ runner[j].pc = "none" /\ runner'[j].pc = "start"
      BY <1>0, <3>1 DEF RunnerRecords
    <3> QED BY <1>3, <2>1, <3>2
  <2> QED
    BY <1>4, <2>2, <2>3 DEF EnqueuerStep, Route, ScanLock, Scan, FindOrSpawn, Add, GetQueue
<1>5. ASSUME NEW op \in {"pause", "resume", "cancel", "remove"}, NEW j \in Jobs, Command(op, j)
      PROVE Shown'
  <2>1. /\ UNCHANGED <<flag, runner, entries>> /\ ui.pc = "idle"
        /\ \A i \in Jobs \ {j} : job'[i] = job[i]
        /\ job'[j].state = NewState(op, job[j])
    BY <1>0, <1>5 DEF Command
  <2>2. job[j].state \in Terminal => NewState(op, job[j]) = job[j].state
    BY DEF NewState, Terminal
  <2>3. \A i \in Jobs : job[i].state \in Terminal => job'[i].state = job[i].state
    BY <2>1, <2>2
  <2>4. ui'.pc = "control" /\ ui'.op \in {"cancel", "remove"} => job'[ui'.job].state = "Cancelled"
    <3>1. ui'.op = op /\ ui'.job = j /\ (ui'.pc = "control" => NewState(op, job[j]) # job[j].state)
      BY <1>5 DEF Command, UiIdle
    <3>2. op \in {"cancel", "remove"} /\ NewState(op, job[j]) # job[j].state
            => NewState(op, job[j]) = "Cancelled"
      BY DEF NewState
    <3> QED BY <2>1, <3>1, <3>2
  <2>5. CancelShown'
    BY <1>0, <2>1, <2>3, <2>4 DEF CancelShown, Terminal
  <2>6. RunnerKnows'
    BY <1>0, <2>1, <2>3 DEF RunnerKnows, Terminal
  <2>7. TerminalRecordsAgree'
    BY <1>0, <1>2, <2>1, <2>3 DEF TerminalRecordsAgree, Held
  <2> QED BY <2>5, <2>6, <2>7
<1>6. CASE Control
  <2>1. UNCHANGED <<job, runner, entries>> /\ ui'.pc # "control" /\ ui.pc = "control"
    BY <1>0, <1>6 DEF Control, UiIdle, UiRecords
  <2>2. \A i \in Jobs : flag[i] = "CANCELLED" => flag'[i] = "CANCELLED"
    BY <1>0, <1>6 DEF Control
  <2>3. \A i \in Jobs : flag'[i] = "CANCELLED" /\ flag[i] # "CANCELLED" =>
          i = ui.job /\ ui.op \in {"cancel", "remove"}
    BY <1>0, <1>6 DEF Control
  <2>4. CancelShown'
    BY <1>0, <2>1, <2>3 DEF CancelShown
  <2>5. RunnerKnows'
    BY <1>0, <2>1, <2>2 DEF RunnerKnows
  <2>6. TerminalRecordsAgree'
    BY <1>0, <2>1 DEF TerminalRecordsAgree, Held
  <2> QED BY <2>4, <2>5, <2>6
<1>7. ASSUME UiStep, ~Control,
             \A op \in {"pause", "resume", "cancel", "remove"}, j \in Jobs : ~Command(op, j)
      PROVE Shown'
  <2>1. UNCHANGED <<job, flag, runner>>
    BY <1>7 DEF UiStep, UiContinue, Erase, PruneList, Retain, RetainDone, Merge, Drain, Extend,
       Unregister, SetF2Mode
  <2>2. ui' = UiIdle => ui'.pc # "control"
    BY DEF UiIdle
  <2>3. ASSUME NEW e, ui' = [ui EXCEPT !.pc = "retain", !.queue = None, !.empty = e] PROVE ui'.pc # "control"
    BY <1>0, <2>3 DEF UiRecords
  <2>4. PruneList \/ Retain \/ Unregister => ui'.pc # "control"
    BY <1>0, <2>2, <2>3 DEF PruneList, Retain, RetainDone, Unregister, UiRecords
  <2>5. Erase \/ Drain \/ Extend => ui'.pc # "control"
    BY <1>0 DEF Erase, Drain, Extend, UiRecords
  <2>6. ASSUME NEW s \in reg, NEW d \in reg, Merge(s, d) PROVE ui'.pc # "control"
    BY <2>6 DEF Merge, UiIdle
  <2>7. ui' = ui \/ ui'.pc # "control"
    BY <1>7, <2>4, <2>5, <2>6 DEF UiStep, UiContinue, SetF2Mode
  <2> QED BY <1>3, <2>1, <2>7
<1>8. ASSUME NEW j \in Jobs, RunnerStep(j) PROVE Shown'
  <2>1. /\ UNCHANGED <<flag, ui, entries>>
        /\ \A i \in Jobs \ {j} : runner'[i] = runner[i] /\ job'[i] = job[i]
        /\ runner[j].pc # "ended"
    BY <1>0, <1>8 DEF RunnerStep, Start, Poll, MoveBuffer, TerminalStatus, Mark
  <2>2. ui.pc = "control" => ui.job \in Jobs
    BY DEF TypesInv, UiTargets
  <2>3. CASE Start(j) \/ Poll(j) \/ MoveBuffer(j)
    <3>1. /\ runner'[j].pc \in {"poll", "io", "status"}
          /\ job[j].state = "Cancelled" => job'[j].state = "Cancelled"
          /\ runner'[j].pc = "status" => runner'[j].result \in {"ok", "cancelled", "failed"}
          /\ runner'[j].pc = "status" /\ runner'[j].result = "cancelled" => flag[j] = "CANCELLED"
      BY <1>0, <2>3 DEF Start, Poll, MoveBuffer, RunnerRecords
    <3>2. CancelShown'
      BY <1>0, <2>1, <2>2, <3>1 DEF CancelShown
    <3>3. RunnerKnows'
      BY <1>0, <2>1, <3>1 DEF RunnerKnows
    <3>4. TerminalRecordsAgree'
      BY <1>0, <2>1, <3>1 DEF TerminalRecordsAgree, Held
    <3> QED BY <3>2, <3>3, <3>4
  <2>4. CASE TerminalStatus(j)
    <3>1. /\ runner[j].pc = "status" /\ runner'[j].pc = "mark" /\ job' = job
          /\ runner'[j].status = StatusOf(j)
      BY <1>0, <2>4 DEF TerminalStatus, RunnerRecords
    <3>2. StatusOf(j) \in {"succeeded", "cancelled", "failed"}
      BY <1>0, <3>1 DEF StatusOf, RunnerKnows
    <3>3. StatusOf(j) = "cancelled" => job[j].state = "Cancelled"
      BY <1>0, <3>1 DEF StatusOf, RunnerKnows, CancelShown
    <3>4. CancelShown'
      BY <1>0, <2>1, <2>2, <3>1 DEF CancelShown
    <3>5. RunnerKnows'
      BY <1>0, <2>1, <3>1, <3>2, <3>3 DEF RunnerKnows
    <3>6. TerminalRecordsAgree'
      BY <1>0, <2>1, <3>1 DEF TerminalRecordsAgree, Held
    <3> QED BY <3>4, <3>5, <3>6
  <2>5. CASE Mark(j)
    <3>1. /\ runner[j].pc = "mark" /\ runner'[j].pc = "ended"
          /\ runner'[j].status = runner[j].status /\ runner'[j].queue = runner[j].queue
          /\ runner[j].status \in {"succeeded", "cancelled", "failed"}
      BY <1>0, <2>5 DEF Mark, RunnerRecords, RunnerKnows
    <3>2. Held(j) => job'[j].state = Outcome(runner[j].status)
      <4>1. CASE runner[j].status = "cancelled"
        BY <1>0, <2>5, <3>1, <4>1 DEF Mark, RunnerKnows, Outcome
      <4>2. CASE runner[j].status \in {"succeeded", "failed"}
        BY <1>0, <2>5, <4>2 DEF Mark
      <4> QED BY <3>1, <4>1, <4>2
    <3>3. CancelShown'
      BY <1>0, <2>1, <2>2, <3>1 DEF CancelShown
    <3>4. RunnerKnows'
      BY <1>0, <2>1, <3>1 DEF RunnerKnows
    <3>5. TerminalRecordsAgree'
      BY <1>0, <2>1, <3>1, <3>2 DEF TerminalRecordsAgree, Held
    <3> QED BY <3>3, <3>4, <3>5
  <2> QED BY <1>8, <2>3, <2>4, <2>5 DEF RunnerStep
<1>9. CASE UNCHANGED vars
  BY <1>3, <1>9 DEF vars
<1> HIDE DEF Shown
<1> QED BY <1>4, <1>5, <1>6, <1>7, <1>8, <1>9 DEF Next, Quiet, UiStep

\* Journal, history and queue agree on the outcome of every job whose record
\* its runner can still reach, wherever a cancel falls.
THEOREM OutcomesAgree == Spec => []TerminalRecordsAgree
<1>1. OutcomeInv => TerminalRecordsAgree
  BY DEF OutcomeInv
<1> QED BY <1>1, InitOutcome, StepOutcome, TypesAlways, CustodyAlways, PTL DEF Spec

-----------------------------------------------------------------------------
(* What holds while the user issues only some of the commands.             *)

\* Only a job whose runner has started it is shown as Running.
Started ==
  \A j \in Jobs :
    /\ job[j].state = "Running" => job[j].started
    /\ job[j].started => runner[j].pc # "none"

\* The queue that holds a job is the one its runner knows.
AtHome ==
  /\ ui.pc \notin {"drain", "extend", "unregister"}
  /\ \A q \in Queues : \A j \in entries[q] : runner[j].pc # "none" => runner[j].queue = q

LEMMA StepStarted == TypesInv /\ SpawnOnce /\ Started /\ [Next]_vars => Started'
<1> SUFFICES ASSUME TypesInv, SpawnOnce, Started, [Next]_vars PROVE Started'
  OBVIOUS
<1> USE DEF regVars, jobVars, enqRest, uiRest, runRest
<1>0. /\ job \in [Jobs -> [state : JobStates, started : BOOLEAN]]
      /\ runner \in [Jobs -> RunnerRecords]
  BY DEF TypesInv, TypeOK
<1>1. ASSUME UNCHANGED job, \A j \in Jobs : runner[j].pc # "none" => runner'[j].pc # "none"
      PROVE Started'
  BY <1>1 DEF Started
<1>2. ASSUME NEW t \in Enqueuers, EnqueuerStep(t) PROVE Started'
  <2>1. UNCHANGED job
    BY <1>2 DEF EnqueuerStep, Route, ScanLock, Scan, FindOrSpawn, Add, GetQueue, GetJob
  <2>2. CASE runner' = runner
    BY <1>1, <2>1, <2>2
  <2>3. CASE GetJob(t) /\ runner' # runner
    <3>1. /\ enq[t].job \in Jobs /\ runner[enq[t].job].pc = "none"
          /\ runner' = [runner EXCEPT ![enq[t].job].pc = "start",
                                      ![enq[t].job].queue = enq[t].queue]
      BY <2>3 DEF GetJob, SpawnOnce
    <3>2. \A j \in Jobs : runner[j].pc # "none" => runner'[j] = runner[j]
      BY <1>0, <3>1
    <3> QED BY <1>1, <2>1, <3>2
  <2> QED
    BY <1>2, <2>2, <2>3 DEF EnqueuerStep, Route, ScanLock, Scan, FindOrSpawn, Add, GetQueue
<1>3. ASSUME NEW op \in {"pause", "resume", "cancel", "remove"}, NEW j \in Jobs, Command(op, j)
      PROVE Started'
  <2>1. /\ UNCHANGED runner /\ \A i \in Jobs \ {j} : job'[i] = job[i]
        /\ job'[j].state = NewState(op, job[j]) /\ job'[j].started = job[j].started
    BY <1>0, <1>3 DEF Command
  <2>2. NewState(op, job[j]) = "Running" => job[j].state = "Running" \/ job[j].started
    BY DEF NewState
  <2> QED BY <2>1, <2>2 DEF Started
<1>4. ASSUME UiStep, \A op \in {"pause", "resume", "cancel", "remove"}, j \in Jobs : ~Command(op, j)
      PROVE Started'
  <2>1. UNCHANGED <<job, runner>>
    BY <1>4 DEF UiStep, UiContinue, Control, Erase, PruneList, Retain, RetainDone, Merge, Drain, Extend,
       Unregister, SetF2Mode
  <2> QED BY <1>1, <2>1
<1>5. ASSUME NEW j \in Jobs, RunnerStep(j) PROVE Started'
  <2>1. /\ runner'[j].pc # "none"
        /\ \A i \in Jobs \ {j} : runner'[i] = runner[i] /\ job'[i] = job[i]
    BY <1>0, <1>5 DEF RunnerStep, Start, Poll, MoveBuffer, TerminalStatus, Mark, RunnerRecords
  <2>2. CASE Start(j)
    <3>1. job'[j].state = "Running" => job'[j].started
      BY <1>0, <2>2 DEF Start, Started
    <3> QED BY <2>1, <3>1 DEF Started
  <2>3. CASE Mark(j)
    <3>1. Outcome(runner[j].status) # "Running"
      BY DEF Outcome
    <3>2. job'[j].state = "Running" => job[j].state = "Running" /\ job' = job
      BY <1>0, <2>3, <3>1 DEF Mark
    <3> QED BY <2>1, <3>2 DEF Started
  <2>4. CASE Poll(j) \/ MoveBuffer(j) \/ TerminalStatus(j)
    <3>1. UNCHANGED job
      BY <2>4 DEF Poll, MoveBuffer, TerminalStatus
    <3> QED BY <2>1, <3>1 DEF Started
  <2> QED BY <1>5, <2>2, <2>3, <2>4 DEF RunnerStep
<1>6. CASE UNCHANGED vars
  BY <1>6 DEF vars, Started
<1> QED BY <1>2, <1>3, <1>4, <1>5, <1>6 DEF Next, Quiet, UiStep

LEMMA StepAtHome ==
  ASSUME "merge" \notin UiCommands
  PROVE  TypesInv /\ CustodyInv /\ SpawnOnce /\ AtHome /\ [Next]_vars => AtHome'
<1> SUFFICES ASSUME TypesInv, CustodyInv, SpawnOnce, AtHome, [Next]_vars PROVE AtHome'
  OBVIOUS
<1> USE DEF regVars, jobVars, enqRest, uiRest, runRest
<1>0. /\ entries \in [Queues -> SUBSET Jobs] /\ ui \in UiRecords
      /\ runner \in [Jobs -> RunnerRecords] /\ enq \in [Enqueuers -> EnqRecords]
      /\ nextJob \in Nat /\ Jobs \subseteq Nat
  BY DEF TypesInv, TypeOK, Jobs
<1>1. ASSUME UNCHANGED runner, ui'.pc \notin {"drain", "extend", "unregister"},
             \A q \in Queues : entries'[q] \subseteq entries[q]
      PROVE AtHome'
  BY <1>1 DEF AtHome
<1>2. ASSUME NEW t \in Enqueuers, EnqueuerStep(t), ~Add(t), ~GetJob(t) PROVE AtHome'
  <2>1. UNCHANGED <<entries, runner, ui>>
    BY <1>2 DEF EnqueuerStep, Route, ScanLock, Scan, FindOrSpawn, GetQueue
  <2> QED BY <2>1 DEF AtHome
<1>3. ASSUME NEW t \in Enqueuers, Add(t) PROVE AtHome'
  <2>1. /\ UNCHANGED <<runner, ui>> /\ nextJob \in Jobs
        /\ entries' = [entries EXCEPT ![enq[t].queue] = @ \union {nextJob}]
    BY <1>3 DEF Add
  <2>2. runner[nextJob].pc = "none"
    BY <1>0, <2>1 DEF SpawnOnce
  <2>3. \A q \in Queues : entries'[q] \subseteq entries[q] \union {nextJob}
    BY <1>0, <2>1
  <2> QED BY <2>1, <2>2, <2>3 DEF AtHome
<1>4. ASSUME NEW t \in Enqueuers, GetJob(t) PROVE AtHome'
  <2> DEFINE i == enq[t].job
             h == enq[t].queue
  <2>1. /\ UNCHANGED <<entries, ui>> /\ i \in Jobs /\ h \in Queues
        /\ \A j \in Jobs \ {i} : runner'[j] = runner[j]
        /\ runner' = runner \/ (i \in entries[h] /\ runner'[i].queue = h)
    BY <1>0, <1>4 DEF GetJob, SpawnOnce, TypesInv, QueueIds, RunnerRecords
  <2>2. i \in entries[h] => \A q \in Queues : i \in entries[q] => q = h
    BY <2>1 DEF CustodyInv, NoJobDuplicated
  <2> HIDE DEF i, h
  <2> QED BY <1>0, <2>1, <2>2 DEF AtHome
<1>5. CASE Control
  <2>1. UNCHANGED <<entries, runner>> /\ ui'.pc \in {"erase", "idle"}
    BY <1>0, <1>5 DEF Control, UiIdle, UiRecords
  <2> QED BY <1>1, <2>1
<1>6. CASE Erase
  <2>1. /\ UNCHANGED runner /\ ui'.pc = "prune"
        /\ entries' = [entries EXCEPT ![ui.queue] = @ \ {ui.job}]
    BY <1>0, <1>6 DEF Erase, UiRecords
  <2> QED BY <1>0, <1>1, <2>1
<1>7. CASE PruneList
  <2>1. UNCHANGED <<entries, runner>>
    BY <1>7 DEF PruneList
  <2>2. ui' = UiIdle => ui'.pc = "idle"
    BY DEF UiIdle
  <2>3. ASSUME NEW e, ui' = [ui EXCEPT !.pc = "retain", !.queue = None, !.empty = e] PROVE ui'.pc = "retain"
    BY <1>0, <2>3 DEF UiRecords
  <2>4. ui'.pc \in {"retain", "idle"}
    BY <1>7, <2>2, <2>3 DEF PruneList
  <2> QED BY <1>1, <2>1, <2>4
<1>8. CASE Retain
  <2>1. UNCHANGED <<entries, runner>> /\ ui'.pc \in {"retain", "idle"}
    BY <1>0, <1>8 DEF Retain, RetainDone, UiIdle, UiRecords
  <2> QED BY <1>1, <2>1
<1>9. ~Drain /\ ~Extend /\ ~Unregister /\ \A s, d \in reg : ~Merge(s, d)
  BY DEF AtHome, Drain, Extend, Unregister, Merge
<1>10. ASSUME NEW op \in {"pause", "resume", "cancel", "remove"}, NEW j \in Jobs, Command(op, j)
       PROVE AtHome'
  <2>1. UNCHANGED <<entries, runner>> /\ ui'.pc \in {"control", "erase", "idle"}
    BY <1>10 DEF Command, UiIdle
  <2> QED BY <1>1, <2>1
<1>11. ASSUME NEW b \in BOOLEAN, SetF2Mode(b) PROVE AtHome'
  BY <1>11 DEF SetF2Mode, AtHome
<1>12. ASSUME NEW j \in Jobs, RunnerStep(j) PROVE AtHome'
  <2>1. UNCHANGED <<entries, ui>> /\ runner[j].pc # "none"
    BY <1>12 DEF RunnerStep, Start, Poll, MoveBuffer, TerminalStatus, Mark
  <2>2. /\ runner'[j].queue = runner[j].queue
        /\ \A i \in Jobs \ {j} : runner'[i] = runner[i]
    BY <1>0, <1>12 DEF RunnerStep, Start, Poll, MoveBuffer, TerminalStatus, Mark, RunnerRecords
  <2> QED BY <1>0, <2>1, <2>2 DEF AtHome
<1>13. CASE UNCHANGED vars
  BY <1>13 DEF vars, AtHome
<1> QED
  BY <1>2, <1>3, <1>4, <1>5, <1>6, <1>7, <1>8, <1>9, <1>10, <1>11, <1>12, <1>13
  DEF Next, Quiet, UiStep, UiContinue, EnqueuerStep

\* While the user does not merge, a job the queue shows as Running has a runner at
\* work, wherever pauses, resumes, cancels and removals fall: a resume after the
\* runner's last write does not bring a finished job back.
THEOREM RunningJobsHaveRunners ==
  ASSUME "merge" \notin UiCommands
  PROVE  Spec => []RunningHasRunner
<1>1. Init => Started /\ AtHome
  BY DEF Init, Started, AtHome, UiIdle
<1>2. TypesInv /\ OutcomeInv /\ Started /\ AtHome => RunningHasRunner
  <2> SUFFICES ASSUME TypesInv, OutcomeInv, Started, AtHome, NEW q \in reg, NEW j \in entries[q],
                      job[j].state = "Running"
               PROVE  runner[j].pc \notin {"none", "ended"}
    BY DEF RunningHasRunner
  <2>1. q \in Queues /\ j \in Jobs
    BY DEF TypesInv, TypeOK
  <2>2. runner[j].pc # "none"
    BY <2>1 DEF Started
  <2>3. Held(j)
    BY <2>1, <2>2 DEF AtHome, Held
  <2>4. Outcome(runner[j].status) # "Running"
    BY DEF Outcome
  <2> QED BY <2>1, <2>2, <2>3, <2>4 DEF OutcomeInv, TerminalRecordsAgree
<1>3. OutcomeInv => SpawnOnce
  BY DEF OutcomeInv
<1>4. TypesInv /\ CustodyInv /\ SpawnOnce /\ AtHome /\ [Next]_vars => AtHome'
  BY StepAtHome
<1> QED
  BY <1>1, <1>2, <1>3, <1>4, StepStarted, InitOutcome, StepOutcome, TypesAlways, CustodyAlways, PTL
  DEF Spec
=============================================================================
