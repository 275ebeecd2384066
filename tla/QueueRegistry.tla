--------------------------- MODULE QueueRegistry ---------------------------
(***************************************************************************)
(* The per-drive job queues (crates/freally-core/src/queue.rs), the        *)
(* enqueue path (apps/freally-ui/src-tauri/src/shell.rs), the commands of  *)
(* the user interface (commands.rs, queue_commands.rs) and the task that   *)
(* runs one job (runner.rs).                                               *)
(*                                                                         *)
(* Actors.  start_copy and start_move are async commands: several          *)
(* enqueuers run at once.  Every routed job gets a runner task of its own. *)
(* The synchronous commands all run on the main thread: one ui actor.      *)
(*                                                                         *)
(* Locks.  The registry mutex is the variable lock: route and get hold it  *)
(* for one step, the F2 scan, merge_into and prune_empty over several.  A  *)
(* queue's own mutex protects one step at a time, so each critical section *)
(* of queue.rs is one action, and what the code does after the unlock (the *)
(* CopyControl call) is a later one.  Queue ids are minted and pushed      *)
(* under the registry lock, so registry order is id order and reg is a set.*)
(***************************************************************************)
EXTENDS Integers, FiniteSets

CONSTANTS Enqueuers,   \* concurrent start_copy / start_move commands
          Drives,      \* what VolumeProbe answers (the absent id included)
          MaxJobs,     \* bound on the job ids minted
          MaxQueues,   \* bound on the queue ids minted
          UiCommands   \* the commands the user issues, of AllCommands

AllCommands == {"pause", "resume", "cancel", "remove", "merge", "f2"}

ASSUME BoundsAssumption == MaxJobs \in Nat /\ MaxQueues \in Nat
ASSUME CommandsAssumption == UiCommands \subseteq AllCommands
ASSUME DrivesAssumption == Drives # {}

Jobs == 1 .. MaxJobs
Queues == 1 .. MaxQueues
None == 0     \* no queue, no job
Free == "free"
Ui == "ui"

JobStates == {"Pending", "Running", "Paused", "Cancelled", "Succeeded", "Failed"}
Terminal == {"Cancelled", "Succeeded", "Failed"}
Flags == {"RUNNING", "PAUSED", "CANCELLED"}

VARIABLES
  reg,        \* ids of the queues in the registry
  driveOf,    \* drive id of each registry entry
  nextQueue,  \* next_queue_id
  nextJob,    \* next_job_id, shared by every queue
  entries,    \* the jobs each queue holds, registered or not
  job,        \* state and started_at of each job's record
  flag,       \* the flag of each job's CopyControl
  f2,         \* auto_enqueue_next
  lock,       \* holder of the registry mutex
  enq,        \* enqueuers: pc, drive, target queue, job
  ui,         \* the main thread inside a command
  runner,     \* runner task of each job: pc, queue handle, engine result, status
  removed,    \* history: jobs the user removed
  late        \* history: jobs added to a queue already drained or dropped

vars == <<reg, driveOf, nextQueue, nextJob, entries, job, flag, f2, lock, enq,
          ui, runner, removed, late>>

regVars == <<reg, driveOf, nextQueue>>
jobVars == <<nextJob, entries, job, flag, removed, late>>

UiIdle == [pc |-> "idle", op |-> "none", job |-> None, queue |-> None,
           dst |-> None, drained |-> {}, empty |-> {}]

EnqPcs == {"idle", "f2", "scan", "spawn", "add", "get_queue", "get_job",
           "panicked"}
UiPcs == {"idle", "control", "erase", "prune", "retain", "drain", "extend",
          "unregister"}
RunnerPcs == {"none", "start", "poll", "io", "status", "mark", "ended"}

EnqRecords == [pc : EnqPcs, drive : Drives, queue : Queues \union {None},
               job : Jobs \union {None}]
UiRecords == [pc : UiPcs, op : AllCommands \union {"none"}, job : Jobs \union {None},
              queue : Queues \union {None}, dst : Queues \union {None},
              drained : SUBSET Jobs, empty : SUBSET Queues]
RunnerRecords == [pc : RunnerPcs, queue : Queues \union {None},
                  result : {"none", "ok", "cancelled", "failed"},
                  status : {"none", "succeeded", "cancelled", "failed"}]

TypeOK ==
  /\ reg \in SUBSET Queues
  /\ driveOf \in [Queues -> Drives]
  /\ nextQueue \in Nat
  /\ nextJob \in Nat
  /\ entries \in [Queues -> SUBSET Jobs]
  /\ job \in [Jobs -> [state : JobStates, started : BOOLEAN]]
  /\ flag \in [Jobs -> Flags]
  /\ f2 \in BOOLEAN
  /\ lock \in Enqueuers \union {Free, Ui}
  /\ enq \in [Enqueuers -> EnqRecords]
  /\ ui \in UiRecords
  /\ runner \in [Jobs -> RunnerRecords]
  /\ removed \in SUBSET Jobs
  /\ late \in SUBSET Jobs

SomeDrive == CHOOSE d \in Drives : TRUE

Init ==
  /\ reg = {}
  /\ driveOf = [q \in Queues |-> SomeDrive]
  /\ nextQueue = 1
  /\ nextJob = 1
  /\ entries = [q \in Queues |-> {}]
  /\ job = [j \in Jobs |-> [state |-> "Pending", started |-> FALSE]]
  /\ flag = [j \in Jobs |-> "RUNNING"]
  /\ f2 = FALSE
  /\ lock = Free
  /\ enq = [t \in Enqueuers |-> [pc |-> "idle", drive |-> SomeDrive,
                                 queue |-> None, job |-> None]]
  /\ ui = UiIdle
  /\ runner = [j \in Jobs |-> [pc |-> "none", queue |-> None,
                               result |-> "none", status |-> "none"]]
  /\ removed = {}
  /\ late = {}

-----------------------------------------------------------------------------
(* Enqueuers: QueueRegistry::route, then shell::enqueue_jobs.              *)

enqRest == <<ui, runner>>

InFlight == {t \in Enqueuers : enq[t].pc \in {"f2", "scan", "spawn", "add"}}

\* A command arrives for a destination on drive d (bounded by MaxJobs); route
\* loads auto_enqueue_next.
Route(t, d) ==
  /\ enq[t].pc = "idle"
  /\ nextJob + Cardinality(InFlight) \in Jobs
  /\ enq' = [enq EXCEPT ![t] = [pc |-> IF f2 THEN "f2" ELSE "spawn", drive |-> d,
                                queue |-> None, job |-> None]]
  /\ UNCHANGED <<regVars, jobVars, f2, lock, enqRest>>

\* find_running_queue takes the registry lock ...
ScanLock(t) ==
  /\ enq[t].pc = "f2"
  /\ lock = Free
  /\ lock' = t
  /\ enq' = [enq EXCEPT ![t].pc = "scan"]
  /\ UNCHANGED <<regVars, jobVars, f2, enqRest>>

HasRunning(q) == \E j \in entries[q] : job[j].state = "Running"

\* ... and snapshots the queues one by one, in registry order; enq[t].queue is
\* the last one looked at.  It stops at the first with a Running job.
Scan(t) ==
  /\ enq[t].pc = "scan"
  /\ \/ \E q \in reg :
          /\ q > enq[t].queue
          /\ \A p \in reg : p > enq[t].queue => q <= p
          /\ \/ /\ HasRunning(q)
                /\ enq' = [enq EXCEPT ![t].pc = "add", ![t].queue = q]
                /\ lock' = Free
             \/ /\ ~HasRunning(q)
                /\ enq' = [enq EXCEPT ![t].queue = q]
                /\ UNCHANGED lock
     \/ /\ \A q \in reg : q <= enq[t].queue
        /\ enq' = [enq EXCEPT ![t].pc = "spawn", ![t].queue = None]
        /\ lock' = Free
  /\ UNCHANGED <<regVars, jobVars, f2, enqRest>>

\* Mutant: the drive is not looked up before a queue is created.
SpawnAlways(t) ==
  /\ enq[t].pc = "spawn"
  /\ lock = Free
  /\ nextQueue \in Queues
  /\ reg' = reg \union {nextQueue}
  /\ driveOf' = [driveOf EXCEPT ![nextQueue] = enq[t].drive]
  /\ nextQueue' = nextQueue + 1
  /\ enq' = [enq EXCEPT ![t].pc = "add", ![t].queue = nextQueue]
  /\ UNCHANGED <<jobVars, f2, lock, enqRest>>

\* Find the queue of the drive or create it, in one critical section.
FindOrSpawn(t) ==
  /\ enq[t].pc = "spawn"
  /\ lock = Free
  /\ \/ \E q \in reg :
          /\ driveOf[q] = enq[t].drive
          /\ enq' = [enq EXCEPT ![t].pc = "add", ![t].queue = q]
          /\ UNCHANGED regVars
     \/ /\ \A q \in reg : driveOf[q] # enq[t].drive
        /\ nextQueue \in Queues
        /\ reg' = reg \union {nextQueue}
        /\ driveOf' = [driveOf EXCEPT ![nextQueue] = enq[t].drive]
        /\ nextQueue' = nextQueue + 1
        /\ enq' = [enq EXCEPT ![t].pc = "add", ![t].queue = nextQueue]
  /\ UNCHANGED <<jobVars, f2, lock, enqRest>>

\* absorb has emptied the queue, which leaves the registry next.
Drained(q) == ui.pc \in {"extend", "unregister"} /\ ui.queue = q

\* Queue::add on the queue handle; the registry lock is not held any more, so
\* a merge or a prune may have been there in between.
Add(t) ==
  /\ enq[t].pc = "add"
  /\ nextJob \in Jobs
  /\ nextJob' = nextJob + 1
  /\ entries' = [entries EXCEPT ![enq[t].queue] = @ \union {nextJob}]
  /\ late' = IF enq[t].queue \in reg /\ ~Drained(enq[t].queue)
               THEN late ELSE late \union {nextJob}
  /\ enq' = [enq EXCEPT ![t].pc = "get_queue", ![t].job = nextJob]
  /\ UNCHANGED <<regVars, job, flag, removed, f2, lock, enqRest>>

\* enqueue_jobs: queues.get(qid).expect("just-routed queue must exist ...").
GetQueue(t) ==
  /\ enq[t].pc = "get_queue"
  /\ lock = Free
  /\ enq' = [enq EXCEPT ![t].pc =
               IF enq[t].queue \in reg THEN "get_job" ELSE "panicked"]
  /\ UNCHANGED <<regVars, jobVars, f2, lock, enqRest>>

\* Mutant: the job is reported as added but no task is spawned for it.
GetJobWithoutSpawn(t) ==
  /\ enq[t].pc = "get_job"
  /\ enq' = [enq EXCEPT ![t].pc = "idle"]
  /\ UNCHANGED <<regVars, jobVars, f2, lock, enqRest>>

\* queue.get(id).expect("just-added job must be in queue"), then run_job is
\* spawned with this queue handle and the job's control.
GetJob(t) ==
  /\ enq[t].pc = "get_job"
  /\ LET q == enq[t].queue
         j == enq[t].job
     IN \/ /\ j \in entries[q]
           /\ runner' = [runner EXCEPT ![j].pc = "start", ![j].queue = q]
           /\ enq' = [enq EXCEPT ![t].pc = "idle"]
        \/ /\ j \notin entries[q]
           /\ enq' = [enq EXCEPT ![t].pc = "panicked"]
           /\ UNCHANGED runner
  /\ UNCHANGED <<regVars, jobVars, f2, lock, ui>>

EnqueuerStep(t) ==
  \/ \E d \in Drives : Route(t, d)
  \/ ScanLock(t) \/ Scan(t) \/ FindOrSpawn(t) \/ Add(t) \/ GetQueue(t) \/ GetJob(t)

-----------------------------------------------------------------------------
(* The main thread: pause_job, resume_job, cancel_job, remove_job,         *)
(* queue_merge, queue_set_f2_mode.  find_queue_for_job and the state change*)
(* form one step: only this thread moves or removes jobs.                  *)

uiRest == <<nextQueue, driveOf, nextJob, late, enq, runner>>

NewState(op, r) ==
  CASE op = "pause" /\ r.state \in {"Running", "Pending"} -> "Paused"
    [] op = "resume" /\ r.state = "Paused" ->
         IF r.started THEN "Running" ELSE "Pending"
    [] op \in {"cancel", "remove"} /\ r.state \notin Terminal -> "Cancelled"
    [] OTHER -> r.state

\* The critical section of pause_job / resume_job / cancel_job.  A job the
\* command does not apply to is left alone; remove goes on to erase it.
Command(op, j) ==
  /\ ui.pc = "idle"
  /\ lock = Free
  /\ op \in UiCommands \intersect {"pause", "resume", "cancel", "remove"}
  /\ \E q \in reg :
       /\ j \in entries[q]
       /\ ui' = [UiIdle EXCEPT !.op = op, !.job = j, !.queue = q, !.pc =
                   IF NewState(op, job[j]) # job[j].state THEN "control"
                   ELSE IF op = "remove" THEN "erase" ELSE "idle"]
  /\ job' = [job EXCEPT ![j].state = NewState(op, job[j])]
  /\ job' # job \/ op = "remove"
  /\ UNCHANGED <<reg, entries, flag, f2, lock, removed, uiRest>>

\* Mutant: cancel changes the record but never reaches the engine.
ControlForgotten ==
  /\ ui.pc = "control"
  /\ ui' = IF ui.op = "remove" THEN [ui EXCEPT !.pc = "erase"] ELSE UiIdle
  /\ UNCHANGED <<reg, entries, job, flag, f2, lock, removed, uiRest>>

\* After the queue mutex is released: CopyControl::pause / resume / cancel.
Control ==
  /\ ui.pc = "control"
  /\ flag' = [flag EXCEPT ![ui.job] =
                CASE ui.op = "pause" /\ @ = "RUNNING" -> "PAUSED"
                  [] ui.op = "resume" /\ @ = "PAUSED" -> "RUNNING"
                  [] ui.op \in {"cancel", "remove"} -> "CANCELLED"
                  [] OTHER -> @]
  /\ ui' = IF ui.op = "remove" THEN [ui EXCEPT !.pc = "erase"] ELSE UiIdle
  /\ UNCHANGED <<reg, entries, job, f2, lock, removed, uiRest>>

\* Second half of Queue::remove.
Erase ==
  /\ ui.pc = "erase"
  /\ entries' = [entries EXCEPT ![ui.queue] = @ \ {ui.job}]
  /\ removed' = removed \union {ui.job}
  /\ ui' = [ui EXCEPT !.pc = "prune"]
  /\ UNCHANGED <<reg, job, flag, f2, lock, uiRest>>

\* prune_empty takes the registry lock and lists the queues that are empty now.
PruneList ==
  /\ ui.pc = "prune"
  /\ lock = Free
  /\ LET empty == {q \in reg : entries[q] = {}}
     IN IF empty = {}
          THEN /\ ui' = UiIdle
               /\ UNCHANGED lock
          ELSE /\ ui' = [ui EXCEPT !.pc = "retain", !.queue = None, !.empty = empty]
               /\ lock' = Ui
  /\ UNCHANGED <<reg, jobVars, f2, driveOf, nextQueue, enq, runner>>

\* The queue of reg that follows the last one looked at.
RetainNext(q) ==
  /\ q \in reg
  /\ q > ui.queue
  /\ \A p \in reg : p > ui.queue => q <= p

\* The last queue was looked at: the registry lock is released.
RetainDone ==
  /\ \A q \in reg : q <= ui.queue
  /\ lock' = Free
  /\ ui' = UiIdle
  /\ UNCHANGED reg

\* Mutant: the queues listed are dropped without a second look.
RetainByList ==
  /\ ui.pc = "retain"
  /\ \/ \E q \in reg :
          /\ RetainNext(q)
          /\ reg' = IF q \in ui.empty THEN reg \ {q} ELSE reg
          /\ ui' = [ui EXCEPT !.queue = q]
          /\ UNCHANGED lock
     \/ RetainDone
  /\ UNCHANGED <<jobVars, f2, driveOf, nextQueue, enq, runner>>

\* retain looks at the queues again, one by one in registry order, each under
\* its own mutex, and drops those that are empty; ui.queue is the last one
\* looked at.  QueueRemoved goes out for the first list.
Retain ==
  /\ ui.pc = "retain"
  /\ \/ \E q \in reg :
          /\ RetainNext(q)
          /\ reg' = IF entries[q] = {} THEN reg \ {q} ELSE reg
          /\ ui' = [ui EXCEPT !.queue = q]
          /\ UNCHANGED lock
     \/ RetainDone
  /\ UNCHANGED <<jobVars, f2, driveOf, nextQueue, enq, runner>>

\* merge_into holds the registry lock throughout (unknown ids and src = dst
\* return early and change nothing).
Merge(src, dst) ==
  /\ ui.pc = "idle"
  /\ "merge" \in UiCommands
  /\ lock = Free
  /\ src \in reg /\ dst \in reg /\ src # dst
  /\ lock' = Ui
  /\ ui' = [UiIdle EXCEPT !.pc = "drain", !.op = "merge", !.queue = src,
                          !.dst = dst]
  /\ UNCHANGED <<reg, entries, job, flag, f2, removed, uiRest>>

\* Mutant: absorb copies the entries instead of taking them.
DrainByClone ==
  /\ ui.pc = "drain"
  /\ ui' = [ui EXCEPT !.pc = "extend", !.drained = entries[ui.queue]]
  /\ UNCHANGED <<reg, entries, job, flag, f2, lock, removed, uiRest>>

\* absorb: take src's entries under src's mutex ...
Drain ==
  /\ ui.pc = "drain"
  /\ entries' = [entries EXCEPT ![ui.queue] = {}]
  /\ ui' = [ui EXCEPT !.pc = "extend", !.drained = entries[ui.queue]]
  /\ UNCHANGED <<reg, job, flag, f2, lock, removed, uiRest>>

\* ... and append them to dst's under dst's mutex.
Extend ==
  /\ ui.pc = "extend"
  /\ entries' = [entries EXCEPT ![ui.dst] = @ \union ui.drained]
  /\ ui' = [ui EXCEPT !.pc = "unregister", !.drained = {}]
  /\ UNCHANGED <<reg, job, flag, f2, lock, removed, uiRest>>

\* The src entry leaves the registry and the lock is released.
Unregister ==
  /\ ui.pc = "unregister"
  /\ reg' = reg \ {ui.queue}
  /\ lock' = Free
  /\ ui' = UiIdle
  /\ UNCHANGED <<entries, job, flag, f2, removed, uiRest>>

SetF2Mode(b) ==
  /\ ui.pc = "idle"
  /\ "f2" \in UiCommands
  /\ f2' = b
  /\ UNCHANGED <<reg, entries, job, flag, lock, ui, removed, uiRest>>

UiContinue == Control \/ Erase \/ PruneList \/ Retain \/ Drain \/ Extend \/ Unregister

UiStep ==
  \/ \E op \in {"pause", "resume", "cancel", "remove"}, j \in Jobs : Command(op, j)
  \/ \E src \in reg, dst \in reg : Merge(src, dst)
  \/ \E b \in BOOLEAN : SetF2Mode(b)
  \/ UiContinue

-----------------------------------------------------------------------------
(* Runner tasks: runner::run_job.  Every queue operation goes through the  *)
(* handle the job was enqueued with and does nothing if it is not there.   *)

runRest == <<regVars, nextJob, entries, flag, f2, lock, enq, ui, removed, late>>

Held(j) == j \in entries[runner[j].queue]

\* Queue::start.
Start(j) ==
  /\ runner[j].pc = "start"
  /\ job' = IF Held(j) /\ job[j].state \in {"Pending", "Paused"}
              THEN [job EXCEPT ![j] = [state |-> "Running", started |-> TRUE]]
              ELSE job
  /\ runner' = [runner EXCEPT ![j].pc = "poll"]
  /\ UNCHANGED runRest

\* Mutant: only the pause is looked at between buffers.
PollPauseOnly(j) ==
  /\ runner[j].pc = "poll"
  /\ flag[j] # "PAUSED"
  /\ runner' = [runner EXCEPT ![j].pc = "io"]
  /\ UNCHANGED <<job, runRest>>

\* The engine polls its control between buffers and parks while PAUSED
\* (CopyControl.tla).
Poll(j) ==
  /\ runner[j].pc = "poll"
  /\ \/ /\ flag[j] = "CANCELLED"
        /\ runner' = [runner EXCEPT ![j].pc = "status", ![j].result = "cancelled"]
     \/ /\ flag[j] = "RUNNING"
        /\ runner' = [runner EXCEPT ![j].pc = "io"]
  /\ UNCHANGED <<job, runRest>>

\* One buffer: more to do, end of file, or an error.  The flag may have
\* changed since the poll.
MoveBuffer(j) ==
  /\ runner[j].pc = "io"
  /\ \/ runner' = [runner EXCEPT ![j].pc = "poll"]
     \/ \E r \in {"ok", "failed"} :
          runner' = [runner EXCEPT ![j].pc = "status", ![j].result = r]
  /\ UNCHANGED <<job, runRest>>

\* The engine's result decides, but a copy that came through although the job
\* was cancelled counts as cancelled.
StatusOf(j) ==
  IF runner[j].result # "ok" THEN runner[j].result
  ELSE IF Held(j) /\ job[j].state = "Cancelled" THEN "cancelled" ELSE "succeeded"

\* terminal_status is computed and written to the journal (finish_job_*).
TerminalStatus(j) ==
  /\ runner[j].pc = "status"
  /\ runner' = [runner EXCEPT ![j].pc = "mark", ![j].status = StatusOf(j)]
  /\ UNCHANGED <<job, runRest>>

\* The record's state for a terminal status.
Outcome(status) ==
  CASE status = "succeeded" -> "Succeeded"
    [] status = "failed" -> "Failed"
    [] OTHER -> "Cancelled"

\* Mutant: the record of a job that is already terminal is left alone.
MarkUnlessTerminal(j) ==
  /\ runner[j].pc = "mark"
  /\ job' = IF /\ Held(j)
               /\ job[j].state \notin Terminal
               /\ runner[j].status \in {"succeeded", "failed"}
              THEN [job EXCEPT ![j].state = Outcome(runner[j].status)]
              ELSE job
  /\ runner' = [runner EXCEPT ![j].pc = "ended"]
  /\ UNCHANGED runRest

\* Mutant: an error ends the task without mark_failed.
MarkCompletedOnly(j) ==
  /\ runner[j].pc = "mark"
  /\ job' = IF Held(j) /\ runner[j].status = "succeeded"
              THEN [job EXCEPT ![j].state = "Succeeded"]
              ELSE job
  /\ runner' = [runner EXCEPT ![j].pc = "ended"]
  /\ UNCHANGED runRest

\* mark_completed / mark_failed (whatever the record says by now), then the
\* history row gets the same status and the task ends.
Mark(j) ==
  /\ runner[j].pc = "mark"
  /\ job' = IF Held(j) /\ runner[j].status \in {"succeeded", "failed"}
              THEN [job EXCEPT ![j].state = Outcome(runner[j].status)]
              ELSE job
  /\ runner' = [runner EXCEPT ![j].pc = "ended"]
  /\ UNCHANGED runRest

RunnerStep(j) ==
  Start(j) \/ Poll(j) \/ MoveBuffer(j) \/ TerminalStatus(j) \/ Mark(j)

-----------------------------------------------------------------------------

\* Every job id is used up, every task has ended or is parked, the user waits.
Quiet ==
  /\ nextJob \notin Jobs
  /\ UNCHANGED vars

Next ==
  \/ \E t \in Enqueuers : EnqueuerStep(t)
  \/ UiStep
  \/ \E j \in Jobs : RunnerStep(j)
  \/ Quiet

Spec == Init /\ [][Next]_vars

\* The runtime polls every ready task and the main thread returns from every
\* command it has begun.  Weak fairness is enough for the registry mutex: only
\* finitely many critical sections can delay one waiter here.  Nothing is
\* assumed of the user, nor that an engine ever reaches the end of its file.
Fairness ==
  /\ \A t \in Enqueuers :
       WF_vars(ScanLock(t) \/ Scan(t) \/ FindOrSpawn(t) \/ Add(t) \/ GetQueue(t)
               \/ GetJob(t))
  /\ WF_vars(UiContinue)
  /\ \A j \in Jobs : WF_vars(RunnerStep(j))

FairSpec == Spec /\ Fairness

-----------------------------------------------------------------------------
(* Properties that hold.                                                   *)

\* No route, merge or remove duplicates a job's record: it is in at most one
\* queue, and in none while a merge carries it.
NoJobDuplicated ==
  \A p \in Queues : \A j \in entries[p] :
    /\ \A q \in Queues : j \in entries[q] => p = q
    /\ j \notin ui.drained

\* No merge or prune loses a job it could see: an id that was minted and not
\* removed by the user is in a queue of the registry or being carried by a
\* merge.  The one exception is a job that came late, after its queue had been
\* drained or dropped: no command finds it any more (README, section 4).
NoJobLost ==
  \A j \in Jobs :
    j < nextJob /\ j \notin removed =>
      j \in late \/ j \in ui.drained \/ \E q \in reg : j \in entries[q]

\* Racing routes never create two queues for one drive, whatever merges and
\* prunes do to the registry in between.
OneQueuePerDrive ==
  \A p, q \in reg : driveOf[p] = driveOf[q] => p = q

\* A cancelled job's engine has been told, or the main thread is about to.
CancelReachesControl ==
  \A j \in Jobs :
    job[j].state = "Cancelled" =>
      flag[j] = "CANCELLED" \/ (ui.pc = "control" /\ ui.job = j)

\* The outcome written to the journal and the history is the one the queue
\* shows, although a cancel may fall between any two of the runner's steps.
TerminalRecordsAgree ==
  \A j \in Jobs :
    runner[j].pc = "ended" /\ Held(j) => job[j].state = Outcome(runner[j].status)

\* A job whose control is cancelled does not keep its runner.
CancelledJobsEnd ==
  \A j \in Jobs :
    (flag[j] = "CANCELLED" /\ runner[j].pc # "none") ~> runner[j].pc = "ended"

\* While the user neither merges nor removes, each routed job gets its runner.
EveryJobGetsARunner ==
  \A j \in Jobs : j < nextJob ~> runner[j].pc # "none"

\* While the user does not merge, a job shown as Running has a live runner.
RunningHasRunner ==
  \A q \in reg : \A j \in entries[q] :
    job[j].state = "Running" => runner[j].pc \notin {"none", "ended"}

=============================================================================
