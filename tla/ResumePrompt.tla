---------------------------- MODULE ResumePrompt ----------------------------
(***************************************************************************)
(* Interrupted jobs across launches: the JOBS, FILES and SEQ tables of the *)
(* journal (crates/freally-journal/src/journal.rs), the sweep at boot      *)
(* (apps/freally-ui/src-tauri/src/lib.rs), the commands behind the resume  *)
(* prompt (commands.rs, ResumePromptModal.svelte) and the part of run_job  *)
(* that begins and ends a journal row (runner.rs).                         *)
(*                                                                         *)
(* A destination is abstracted to how many times destination_for has       *)
(* appended the name of the source to the folder the user chose first.     *)
(* Every call of the journal may fail; the app then goes on without the    *)
(* row, the list or the deletion it asked for.                             *)
(***************************************************************************)
EXTENDS Integers

CONSTANTS MaxRows,    \* bound on the row ids allocated
          MaxBoots    \* bound on the launches of the app

ASSUME RowsAssumption == MaxRows \in Nat /\ MaxBoots \in Nat

Rows == 1 .. MaxRows
None == 0

VARIABLES
  nextRow,    \* SEQ: next_row_id
  rows,       \* JOBS: status and dst_root of each row ("absent": no row)
  files,      \* rows with a checkpoint in FILES
  app,        \* the process: "closed", "running", "wiping" (its main thread is in
              \* discard_all_resumes), "unread" (the sweep of this launch failed)
              \* or "unjournalled" (AppState::journal is None)
  boots,      \* launches so far
  startup,    \* AppState::startup_unfinished
  modal,      \* the rows the prompt still shows
  doomed,     \* the ids discard_all_resumes has still to delete
  runs,       \* run_job tasks: pc, and the row the user resumed (or None)
  spared,     \* history: rows of this launch whose deletion failed
  discarded   \* history: rows the user discarded

vars == <<nextRow, rows, files, app, boots, startup, modal, doomed, runs, spared, discarded>>
tables == <<nextRow, rows, files>>
lists == <<startup, modal, doomed, spared>>
memory == <<app, boots, lists>>

Absent == [status |-> "absent", dst |-> 0]
NoRun == [pc |-> "none", dst |-> 0, of |-> None]
RunPcs == {"none", "allocated", "running", "ended"}

TypeOK ==
  /\ nextRow \in 1 .. MaxRows + 1
  /\ rows \in [Rows -> [status : {"absent", "Running", "Ended"}, dst : 0 .. MaxRows]]
  /\ files \in SUBSET Rows
  /\ app \in {"closed", "running", "wiping", "unread", "unjournalled"}
  /\ boots \in 0 .. MaxBoots
  /\ startup \in SUBSET Rows
  /\ modal \in SUBSET Rows
  /\ doomed \in SUBSET Rows
  /\ spared \in SUBSET Rows
  /\ runs \in [Rows -> [pc : RunPcs, dst : 0 .. MaxRows, of : Rows \union {None}]]
  /\ discarded \in SUBSET Rows

Init ==
  /\ nextRow = 1
  /\ rows = [r \in Rows |-> Absent]
  /\ files = {}
  /\ app = "closed"
  /\ boots = 0
  /\ startup = {}
  /\ modal = {}
  /\ doomed = {}
  /\ spared = {}
  /\ runs = [r \in Rows |-> NoRun]
  /\ discarded = {}

\* Mutant: only jobs with a checkpoint are listed.
UnfinishedWithFiles == {r \in files : rows[r].status = "Running"}

\* Journal::unfinished.
Unfinished == {r \in Rows : rows[r].status = "Running"}

\* Launch: the journal is opened and swept once, the prompt asks
\* pending_resumes. A scan that fails, at one unreadable row even, is an empty
\* list; without a journal the app runs all the same.
Boot(outcome) ==
  /\ app = "closed"
  /\ boots < MaxBoots
  /\ app' = outcome
  /\ boots' = boots + 1
  /\ startup' = IF outcome = "running" THEN Unfinished ELSE {}
  /\ modal' = startup'
  /\ UNCHANGED <<tables, runs, doomed, spared, discarded>>

\* Mutant: row ids are not remembered, the first free one is taken.
AllocateFree(root, of) ==
  /\ \E r \in Rows :
       /\ rows[r].status = "absent" /\ runs[r].pc = "none"
       /\ \A q \in Rows : rows[q].status = "absent" /\ runs[q].pc = "none" => r <= q
       /\ nextRow' = r + 1
       /\ runs' = [runs EXCEPT ![r] = [pc |-> "allocated", dst |-> root + 1, of |-> of]]
  /\ UNCHANGED <<rows, files>>

\* enqueue_jobs and run_job up to begin_job's first transaction: the folder is
\* extended by destination_for, a new row id is taken from SEQ.
Allocate(root, of) ==
  /\ nextRow \in Rows
  /\ nextRow' = nextRow + 1
  /\ runs' = [runs EXCEPT ![nextRow] = [pc |-> "allocated", dst |-> root + 1, of |-> of]]
  /\ UNCHANGED <<rows, files>>

\* start_copy or start_move from the user interface. (A job whose row id cannot
\* be allocated, and every job of an unjournalled launch, runs without a row.)
StartCopy ==
  /\ app \in {"running", "wiping", "unread"}
  /\ Allocate(0, None)
  /\ UNCHANGED <<memory, discarded>>

\* "Resume" in the prompt: start_copy with the row's src_root and dst_root.
\* The row leaves the prompt; table and startup list are left alone.
Resume(r) ==
  /\ app = "running"
  /\ r \in modal
  /\ Allocate(rows[r].dst, r)
  /\ modal' = modal \ {r}
  /\ UNCHANGED <<app, boots, startup, doomed, spared, discarded>>

\* begin_job's second transaction: the row appears, status Running.
BeginJob(r) ==
  /\ runs[r].pc = "allocated"
  /\ rows' = [rows EXCEPT ![r] = [status |-> "Running", dst |-> runs[r].dst]]
  /\ runs' = [runs EXCEPT ![r].pc = "running"]
  /\ UNCHANGED <<nextRow, files, memory, discarded>>

\* begin_job fails after it took the id: the copy runs without a row.
BeginJobFails(r) ==
  /\ runs[r].pc = "allocated"
  /\ runs' = [runs EXCEPT ![r] = NoRun]
  /\ UNCHANGED <<tables, memory, discarded>>

\* The engine's first checkpoint of the job.
Checkpoint(r) ==
  /\ runs[r].pc = "running"
  /\ r \notin files
  /\ files' = files \union {r}
  /\ UNCHANGED <<nextRow, rows, memory, runs, discarded>>

\* The engine has returned: finish_job_* stamps a terminal status, unless the
\* transaction fails, which is ignored.
FinishJob(r) ==
  /\ runs[r].pc = "running"
  /\ rows' \in {rows, [rows EXCEPT ![r].status = "Ended"]}
  /\ runs' = [runs EXCEPT ![r].pc = "ended"]
  /\ UNCHANGED <<nextRow, files, memory, discarded>>

\* Journal::delete_job: the job row and its checkpoints.
DeleteJob(r) ==
  /\ rows' = [rows EXCEPT ![r] = Absent]
  /\ files' = files \ {r}
  /\ discarded' = discarded \union {r}
  /\ UNCHANGED nextRow

\* discard_resume. A deletion that fails leaves list and prompt as they are.
Discard(r) ==
  /\ app = "running"
  /\ r \in modal
  /\ DeleteJob(r)
  /\ startup' = startup \ {r}
  /\ modal' = modal \ {r}
  /\ UNCHANGED <<app, boots, doomed, runs, spared>>

\* discard_all_resumes takes the ids of the startup list, rows resumed in the
\* meantime included. Until it returns the main thread serves no other command.
DiscardAll ==
  /\ app = "running"
  /\ modal # {}
  /\ app' = "wiping"
  /\ doomed' = startup
  /\ UNCHANGED <<tables, boots, startup, modal, runs, spared, discarded>>

\* Its loop: one transaction per row, and a failure goes on to the next row.
DiscardNext(r) ==
  /\ app = "wiping"
  /\ r \in doomed /\ \A q \in doomed : r <= q
  /\ doomed' = doomed \ {r}
  /\ \/ DeleteJob(r) /\ UNCHANGED spared
     \/ spared' = spared \union {r} /\ UNCHANGED <<tables, discarded>>
  /\ UNCHANGED <<app, boots, startup, modal, runs>>

\* The list is cleared and the prompt closed whatever failed.
DiscardAllDone ==
  /\ app = "wiping"
  /\ doomed = {}
  /\ app' = "running"
  /\ startup' = {}
  /\ modal' = {}
  /\ UNCHANGED <<tables, boots, doomed, runs, spared, discarded>>

\* The process dies (or is closed) at any point.
Crash ==
  /\ app # "closed"
  /\ app' = "closed"
  /\ startup' = {}
  /\ modal' = {}
  /\ doomed' = {}
  /\ spared' = {}
  /\ runs' = [r \in Rows |-> NoRun]
  /\ UNCHANGED <<tables, boots, discarded>>

\* Nothing left to do within the bounds.
Over == boots = MaxBoots /\ UNCHANGED vars

Next ==
  \/ \E outcome \in {"running", "unread", "unjournalled"} : Boot(outcome)
  \/ StartCopy \/ DiscardAll \/ DiscardAllDone \/ Crash \/ Over
  \/ \E r \in Rows : \/ Resume(r) \/ BeginJob(r) \/ BeginJobFails(r) \/ Checkpoint(r)
                     \/ FinishJob(r) \/ Discard(r) \/ DiscardNext(r)

Spec == Init /\ [][Next]_vars

-----------------------------------------------------------------------------

\* No interrupted job is forgotten: when the sweep at boot could read the
\* journal, a row still Running is one of a task of this launch, one the list
\* holds, or one whose deletion failed in discard_all_resumes, which clears the
\* list all the same. (The next launch whose sweep succeeds lists that one, and
\* the rows a failed sweep or an unopened journal left out of this launch.)
NoJobForgotten ==
  app \in {"running", "wiping"} =>
    \A r \in Rows : rows[r].status = "Running" =>
                      runs[r].pc \in {"running", "ended"} \/ r \in startup \union spared

\* A discarded row never comes back, neither in a later prompt nor as the row
\* of another job: ids are not reused across crashes and deletions. (The prompt
\* shows it until the command that is deleting it returns.)
DiscardedStaysGone ==
  \A r \in discarded :
    /\ rows[r].status = "absent" /\ runs[r].pc = "none"
    /\ app # "wiping" => r \notin startup \union modal
=============================================================================
