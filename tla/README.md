# A TLA+ model of Freally File Manager

Freally File Manager is a desktop file copier written in Rust: a Tauri
application (`apps/freally-ui`) over a set of crates (`crates/freally-*`). This
directory models the parts of it in which something concurrent, interrupted or
out of order can go wrong, checks the models with TLC on small instances, and
proves the main properties with TLAPS for all values of the constants. Paths
below are relative to the root of the repository's source.

1. The system
2. The modules and the code
3. What the runs check
4. Where the code and its documentation disagree
5. What is proved
6. Limits
7. Plan

## 1. The system

### How a copy runs

The user drops files; `start_copy` (`commands.rs`) calls `enqueue_jobs`
(`shell.rs`), which asks the `QueueRegistry` for the queue of the destination's
drive, adds a job to it and spawns `run_job` (`runner.rs`). The runner marks the
job Running, opens a row in the journal, and awaits the copy engine. The engine
moves buffers; between two of them it polls the job's `CopyControl`, and every
so often it hands a checkpoint to the journal's sink. When the engine returns,
the runner settles journal, queue and history. After a crash, the next launch
sweeps the journal and offers the interrupted jobs in the resume prompt. A job
for a directory is a tree copy: a walker streams the files to a dispatcher,
which spawns a task for each, and a task that meets an existing destination or
an error may park on a question to the user. A folder sync runs beside all
this: rounds that walk two folders, decide, and copy or delete; a live mirror
starts a round whenever the filesystem watch reports a change. Backups record
snapshots in a repository over a content-addressed chunk store.

### Inventory

| Part | State it keeps | Operations | What is hard | What makes it correct |
|---|---|---|---|---|
| copy control (`freally-core/control.rs`) | one atomic flag, a `Notify` | pause, resume, cancel, poll, wait | flag and notification are two steps on each side | no lost wakeup; cancel is final; bounded reaction |
| queues, registry (`freally-core/queue.rs`, `shell.rs`, `queue_commands.rs`) | queues by drive, jobs, F2 mode, id counters | route, add, start, mark, pause, resume, cancel, remove, merge, prune | one lock for the registry, one per queue, a control per job; several critical sections per command | no job lost or run twice; one queue per drive; the state shown is the job's |
| job runner (`runner.rs`) | queue handle, control, journal row | run one job to its end | cancel at any point; three records of the outcome | the records agree; every job ends |
| copy engine (`freally-core/engine.rs`) | offset, hasher, partial file | copy, resume, verify, fail | kill or power loss between write, sync and checkpoint | a complete copy is the source |
| journal (`freally-journal`) | JOBS, FILES, SEQ tables; the sink's pending map | begin, checkpoint, finish, sweep, delete | batching; transactions of several tasks | rows describe what is on disk |
| resume prompt (`ResumePromptModal.svelte`, `commands.rs`, `lib.rs`) | list found at boot | resume, discard, discard all | crash between transactions; a second crash while resuming | every interrupted job is offered; a discarded one is gone |
| folder sync (`freally-sync`) | baseline database | walk, decide, copy, delete, keep conflict | edits during a round; rounds that stop half way | edits survive; rounds converge |
| sync steering, sync registry (`freally-sync/control.rs`, `sync_commands.rs`) | flag, map of running syncs | start, pause, cancel | check-then-insert; wakeup after the load | one round per pair |
| live mirror (`live_mirror.rs`) | map of mirrors, stop flag, the watcher behind a mutex | start, stop, round, wait, coalesce | changes during a round; a drain that outlives its timeout | every change is brought over |
| tree copy (`freally-core/tree.rs`, `collision.rs`) | bounded channel, semaphore, JoinSet, counters | walk, dispatch, collide, copy, retry, join, delete the source of a move | bounded channel and permits; failures and cancel while others run | the job ends; the report adds up; nothing in the way is destroyed |
| prompts (`runner.rs`, `collisions.rs`, `errors.rs`) | pending oneshots, apply-to-all, rules | forward, answer, end of job | answer racing other tasks of the job | every parked task can be answered |
| chunk store, repository (`freally-chunk`) | index, pack files, active pack; snapshot rows; the gc lease | put, record, replicate, remove, gc, compact, verify, repair | recording against gc; a kill between pack, index and catalog | a committed snapshot restores to what was recorded |
| audit (`freally-audit`) | hash chain, current file | append, rotate, verify | restart and rotation in mid chain | the chain verifies |
| power (`freally-power`, `power.rs`) | policy, set of jobs it paused | react to events | the user's pause against the policy's | the policy never undoes the user |
| shaping (`freally-shape`) | token bucket, schedule | acquire, change rate | rate change while waiting | long-run rate |
| watch (`freally-watch`) | raw events, debounce queue, save-dance tracker | filter, pair renames, debounce, rescan after an overflow | editors' save dances in any order and form | a change of an ordinary file is reported |
| version retention (`freally-core/versioning.rs`) | versions of a file | select for pruning | boundary of the windows | the newest is kept |
| history (`freally-history`) | SQLite rows | record, search, purge | behind one mutex | - |
| plugins, helper, snapshots, mobile companion | sessions, leases, grants | request and answer | lifetimes | - |
| cloud, servers, mounts, crypt, secure delete, platform, settings, shell extension, CLI | none that jobs share | adapters and per-file I/O | - | - |

`PROJECT.json` lists every part with its sources, whether it is modelled and why
not, and under `hazards` the lines where tests would hardly reach.

Interactions: the user interface calls the registry synchronously on the main
thread; `start_copy` is asynchronous and may run several times at once; every
job is a task that shares its queue (behind a mutex) and its control (an
atomic) with the commands; the engines of one job share one journal sink; the
tasks of a tree job share one forwarder, which shares the prompt registries
with the commands; the sync engine calls the copy engine for every file; the
live mirror's loop shares the watcher with the drain it spawns; everybody who
records in or reads from a repository shares its lease with gc and compaction.

## 2. The modules and the code

`PROJECT.json` (`map`) gives the lines of every definition. Each `MC*` module
only extends its specification and adds a symmetry set or a constant operator.

**CopyControl** (`control.rs` and the copy loop of `engine.rs`). `flag` is the
`AtomicU8`; a caller in `resume` or `cancel` is at `"notify"` between the write
of the flag and `notify_waiters`. An engine goes through `IsCancelled`,
`IsPaused`, `Arm` (the `Notified` future is created and enabled), `LoadFlag`,
`Wake`, `Recheck`, `MoveBuffer`; each load is a step. tokio's `Notify` is
external: `notify_waiters` wakes the futures enabled before the call and stores
no permit. `late` is a history variable: buffers moved since the flag changed.

**QueueRegistry** (`queue.rs`, `shell.rs`, `commands.rs`, `queue_commands.rs`,
`runner.rs`). Actors: enqueuers (`Route`, `ScanLock` and `Scan` for F2 mode,
`FindOrSpawn`, `Add`, `GetQueue`, `GetJob`), the main thread (`Command`,
`Control`, `Erase`, `PruneList`, `Retain`, `Merge`, `Drain`, `Extend`,
`Unregister`, `SetF2Mode`) and one runner per job (`Start`, `Poll`,
`MoveBuffer`, `TerminalStatus`, `Mark`). One critical section is one action;
what the code does after an unlock is a later one. `lock` is the registry's
mutex, held over several steps by `merge_into`, `prune_empty` and the F2 scan;
`Retain` looks at one queue per step, under that queue's mutex only, and `Add`
does not ask for the registry at all. `late` is a history variable: jobs added to
a queue that a merge had drained or that had left the registry.
The runner remembers the queue it was spawned with, as the code does. Waiting in
a pause is abstracted from CopyControl: a paused runner cannot leave `Poll`.
The positions of jobs in a queue, selection and progress are left out.

**ResumableCopy** (`engine.rs`, `sink.rs`, `journal.rs`). A file is a sequence of
blocks, a block the version of the source it was read from. `synced` says how
much of a destination survives a power loss. `Start` looks the checkpoint up,
`Begin` takes the resume decision (skip, resume behind a verified prefix, start
afresh), `MoveBlock` and `Checkpoint` alternate; the sink's `pending` and `seen`
decide whether a checkpoint is written through (`WriteThrough`), and every write
to the journal may fail, which the sink ignores (`Store`; `refused` remembers
which index); `Eof`, `FinishFlush` and `FinishFile` end a file, `JobDrain`,
`JobWrite` and `FinishJob` the job. `Fail`
is an I/O error or cancel at any point, with what it leaves of the destination.
`Kill`, `PowerLoss` and `EditSource` are the environment. BLAKE3 is taken to be
injective, a redb transaction that succeeds atomic and durable.

**ResumePrompt** (`journal.rs`, `lib.rs`, `commands.rs`, `runner.rs`,
`ResumePromptModal.svelte`). The journal's tables over several launches. `Boot`
sweeps, or cannot read or open the journal and goes on with an empty list or
without a journal; `StartCopy` and `Resume` allocate a row id in one transaction,
`BeginJob` writes the row in another or fails (`BeginJobFails`); `FinishJob` may
leave the row as it is; `Discard` deletes one row; `DiscardAll`, `DiscardNext` and
`DiscardAllDone` delete the rows of the list one transaction at a time, skip those
that fail and clear the list; `Crash` at any point. A destination is the number of times the source's name has been appended to it.

**FolderSync** (`freally-sync/src/engine.rs`, `db.rs`, `walker.rs`). One path of
one pair. Every path of a pair is an instance of the module; two of them meet only
where a conflict renames its loser to a free path, which is `ExecuteConflict` at
the one and `ConflictLands` at the other. A round is `Start`, `WalkLeft`, `WalkRight`, `Decide` (the whole of
`decide_action`), then the execution of the action in the steps at which it can
be interrupted: `OpenCopy` truncates the destination, `FinishCopy` completes it,
`PutFile` writes the baseline row; `ExecuteDelete`, `Remove`, `DeleteFile`;
`ExecuteConflict` renames the loser before the winner is copied. `Abort`,
`CopyError` and `Kill` stop a round; `Edit` is a user writing or deleting on
either side at any moment. Modification times are abstracted to a free choice
of the winner.

**TreeCopy** (`tree.rs`, `collision.rs`, `runner.rs`, `collisions.rs`,
`errors.rs`). The walker passes every name (`WalkSend` blocks while the channel
is full, `WalkPass`, `WalkClose`, `WalkFails`); the dispatcher goes from
`Dispatch` and `WalkEnded` over `Join` and `Drained` to `Conclude`, and for a
move that could not rename on to `Unlink` and `DeleteEnds`. A file's task is
at one of its await points: `Resolve` (permit, collision policy; a policy that is
itself a name is `CollisionPolicy::Rename`), `Open`
(truncates), `Finish`, `Stop`, `Fail` (error policy). A question travels from
`asked` (the event channel) through `peek` (the forwarder reads the metadata)
to `pending` (the registry), with an answer possible at each place: `Forward`
(apply-to-all), `Register` (a rule), `UserResolves`, `UserSettles`. A
destination name holds nothing, the file from before, a partial or whole copy,
or the mixed writes of two tasks.

**Repository** (`store.rs`, `repository.rs`) over **SnapshotCatalog**. A chunk is
named by its hash and takes one unit of a pack. Threads record (`Begin` takes
the lease; `PutDedup`, `PutMiss`, `PutLocked`, `PutRoll`, `PutAppend`,
`PutCommit` store the chunks, with the unlocked lookup and the second one under
the mutex as separate steps; `Allocate` and `CommitRow` or `ReplicateRow` are
the catalog's transactions) or verify (`Verify`, `VerifyLocate`, `VerifyRead`,
`VerifyEnds`). Maintenance removes snapshots, sweeps (`GcSweep`, `GcUnlink`),
compacts (`CompactRoll`, `CompactPick`, `CompactMove`, `CompactRepoint`,
`CompactUnlink`) and repairs. `Crash` forgets everything in memory between any
two of them. The failing calls are of three kinds: a roll that has changed memory
and cannot commit STATS (`RollUncommitted`) and an append that stops short
(`AppendShort`), both as `PutFails` or `CompactFails`; a read that fails during a
verification (`VerifyReadFails`); and errors that change nothing in the store
(`Abandon`). `Rot` damages a unit. The histories `behind`, `astray` and a report's
`unread` name what the first two leave: STATS behind the active pack, rows
committed while the pack was longer than `active.size`, damage that is none.
SnapshotCatalog is the promise: ids are handed out once, a snapshot is recorded
faithfully or forsaken, and changes no more until it is removed. The refinement
maps a snapshot to what its chunks' locators lead to (`Restored`), the ids of
recordings between their two transactions to `pending`.

**LiveMirror** (`watcher.rs`, `debounce.rs`, `filter.rs`, `live_mirror.rs`). Other
programs `Save`, `Delete` and `Move` ordinary, staging and swap files, onto each
other's names too, and change the right side, which is not watched
(`ChangeRight`); notify (external) reports a rename whole, in halves or as
ambiguous events, another change by its path or only by its directory, and may
overflow. The pump's `Handle` is `handle_raw_event` with the filter, the save-dance
tracker (`temps`, `gone`) and the per-path debounce queue; a rescan
(`HandleRescan`) finds any part of what is there; `Flush` and `Purge` are windows
that elapse. The loop is `Open`, `RoundBegins`, `Bring`, `RoundEnds`, `Check`,
`Wait`, `Coalesce`, `WindowEnds`, with the `Drain` it spawns as a task of its own. A
round is what it does to the set of paths that differ (`dirty`), path by path, and
to the left side, which reports it; in a one-way mode or when it fails it leaves
some. FolderSync models the round itself. Two history variables: `owed`, the
ordinary paths changed since an event was last taken, and `silent`, the paths whose
change nobody will hear of, entered by the step that loses it: a whole rename onto
a filtered name (`Hidden`), a rescan that does not find the file, a change of the
right side, and what a round leaves.

## 3. What the runs check

| Run | Shows |
|---|---|
| `copy_control` | `NoLostWakeup`: an engine parked after the flag has left PAUSED has been woken or will be. `AtMostOneLateBuffer`: after a pause or cancel an engine moves one more buffer at most. Under fairness `CancelStopsEngines` and `ResumeUnparks` |
| `queue_all` | With every command: `NoJobDuplicated` and `NoJobLost` through merge, removal and prune (every job is in a queue of the registry, unless it came after its queue was drained or dropped, section 4); `OneQueuePerDrive` for racing routes; `CancelReachesControl`; `TerminalRecordsAgree`: what the queue shows in the end is what journal and history were told |
| `queue_steer` | While the user neither merges nor removes: `RunningHasRunner`, and under fairness `EveryJobGetsARunner` and `CancelledJobsEnd` |
| `resume_one` | One file, kills and power losses at any point, journal writes that fail: `CompletedIsSource`, `RowIsSourcePrefix`, `SeenIsOnDisk` (but for an index whose latest write failed), and `JobEnds` |
| `prompt_boot` | `NoJobForgotten` and `DiscardedStaysGone` over three launches, with every call of the journal failing or not. The launch must have read the journal, and a row whose deletion failed waits for the next one |
| `sync_rounds` | All four modes, aborted and killed rounds: `SyncKeepsEdits`, `RoundConverges`, `SettledStaysSettled` (of a path, until somebody or another path's conflict writes there), `ContributeKeepsReceiver` |
| `repo_all` | `ImplementsCatalog`: Repository implements SnapshotCatalog, whatever recordings, gc, compaction, kills and failing calls interleave, but for chunks stored after a short append to their pack. `NoDoubleStore`: the second lookup keeps two writers from storing a chunk twice. `ActivePackExists`, now and after a restart, unless the last roll's commit failed. `RepairRemovesOnlyDamaged`, although the report is older than the removal, unless a read of the verification failed |
| `tree_all` | Every collision and error policy, copies and moves, a cancel and failures at any point: `ParkedIsAnswerable`, `ReportAddsUp`, `BeforeIsKept` (Skip and KeepBoth never touch what was there), and under fairness `TreeEnds`: a job returns unless it is cancelled during the walk (that case is `tree_cancel`'s) |
| `live_watch` | `PulseIsOwed`: no save dance, debounce or later change swallows the event that is owed for a change; the two ways the watch does lose one are `silent` and listed in section 4. `PulseArrives`: until the first event is taken, the loop itself is who takes it. `WaitsOnlyInStep`: the watcher is open before the first round, so nothing falls between |
| `tree_cancel`, `tree_move`, `live_mirror` | the first three disagreements of section 4 |

Each property of a passing run has a mutant in `PROJECT.json`: a definition
changed the way a plausible bug would change it (a store for the
compare-exchange, find and spawn in two sections, a checkpoint trusted without
its hash, a recording without the lease, ...), under which TLC finds the
property violated.

### Bounds

- `copy_control`: two callers race on the flag while two engines wait; two
  buffers, so that an engine is stopped before the first, between them and at
  the end. The safety properties are proved for all numbers.
- `queue_all`: two enqueuers, two drives, two jobs, two queues: both may meet on
  one drive, or be merged from two. `queue_steer` has one drive, because without
  merges the drives do not interact. The safety properties are proved for all
  numbers.
- `resume_one`: three blocks let a copy be interrupted before, between and after
  two checkpoints, with an older and longer file already at the destination;
  two crashes, so that a resumed copy is interrupted again; one edit of the
  source. The safety properties are proved for all numbers.
- `prompt_boot`: three rows and three launches: a job, its resumption, and the
  resumption of that, or another job. Failures are not bounded.
- `sync_rounds`: any number of rounds; three versions, three edits, one kill:
  two of the edits may make a conflict and the third fall into the round that
  settles it. A conflict file that lands on the path counts as an edit. Rounds are also aborted by errors any number of times.
- `repo_all`: two chunks, two threads, two snapshots; packs of one chunk, three of
  them, or of two, two of them, so that a pack is half dead and a compaction may
  move into a new one; one sweep or compaction between two kills, one fault
  (kill, failing call, failed recording or damaged unit), one verification at a
  time, as they only read. A recording that meets the bound on packs or ids is abandoned, as by
  an error. The safety properties and the refinement are proved for all numbers.
- `tree_all`: two files that are in each other's way under KeepBoth (`a` goes to
  `a_2`, which the source has too and which then goes to `a_2_2`), or that a Rename
  policy sends to one name, two permits, one retry, two failures. The channel takes
  one chunk, and a third file, with a plain copy into an empty directory
  (`SmallInit`), is what it takes for a cancelled job to leave the walker blocked on
  the full channel: `TreeEnds` fails here without its exception, as `tree_cancel`
  shows. In the code the channel takes two chunks of 100 000 entries or 1024
  scan items. The safety properties are proved for all numbers.
- `live_watch`: one ordinary, one staging and one swap file, two changes of any
  side (a save dance is a save and a rename), one overflow, failed round or failed
  opening. The mode is one-way, whose rounds may do what two-way ones do and leave
  paths besides. Its safety properties are proved for all numbers and both modes.

### Fairness

tokio polls every task that is ready and the main thread returns from every
command it began: weak fairness of each engine, enqueuer, runner and command
under way. In `copy_control` this includes the caller between the flag and
`notify_waiters`. Nothing is assumed of the user, who need never resume or
cancel a copy, nor of the engine reaching the end of its file in `queue_steer`
(`CancelledJobsEnd` holds for a copy that would go on for ever). In
`resume_one` weak fairness of the file's task and of the end of the job is
enough because crashes are bounded; a journal write that fails is a step like one
that succeeds. In TreeCopy the walker has a thread of its
own, the dispatcher, the tasks and the forwarder are polled, and the user
answers every prompt in the end (without that, a parked task keeps its permit
and the job cannot end). In LiveMirror the pump is a thread, loop and drain are
tasks, and windows elapse. No liveness is claimed of folder sync, whose rounds
the user starts, nor of the repository.

Deadlock is checked everywhere. A specification that can run out of work has an
explicit stuttering step for it: the bounds are used up or all tasks have ended.
FolderSync needs none, since another round can always be started. `tree_cancel`
does not check deadlock: the behaviour it shows ends in one, and its property is
the temporal one.

## 4. Where the code and its documentation disagree

With a run that shows the disagreement:

1. `tree_cancel`: on a cancel the dispatcher leaves its receive loop
   (`tree.rs:689`) but keeps the receiver, joins the walker (`tree.rs:850`) and
   waits for a walker that is blocked in `blocking_send` on the full channel.
   The walker's comment expects the opposite: "Receiver dropped - dispatcher
   cancelled mid-walk. Stop walking" (`tree.rs:1208`).
2. `tree_move`: "rename if possible, otherwise copy-then-delete"
   (`options.rs:855`): across devices `move_tree` copies under the default
   options, which skip a file whose destination exists, and then deletes the
   whole source, the skipped file included.
3. `live_mirror`: "Events after the first sync but before the second are NOT
   dropped" (`live_mirror.rs:16`): the coalescing drain reads until the channel
   closes (`live_mirror.rs:250`), which it does not while the drain holds the
   watcher. The timeout gives the drain up, not its lock: from the second pulse
   on, the drain takes every event and the loop waits for the lock.

Met while modelling, each by a sequence the models contain:

4. `route` releases the registry's lock; `enqueue_jobs` looks the queue up again
   and says `expect("just-routed queue must exist in registry")` (`shell.rs:65`).
   Sequences: `Route`, a merge of that queue up to `Unregister`, `GetQueue`; or
   `FindOrSpawn` of a new queue, another command's prune, `Add`, `GetQueue`. If the
   queue goes before `Add`, the job is added all the same: nobody lists it, cancels
   it or runs it. These are the jobs `NoJobLost` calls `late`.
5. A job stays Running ("Engine task is currently running this job",
   `queue.rs:136`) for ever. Sequence: `Start`, a merge of the job's queue,
   `Mark` through the handle of the old queue (`runner.rs:432`), which finds
   nothing. `RunningHasRunner` is therefore checked without merges.
6. "byte-identical to the source's first `resume_offset` bytes by construction"
   (`engine.rs:486`): the prefix is compared with the journal's hash, not with
   the source. Sequence: a checkpoint, `Kill`, `EditSource`, `Begin` resumes.
7. "the prefix bytes already on disk are kept, only the tail gets copied"
   (`ResumePromptModal.svelte`): the row's destination already ends in the
   source's name and gets it appended again. Sequence: `StartCopy`, `BeginJob`,
   `Crash`, `Boot`, `Resume`: the copy starts over one level deeper.
8. "without silent overwrites" (`README.md:61`): `WalkLeft`, `WalkRight`, an
   `Edit` of the receiving side, then the planned copy or deletion
   (`freally-sync/src/engine.rs:592`). `SyncKeepsEdits` speaks of the edits a
   round could see.
9. "no window in which a committed snapshot points at a missing chunk"
   (`repository.rs:61`): if `write_all` fails half way (`store.rs:332`) the file has
   grown and `active.size` has not, and every later row of the pack names a wrong
   offset until the pack is rolled or the store opened again. Sequence: `PutFails`
   by `AppendShort`, then another recording's `PutAppend`, `PutCommit`, `CommitRow`.
   `ImplementsCatalog` excepts these chunks (`astray`) and no others.
10. "persists the new id so a restart resumes it" (`store.rs:521`): `roll_locked`
   changes the active pack in memory before it commits STATS. Sequence: `PutFails`
   by `RollUncommitted`, the old pack's chunks are removed, `GcSweep`, `GcUnlink`,
   `Crash`: the store opens on a pack that is not there (size 0), and no append
   succeeds until it is rolled. `ActivePackExists` excepts this state (`behind`).
11. "Remove every snapshot with ANY damage" (`repository.rs:1887`): a read that fails for
   a reason of the moment is reported as `Corrupt` (`repository.rs:1857`), and repair
   removes the undamaged snapshot. Sequence: `Verify`, `VerifyReadFails`,
   `VerifyEnds`, `Repair`.
12. "resume planner needs to see at least the \"started\" record on a crash"
   (`sink.rs:147`): the index is noted as seen before the write, whose error is
   dropped (`sink.rs:165`, `176`). Sequence: `Checkpoint`, a `Store` that fails: the
   next checkpoints are kept back, and a kill finds no row until the interval has
   passed.

Seen while modelling, without a run of their own:

- A cancel that falls between the runner's decision and its mark is overwritten
  by `mark_completed` or `mark_failed`, so a Cancelled job becomes Succeeded;
  queue and history agree on that (`TerminalRecordsAgree`), but `queue.rs:140`
  calls the state terminal.
- A Pending job that is paused before its runner starts is then shown Running by
  `start`, although its control is paused (`queue.rs:511`).
- `prune_empty` may announce as removed a queue that a late job has kept
  (`queue.rs:1031`).
- `finish_file`, called "idempotent" (`engine.rs:316`), adds to the job's counters
  again when the file is skipped on resume.
- `journal_file_idx` is documented to be monotonic (`options.rs:361`) and is
  always 0.
- Journal: a sweep that fails, at one unreadable row even (`journal.rs:233`), or a
  journal that cannot be opened hides all interrupted jobs for that launch
  (`lib.rs:409`); `discard_all_resumes` clears the list although some deletions
  failed (`commands.rs:2438`), so that those rows are offered again only by the next
  launch; a `finish_job` that fails is ignored, and the finished job offered again.
- The row of a job that was resumed is never settled and is offered again at the
  next launch.
- Sync: the mirror modes keep files found only on the receiver and propagate
  edits made there back (`types.rs:85`); a conflict in contribute mode may write
  to the left; a deletion that meets an identical file created anew reports it
  as deleted and drops the row; the loser of a conflict is an ordinary file to the
  next round, which copies it to the other side, so that a conflict costs the pair
  one more round; vector clocks are stored and never compared; a
  torn copy may win a conflict by its time (the intact version is kept under a
  conflict name).
- `SyncControl::wait_while_paused` loads the flag before it creates the future
  (`freally-sync/src/control.rs:118`), unlike `CopyControl`; `start_sync` looks a
  pair up and inserts it in two steps (`sync_commands.rs:189`).
- The power policy pauses jobs of the legacy queue only (`power.rs:268`).
- Tree copy: the task of a cancelled job that is still queued opens, and so
  truncates, its destination before it looks at its control, and then removes it
  (`engine.rs:391`, `544`, `952`); a cancel does not wake a task parked on a
  prompt, and parked tasks keep their permits; KeepBoth probes a name and opens
  it later (`collision.rs:98`), so two tasks may settle on one name, as they do
  after a rename applied to all; an apply-to-all answer given while the forwarder
  reads metadata does not reach the prompt it then registers; `clear_job` says it
  removes the pending prompts and does not (`collisions.rs:210`); `create_dir_all` failing for a directory of the tree cancels
  the job (`tree.rs:712`) and may leave it waiting as in item 1.
- Repository: retention plans from one look at the catalog and removes in another,
  and `prune_source` does not look at pins; a restore, or the source of a
  replication, reads without the lease that shields `verify` from compaction; the
  pack is not synced before the index commits.
- Live mirror and watch: the stop flag does not wake a waiting loop; a mirror
  restarted while its old loop still waits is taken out of the registry when the
  old loop ends; a rename of an ordinary file onto a swap or lock name is dropped
  whole (`watcher.rs:371`); a removal kept for a path replaces a rename to it, and
  with it the old name; the rescan after an overflow cannot see removals, passes
  over directories it cannot read and stops at a depth of 64 (`watcher.rs:501`,
  `512`); nobody watches the right side; a failed round is not repeated before the
  next pulse.
- `pause_sync` has no counterpart that resumes (`sync_commands.rs:354`), and the
  sync commands save the settings outside the lock they changed them under.

## 5. What is proved

Every property of a passing run that is not a liveness property is a theorem:
`Spec => []Inv`, `Spec => [][A]_vars`, or for Repository the refinement
`Spec => ImplementsCatalog`, for any values of the constants that satisfy the
named `ASSUME`s. These are weak: bounds are natural numbers; commands, modes and
policies are among those the code has; `None`, `Torn` and the tags that share a
set with file names are values of no other kind (`ValuesAssumption`,
`TagsAssumption`); ResumableCopy copies at least one file, TreeCopy finitely many.
The sets of callers, engines, enqueuers, drives, versions, chunks and threads are
arbitrary. Every proof has one step per action, and every inductive invariant
was checked by TLC on the run's instance before it was proved.

**CopyControlProofs**: `TypeCorrect`, `NoWakeupIsLost`, `LateBufferBound`,
`CancelTerminal`. `NoLostWakeup` says nothing of an engine that has loaded the
flag but not yet parked; the invariant adds that an engine from `LoadFlag` on is
armed, and for the late buffer that an engine which has used it is not at its
I/O again before it has looked at the flag.

**QueueRegistryProofs**: `TypeCorrect`, `JobsAreNotDuplicated`, `JobsAreNotLost`,
`DrivesHaveOneQueue`, `CancelIsDelivered`, `OutcomesAgree`, and for users who do not
merge `RunningJobsHaveRunners`. The layers:
- `TypesInv`: types, the ids a queue or command under way may hold.
- `CustodyInv`: every job minted is in one queue, in the hands of the merge
  under way, or removed; the merge's hands are empty outside its steps.
- `UnlistedIsLate`: a queue outside the registry, or about to leave it after a merge
  has drained it, holds late jobs only. With `CustodyInv` this is `NoJobLost`: what
  prune drops is empty when it is looked at, and what a merge drains it carries to
  a queue of the registry.
- `CancelPending`: between the queue's record and the control, the command is
  remembered by the main thread.
- `OutcomeInv`: a job's runner is spawned once (`SpawnOnce`); a record that has
  left the queue its runner knows does not come back (`NoReturn`: it was removed,
  or the queue was merged away); until its runner ends, a job with a cancelled
  control is shown Cancelled (`CancelShown`); a status of "cancelled" was read
  from such a job (`RunnerKnows`). `OutcomesAgree` needs all of them: the mark
  must not miss a record that later reappears, and a cancelled status must not
  meet a record in another state.
- `Started`: only what its runner has started is shown Running. `AtHome` (no
  merges): the queue that holds a job is the one its runner knows, so the mark
  finds the record; with `OutcomeInv` a Running job's runner has not ended.
  Section 4 has the sequence that breaks the theorem once its assumption is dropped.

**ResumableCopyProofs**: `TypeCorrect`, `CompletedCopiesAreSources`,
`RowsArePrefixes`, `SeenRowsExist`. `CompletedIsSource` speaks of finished copies
only; the invariant says what every frame, file and checkpoint on the way holds:
- `Shapes`: what a task hashed is as long as what it wrote and buffered, and only
  the states that flush have checkpoints to write. It holds with edited sources
  too and carries the types.
- `Sound`, as long as no source was edited: a destination holds blocks of its own
  source or garbage a power loss left; a task's hash, buffer and destination are
  runs of its source; every checkpoint in the journal, the sink's map or a flush
  under way describes a prefix of its owner's source, a finished one the whole of
  some source. `some` is where files that share a journal index matter: a resume
  may read another file's row, and only the comparison of the destination's
  prefix with the row's hash keeps it from being taken for its own. Blocks name
  their file, so equal hashes are equal runs (`Run`, `Own` and the lemmas about
  them), and garbage never passes.
- A failing write changes nothing of this: the row stays what it was, and `refused`
  is all that `SeenIsOnDisk` has to except.

**TreeCopyProofs**: `TypeCorrect`, `ReportsAddUp`, `ParkedTasksAreAnswerable`,
`FilesBeforeAreKept`. The invariant follows a file through
the job:
- `Walks`: a name is ahead of the walker, once in the channel, or has a task.
- `Dialogue`: a question in the channel, with the forwarder or registered has a
  parked task, and the other way round, in one place only.
- `Settled`: a task settles on one name for good.
- `Keeps`: under Skip and KeepBoth nobody is asked and no task settles on a name
  that was taken before. The file must be probed before the task settles; that
  the probe is stale when the file is opened does no harm to *these* names, as a
  file from before does not come back.
- `Counts` and `Verdicts`: the counters count the tasks that ended so, the drain
  loop knows the outcome of what it joined, and leaves only when all is joined.
  `Counts` is a fact about cardinalities: files are assumed finite for it.

**RepositoryProofs**: `TypeCorrect`, `ChunksAreStoredOnce`, `ActivePackIsThere`,
`RepairsRemoveOnlyDamaged`, `RepositoryImplementsCatalog`. The store's lemmas say
what a roll, an append, a repoint, an unlink, a sweep and a damaged unit do to
where every chunk is found (`RollStore`, ..., `RotStore`). The invariant:
- `Located`: every row of the index leads to a unit, and unless it is `astray` to
  the bytes of its chunk. `Heads`: unless the last roll's commit failed, the active
  pack is there and the saved one, so a kill and reopen lands where the process was;
  its file is never shorter than `active.size`.
- `Present`: the chunks of a committed snapshot are in the index; `Recorder`: so
  are those a recording no longer has to store, as long as it holds the lease.
  With `Leases` (whoever sweeps or compacts excludes everybody who holds it) this
  is the heart of the refinement: a sweep cannot take what a recording counts on.
- `Mutex`: who holds the active pack's mutex is about to store a chunk the index
  does not have.
- `Doomed`: what maintenance is about to delete is not the active pack, and is
  named by no row when it goes. Compaction rolls first, excludes every put and ends
  with the first append that fails, so that the pack it moves into is as long as
  `active.size` says: it never sends a chunk astray, nor deletes the good copy of
  one.
- `Numbered`: ids below `seq` are handed out, each to one recording or snapshot.
- `Verifier`: a chunk of the snapshot that a report calls damaged is damaged still,
  unless a read failed (`unread`).
  Nothing mends it: puts do not store what the index has, and compaction moves
  the bytes as they are (`Damaged` looks ahead to the row it is about to write).
Under it `Restored(i)` is what was recorded (`RestoresRecorded`), in both states
of a step, so that the catalog depends on the rows alone: `Allocate` is
`HandOut`, a committed row is `Record`, a removal or repair is `Remove`, and every
other step leaves the catalog alone and at most forsakes ids (`Quiet`).

**ResumePromptProofs**: `TypeCorrect`, `InterruptedJobsAreOffered`,
`DiscardIsFinal`. The invariant ties row ids to `SEQ`: nothing at or above
`nextRow` has a row, a task or a place in a list, and the prompt shows a subset
of the list found at boot. While `discard_all_resumes` is at work, what it no longer
has to delete is deleted or `spared`, so that clearing the list forgets no other
row. A bound on the depth of destinations is needed for
the types alone.

**FolderSyncProofs**: `TypeCorrect`, `OneRoundConverges`, `ReceiverIsKept`,
`EditsSurvive`, `NoPingPong`. The invariant `IInv` adds `Current`: as long as no
user has written, what the walks saw is on disk or is what the planned action
has made of it, and the planned action is the one `decide_action` gives for
those; a conflict file that lands on the path counts as such a write. `DecisionIsPlanned`
is the lemma about the decision table that the action
properties rest on; `Stable` adds for `NoPingPong` that a settled pair is one on
which a round decides to do nothing.

**LiveMirrorProofs**: `TypeCorrect`, `PulsesAreNotLost`, `WaitIsInStep`.
`PulseIsOwed` is not inductive: a raw event that is left may be one the filter
drops. `OwedByWatch` says per path what is left for it: a raw event that names it or
may find it (`Tells`), or an entry of the debounce queue or the channel. `Handled`
is what every handler does to the queue, whatever the tracker remembers: nothing
leaves it, and an event about an ordinary file enters it, unless it hides the file;
a path that a rescan or a hiding rename was the last to be about becomes `silent`
in that step. The lemmas `SaveReports`, `DeleteReports` and `MoveReports` are what a
change leaves among the raw events. `MissedIsOwed` carries `WaitIsInStep` through
the first round: what a round under way did not find has changed since the watcher
opened, and what it leaves becomes `silent` when it ends.

### Only model-checked

Liveness (`CancelStopsEngines`, `ResumeUnparks`, `EveryJobGetsARunner`,
`CancelledJobsEnd`, `JobEnds`, `TreeEnds`, `PulseArrives`), which is beyond TLAPS,
and the three violations, which are counterexamples. Conversely the type
invariants of CopyControl, QueueRegistry, ResumePrompt and FolderSync and
`CancelIsTerminal` are proved and no longer spent a run on.

## 6. Limits

- The platform's fast paths (reflink, `CopyFileEx`, `copy_file_range`), sparse
  files, metadata and verification are not told apart: a file is copied, or it
  fails.
- `fdatasync` is taken to mean what it says; hashes to have no collisions; a
  transaction of SQLite or redb that succeeds to be atomic and durable.
- QueueRegistry does not order the jobs of a queue. `pause_all` and its siblings
  are the one-job commands in sequence.
- FolderSync has one path. Rounds treat paths independently, except for conflict
  files, which land on a path as `ConflictLands`, and for the order of execution and
  the count of conflicts, which no property reads. Its properties do not speak of
  what is written at a path during a round (`touched`; section 4, item 8). A round has
  one pair; the registry of running syncs is to come.
- QueueRegistry's enqueuers are those of `enqueue_jobs`; `queue_route_job`, which
  routes a job without spawning a runner, is left out.
- Repository leaves out codecs, keys, annotations and pins, restores, importers and
  scheduled maintenance; a retention policy is any choice it could make.
- TreeCopy leaves out symlinks, directory times and pausing. One file is one chunk
  of the walk; a job has at most one rule, which matches every file; one kind of
  error stands for all of them.
- LiveMirror does not reach the limit of 1024 of the watcher's output channel, and
  has one mirror, started once. Which paths a one-way round leaves is any choice.
- Walks and hashes of a file that changes while it is read are covered only by
  what they return, an old or a new version.
- Not modelled at all: cryptography, device commands, network servers, mounts,
  rendering; see the notes in `PROJECT.json`.

## 7. Plan

Done: CopyControl, QueueRegistry, ResumableCopy, ResumePrompt, FolderSync,
TreeCopy, SnapshotCatalog and Repository, LiveMirror, and the proofs above. In
order of importance:

1. Sync steering and the registry of running syncs (`control.rs`,
   `sync_commands.rs`), and the lattice laws of `VersionVector` as lemmas.
2. The audit chain over rotation and restart; the power policy against the
   user's pauses.
3. The token bucket, and version retention against a reference definition.
4. An abstract job (offered, running, parked, over) that the queue's and the
   runner's steps implement, and CopyControl as the implementation of the
   runner's wait.
5. Snapshot leases, drop stack, plugin hooks, mobile pairing, the helper.
