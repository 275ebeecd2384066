--------------------------- MODULE ResumableCopy ---------------------------
(***************************************************************************)
(* Checkpointed copies: the copy loop and the resume decision of the       *)
(* engine (crates/freally-core/src/engine.rs), the batching journal sink   *)
(* (crates/freally-journal/src/sink.rs) and the redb tables behind it      *)
(* (crates/freally-journal/src/journal.rs), across process kills and power *)
(* losses.  A killed job is run again on its own journal row with a new    *)
(* sink, the way tests/smoke/phase_20_resume.rs does it.                   *)
(*                                                                         *)
(* One job, whose journal row and sink serve one task per file.  A file is *)
(* a sequence of blocks, one per buffer; a block is the source and version *)
(* it was read from, or Garbage for bytes of no source (an older           *)
(* destination, or what a power loss leaves).  BLAKE3 is taken to be       *)
(* injective: the hash of a prefix is the prefix.  redb transactions are   *)
(* atomic and durable, but any of them may fail: the sink drops the error. *)
(* The sink's mutex covers only its in-memory map, so *)
(* the transactions of two tasks interleave freely.                        *)
(***************************************************************************)
EXTENDS Integers, Sequences, FiniteSets

CONSTANTS Files,       \* the files of the job, copied concurrently
          IdxOf(_),    \* journal_file_idx each file's task reports
          Idx,         \* the indices in use
          Blocks,      \* bound on the length of a source
          MaxCrashes,  \* bound on process kills and power losses
          MaxEdits     \* bound on changes of a source by others

ASSUME BoundsAssumption ==
  Blocks \in Nat \ {0} /\ MaxCrashes \in Nat /\ MaxEdits \in Nat
ASSUME FilesAssumption == Files \subseteq Nat \ {0} /\ Files # {}
ASSUME IdxAssumption == \A f \in Files : IdxOf(f) \in Idx

VARIABLES
  src,      \* version and length of each source
  dst,      \* blocks of each destination (empty: missing or empty)
  synced,   \* blocks of each destination a power loss cannot touch
  row,      \* FILES table: the checkpoint stored under each index
  job,      \* JOBS table: "Ended" stands for the terminal statuses
  pending,  \* sink: the latest checkpoint not yet written, per index
  seen,     \* sink: seen_on_disk
  task,     \* the engine task of each file
  refused,  \* history: indices whose latest write by this process failed
  ending,   \* the drained writes of finish_job_*, once it has begun
  crashes, edits

vars == <<src, dst, synced, row, job, pending, seen, refused, task, ending,
          crashes, edits>>
sinkVars == <<pending, seen, refused>>
diskVars == <<dst, synced>>
boundVars == <<crashes, edits>>

Garbage == <<0, 0>>
Block(f) == <<f, src[f].version>>
BlockValues == (Files \X (1 .. MaxEdits + 1)) \union {Garbage}
Contents == UNION {[1 .. n -> BlockValues] : n \in 0 .. Blocks + 1}
Source(f) == [i \in 1 .. src[f].len |-> Block(f)]

\* A FileCheckpoint; bytes = 0 stands for no row.  hash is final_hash once
\* finished, hash_so_far before.
Checkpoints == [owner : Files, bytes : 0 .. Blocks, total : 0 .. Blocks,
                hash : Contents, finished : BOOLEAN]
NoRow == [owner |-> CHOOSE f \in Files : TRUE, bytes |-> 0, total |-> 0,
          hash |-> <<>>, finished |-> FALSE]

Fresh == [pc |-> "idle", total |-> 0, copied |-> 0, hasher |-> <<>>,
          buf |-> <<>>, verify |-> FALSE, writes |-> {}]

TaskPcs == {"idle", "plan", "copy", "checkpoint", "finish", "finish_file",
            "done", "failed"}

\* The state of copy_file's frame, and the checkpoints its flush is writing.
Tasks == [pc : TaskPcs, total : 0 .. Blocks, copied : 0 .. Blocks, hasher : Contents,
          buf : Contents, verify : BOOLEAN, writes : SUBSET (Idx \X Checkpoints)]

TypeOK ==
  /\ src \in [Files -> [version : 1 .. MaxEdits + 1, len : 1 .. Blocks]]
  /\ dst \in [Files -> Contents]
  /\ synced \in [Files -> 0 .. Blocks + 1]
  /\ \A f \in Files : synced[f] =< Len(dst[f])
  /\ row \in [Idx -> Checkpoints]
  /\ job \in {"Running", "Ended"}
  /\ pending \in [Idx -> Checkpoints]
  /\ seen \in SUBSET Idx
  /\ refused \in SUBSET Idx
  /\ task \in [Files -> Tasks]
  /\ ending \in [begun : BOOLEAN, over : BOOLEAN, writes : SUBSET (Idx \X Checkpoints)]
  /\ crashes \in 0 .. MaxCrashes
  /\ edits \in 0 .. MaxEdits

Init ==
  /\ src \in [Files -> [version : {1}, len : 1 .. Blocks]]
  /\ dst \in [Files -> {<<>>, [i \in 1 .. Blocks + 1 |-> Garbage]}]
  /\ synced = [f \in Files |-> Len(dst[f])]
  /\ row = [i \in Idx |-> NoRow]
  /\ job = "Running"
  /\ pending = [i \in Idx |-> NoRow]
  /\ seen = {}
  /\ refused = {}
  /\ task = [f \in Files |-> Fresh]
  /\ ending = [begun |-> FALSE, over |-> FALSE, writes |-> {}]
  /\ crashes = 0
  /\ edits = 0

-----------------------------------------------------------------------------
(* The journal sink.                                                       *)

\* The entries of the pending map among the given indices.
PendingOf(is, p) == {<<i, p[i]>> : i \in {k \in is : p[k].bytes > 0}}

Without(is, p) == [i \in Idx |-> IF i \in is THEN NoRow ELSE p[i]]

\* Journal::checkpoint as one transaction; an error is dropped, and the entry
\* with it.
Store(w) ==
  \/ /\ row' = [row EXCEPT ![w[1]] = w[2]]
     /\ refused' = refused \ {w[1]}
  \/ /\ refused' = refused \union {w[1]}
     /\ UNCHANGED row

\* One drained entry (the map is drained in no particular order).
WriteThrough(f) ==
  /\ \E w \in task[f].writes :
       /\ Store(w)
       /\ task' = [task EXCEPT ![f].writes = @ \ {w}]
  /\ UNCHANGED <<src, diskVars, job, pending, seen, ending, boundVars>>

-----------------------------------------------------------------------------
(* The engine: copy_file.                                                  *)

\* The source is measured.  A missing or empty destination needs no plan; for
\* any other, resume_plan first flushes what is pending for this index.
Start(f, verify) ==
  /\ task[f].pc = "idle"
  /\ job = "Running"
  /\ LET t == [Fresh EXCEPT !.total = src[f].len, !.verify = verify]
         i == IdxOf(f)
     IN \/ /\ dst[f] = <<>>
           /\ task' = [task EXCEPT ![f] = [t EXCEPT !.pc = "copy"]]
           /\ UNCHANGED pending
        \/ /\ dst[f] # <<>>
           /\ task' = [task EXCEPT ![f] =
                [t EXCEPT !.pc = "plan", !.writes = PendingOf({i}, pending)]]
           /\ pending' = Without({i}, pending)
  /\ UNCHANGED <<src, diskVars, row, job, seen, refused, ending, boundVars>>

\* Mutant: the prefix is trusted if it is long enough.
DecisionByLength(f) ==
  LET r == row[IdxOf(f)]
  IN CASE r.bytes = 0 -> "fresh"
       [] r.bytes > 0 /\ r.finished -> IF Len(dst[f]) = task[f].total THEN "complete" ELSE "fresh"
       [] OTHER -> IF Len(dst[f]) >= r.bytes THEN "resume" ELSE "fresh"

\* decide_resume on the row read by resume_plan.
Decision(f) ==
  LET r == row[IdxOf(f)]
  IN CASE r.bytes = 0 -> "fresh"
       [] r.bytes > 0 /\ r.finished -> IF Len(dst[f]) = task[f].total /\ dst[f] = r.hash
                                          THEN "complete" ELSE "fresh"
       [] OTHER -> IF /\ ~task[f].verify
                      /\ Len(dst[f]) >= r.bytes
                      /\ SubSeq(dst[f], 1, r.bytes) = r.hash
                     THEN "resume" ELSE "fresh"

\* Open for the decision: truncate, or cut to the offset and prime the hasher
\* with the prefix, or skip the copy.  A failing re-read of the destination
\* falls back to a fresh start too.
BeginAs(f, decision) ==
  \/ /\ decision = "fresh"
     /\ dst' = [dst EXCEPT ![f] = <<>>]
     /\ synced' = [synced EXCEPT ![f] = 0]
     /\ task' = [task EXCEPT ![f].pc = "copy"]
  \/ /\ decision = "resume"
     /\ LET offset == row[IdxOf(f)].bytes
            prefix == SubSeq(dst[f], 1, offset)
        IN /\ dst' = [dst EXCEPT ![f] = prefix]
           /\ synced' = [synced EXCEPT ![f] = IF @ > offset THEN offset ELSE @]
           /\ task' = [task EXCEPT ![f].pc = "copy", ![f].copied = offset,
                                   ![f].hasher = prefix]
  \/ /\ decision = "complete"
     /\ task' = [task EXCEPT ![f].pc = "finish",
                             ![f].hasher = row[IdxOf(f)].hash]
     /\ UNCHANGED diskVars

\* Mutant: the hasher of a resumed copy starts empty.
BeginUnprimed(f) ==
  /\ task[f].pc = "plan"
  /\ task[f].writes = {}
  /\ \/ /\ Decision(f) = "resume"
        /\ dst' = [dst EXCEPT ![f] = SubSeq(@, 1, row[IdxOf(f)].bytes)]
        /\ task' = [task EXCEPT ![f].pc = "copy",
                                ![f].copied = row[IdxOf(f)].bytes]
        /\ UNCHANGED synced
     \/ Decision(f) # "resume" /\ BeginAs(f, Decision(f))
  /\ UNCHANGED <<src, row, job, sinkVars, ending, boundVars>>

\* Mutant: a mismatch does not fall through to a fresh start.
BeginWithoutFallback(f) ==
  /\ task[f].pc = "plan"
  /\ task[f].writes = {}
  /\ row[IdxOf(f)].bytes = 0 \/ Decision(f) # "fresh"
  /\ BeginAs(f, Decision(f))
  /\ UNCHANGED <<src, row, job, sinkVars, ending, boundVars>>

Begin(f) ==
  /\ task[f].pc = "plan"
  /\ task[f].writes = {}
  /\ BeginAs(f, Decision(f)) \/ BeginAs(f, "fresh")
  /\ UNCHANGED <<src, row, job, sinkVars, ending, boundVars>>

\* Mutant: the loop does not stop at the end of the source.
MoveBlockPastEof(f) ==
  /\ task[f].pc = "copy"
  /\ task' = [task EXCEPT ![f].copied = @ + 1,
                          ![f].hasher = Append(@, Block(f)),
                          ![f].buf = <<>>]
  /\ dst' = [dst EXCEPT ![f] = Append(@, Block(f))]
  /\ UNCHANGED <<src, synced, row, job, sinkVars, ending, boundVars>>

\* One turn of the loop.  The block reaches the file now or stays in the
\* BufWriter behind it until the next write or flush; whether a checkpoint is
\* due depends on bytes and time.
MoveBlock(f) ==
  /\ task[f].pc = "copy"
  /\ task[f].writes = {}
  /\ task[f].copied < src[f].len
  /\ \E through \in BOOLEAN, due \in BOOLEAN :
       LET b == <<Block(f)>>
       IN /\ dst' = [dst EXCEPT ![f] = @ \o task[f].buf \o IF through THEN b ELSE <<>>]
          /\ task' = [task EXCEPT ![f].pc = IF due THEN "checkpoint" ELSE "copy",
                                  ![f].copied = @ + 1,
                                  ![f].hasher = @ \o b,
                                  ![f].buf = IF through THEN <<>> ELSE b]
  /\ UNCHANGED <<src, synced, row, job, sinkVars, ending, boundVars>>

\* Mutant: an index counts as on disk as soon as it is stashed.
CheckpointSeenEarly(f) ==
  /\ task[f].pc = "checkpoint"
  /\ LET i == IdxOf(f)
         cp == [owner |-> f, bytes |-> task[f].copied, total |-> task[f].total,
                hash |-> task[f].hasher, finished |-> FALSE]
     IN /\ pending' = [pending EXCEPT ![i] = cp]
        /\ seen' = seen \union {i}
        /\ task' = [task EXCEPT ![f].pc = "copy", ![f].buf = <<>>]
  /\ dst' = [dst EXCEPT ![f] = @ \o task[f].buf]
  /\ UNCHANGED <<src, synced, row, job, refused, ending, boundVars>>

\* flush, fdatasync (a failure is only logged), then the sink: stash, and drain
\* the whole map if this index never reached the disk or FLUSH_INTERVAL is over.
Checkpoint(f) ==
  /\ task[f].pc = "checkpoint"
  /\ dst' = [dst EXCEPT ![f] = @ \o task[f].buf]
  /\ \E n \in {synced[f], Len(dst'[f])} : synced' = [synced EXCEPT ![f] = n]
  /\ LET i == IdxOf(f)
         cp == [owner |-> f, bytes |-> task[f].copied, total |-> task[f].total,
                hash |-> task[f].hasher, finished |-> FALSE]
         stashed == [pending EXCEPT ![i] = cp]
         drained == PendingOf(Idx, stashed)
     IN \/ /\ pending' = Without(Idx, pending)
           /\ seen' = seen \union {w[1] : w \in drained}
           /\ task' = [task EXCEPT ![f].pc = "copy", ![f].buf = <<>>,
                                   ![f].writes = drained]
        \/ /\ i \in seen
           /\ pending' = stashed
           /\ task' = [task EXCEPT ![f].pc = "copy", ![f].buf = <<>>]
           /\ UNCHANGED seen
  /\ UNCHANGED <<src, row, job, refused, ending, boundVars>>

\* End of file: flush, fsync if configured, verify pass if configured (a
\* failure of any of them is Fail).
Eof(f) ==
  /\ task[f].pc = "copy"
  /\ task[f].writes = {}
  /\ task[f].copied >= src[f].len
  /\ dst' = [dst EXCEPT ![f] = @ \o task[f].buf]
  /\ \E n \in {synced[f], Len(dst'[f])} : synced' = [synced EXCEPT ![f] = n]
  /\ task' = [task EXCEPT ![f].buf = <<>>, ![f].pc = "finish"]
  /\ UNCHANGED <<src, row, job, sinkVars, ending, boundVars>>

\* Sink::finish_file drains this index ...
FinishFlush(f) ==
  /\ task[f].pc = "finish"
  /\ task' = [task EXCEPT ![f].pc = "finish_file",
                          ![f].writes = PendingOf({IdxOf(f)}, pending)]
  /\ pending' = Without({IdxOf(f)}, pending)
  /\ UNCHANGED <<src, diskVars, row, job, seen, refused, ending, boundVars>>

\* ... then Journal::finish_file, one transaction.  The counters it adds to in
\* the job's row are left out.  A file that never had a checkpoint has no row:
\* NotFound, ignored by the sink like any other error.
FinishFile(f) ==
  /\ task[f].pc = "finish_file"
  /\ task[f].writes = {}
  /\ LET i == IdxOf(f)
     IN \/ /\ row[i].bytes > 0
           /\ row' = [row EXCEPT ![i].bytes =
                        IF row[i].total > row[i].bytes THEN row[i].total ELSE @,
                      ![i].hash = task[f].hasher, ![i].finished = TRUE]
        \/ UNCHANGED row
  /\ task' = [task EXCEPT ![f].pc = "done"]
  /\ UNCHANGED <<src, diskVars, job, sinkVars, ending, boundVars>>

\* A read, write, flush, fsync or verify error, or a cancel: finalize_error,
\* where keep_partial decides whether the destination is removed.  The buffered
\* block may have reached it before.
Fail(f) ==
  /\ task[f].pc = "copy"
  /\ task[f].writes = {}
  /\ \E d \in {dst[f], dst[f] \o task[f].buf, <<>>} :
       /\ dst' = [dst EXCEPT ![f] = d]
       /\ synced' = [synced EXCEPT ![f] = IF d = <<>> THEN 0 ELSE @]
  /\ task' = [task EXCEPT ![f].pc = "failed"]
  /\ UNCHANGED <<src, row, job, sinkVars, ending, boundVars>>

-----------------------------------------------------------------------------
(* The end of the job: finish_job_succeeded / _failed / _cancelled.        *)

JobDrain ==
  /\ job = "Running"
  /\ ~ending.begun
  /\ \A f \in Files : task[f].pc \in {"done", "failed"}
  /\ ending' = [begun |-> TRUE, over |-> FALSE, writes |-> PendingOf(Idx, pending)]
  /\ pending' = Without(Idx, pending)
  /\ UNCHANGED <<src, diskVars, row, job, seen, refused, task, boundVars>>

JobWrite ==
  /\ \E w \in ending.writes :
       /\ Store(w)
       /\ ending' = [ending EXCEPT !.writes = @ \ {w}]
  /\ UNCHANGED <<src, diskVars, job, pending, seen, task, boundVars>>

\* Journal::finish_job.  If it fails the job is over and its row says Running,
\* so that it will be offered, and run, again.
FinishJob ==
  /\ ending.begun /\ ~ending.over
  /\ ending.writes = {}
  /\ job' \in {"Ended", "Running"}
  /\ ending' = [ending EXCEPT !.over = TRUE]
  /\ UNCHANGED <<src, diskVars, row, sinkVars, task, boundVars>>

-----------------------------------------------------------------------------
(* The environment.                                                        *)

\* Everything in memory is gone; the job is run again on its journal row with
\* a new sink.
MemoryLost ==
  /\ job = "Running"
  /\ crashes < MaxCrashes
  /\ crashes' = crashes + 1
  /\ task' = [f \in Files |-> Fresh]
  /\ pending' = Without(Idx, pending)
  /\ seen' = {}
  /\ refused' = {}
  /\ ending' = [begun |-> FALSE, over |-> FALSE, writes |-> {}]
  /\ UNCHANGED <<src, row, job, edits>>

\* The process is killed: the page cache survives.
Kill == MemoryLost /\ UNCHANGED diskVars

\* Power is lost: what was not synced may be cut off or not be the data.
PowerLoss ==
  /\ MemoryLost
  /\ \E n, good \in [Files -> 0 .. Blocks + 1] :
       /\ \A f \in Files : synced[f] <= good[f] /\ good[f] <= n[f]
                           /\ n[f] <= Len(dst[f])
       /\ dst' = [f \in Files |->
                   [i \in 1 .. n[f] |-> IF i <= good[f] THEN dst[f][i] ELSE Garbage]]
       /\ synced' = n

\* Somebody replaces the contents of a source.
EditSource(f) ==
  /\ edits < MaxEdits
  /\ edits' = edits + 1
  /\ \E n \in 1 .. Blocks :
       src' = [src EXCEPT ![f] = [version |-> @.version + 1, len |-> n]]
  /\ UNCHANGED <<diskVars, row, job, sinkVars, task, ending, crashes>>

TaskStep(f) ==
  \/ \E v \in BOOLEAN : Start(f, v)
  \/ Begin(f) \/ MoveBlock(f) \/ Checkpoint(f) \/ Eof(f)
  \/ FinishFlush(f) \/ FinishFile(f) \/ Fail(f) \/ WriteThrough(f)

JobStep == JobDrain \/ JobWrite \/ FinishJob

Over == ending.over /\ UNCHANGED vars

Next ==
  \/ \E f \in Files : TaskStep(f) \/ EditSource(f)
  \/ JobStep
  \/ Kill \/ PowerLoss
  \/ Over

Spec == Init /\ [][Next]_vars

\* The runtime polls every task; crashes and edits are finitely many.
FairSpec ==
  /\ Spec
  /\ \A f \in Files : WF_vars(TaskStep(f))
  /\ WF_vars(JobStep)

-----------------------------------------------------------------------------
(* Properties.                                                             *)

\* A copy reported as complete holds the source, whatever was killed, lost,
\* resumed, restarted or skipped before, if nobody edited a source meanwhile.
CompletedIsSource ==
  edits = 0 => \A f \in Files : task[f].pc = "done" => dst[f] = Source(f)

\* Every checkpoint in the journal describes a prefix of the source it names
\* (a finished one, all of some source sharing the index).
RowIsSourcePrefix ==
  edits = 0 => \A i \in Idx : row[i].bytes > 0 =>
    IF row[i].finished THEN \E f \in Files : row[i].hash = Source(f)
    ELSE row[i].hash = SubSeq(Source(row[i].owner), 1, row[i].bytes)

\* An index in seen_on_disk has a row, or a task is about to write one, unless
\* its latest write failed: only then does the sink keep back checkpoints of a
\* file that a kill would find without a record to resume from.
SeenIsOnDisk ==
  \A i \in seen \ refused :
    row[i].bytes > 0 \/ \E f \in Files : \E w \in task[f].writes : w[1] = i

\* However the copy is interrupted and whatever the journal refuses, the job
\* ends once crashes stop.
JobEnds == <>[](ending.over)
=============================================================================
