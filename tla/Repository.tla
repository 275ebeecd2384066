----------------------------- MODULE Repository -----------------------------
(***************************************************************************)
(* The backup repository of crates/freally-chunk: the catalog of snapshots *)
(* (repository.rs) over the content-addressed chunk store (store.rs), with *)
(* backups recording concurrently, gc, compaction, retention, verification *)
(* and repair, and the process killed between any two commits.             *)
(*                                                                         *)
(* A chunk is named by its hash; all chunks take one unit of a pack file,  *)
(* so an offset is a position.  Codecs, paths and annotations (pins too)   *)
(* are left out; a snapshot is the set of chunks its manifests name and    *)
(* the retention policies are any choice they could make.  Each redb       *)
(* transaction, append and deletion is one step; an append may stop short, *)
(* and a transaction fail after memory was changed (the store's failing    *)
(* calls, below).                                                          *)
(***************************************************************************)
EXTENDS Integers, Sequences, FiniteSets

CONSTANTS Chunks,     \* contents
          None,
          Threads,    \* that record (backup, versioning, replication) or verify
          MaxSnaps,   \* bound on snapshot ids
          MaxPacks,   \* bound on pack files, for each of them
          Rollovers,  \* choices of rollover_bytes, in chunks
          MaxSweeps,  \* bound on runs of gc and compact between kills
          MaxFaults   \* bound on kills, failed calls and units the disk damages

ASSUME BoundsAssumption ==
  /\ Rollovers \subseteq Nat \ {0}
  /\ MaxSnaps \in Nat \ {0}
  /\ MaxPacks \in [Rollovers -> Nat \ {0}]
  /\ {MaxSweeps, MaxFaults} \subseteq Nat

VARIABLES
  \* on disk
  rows,    \* SNAPSHOTS and SUMMARIES
  seq,     \* SEQ: next snapshot id
  index,   \* CHUNKS: where the store keeps each chunk
  packs,   \* the pack files
  stats,   \* STATS: active_pack_id
  \* in memory
  rollover,\* ChunkStore's rollover_bytes
  active,  \* ActivePack, guarded by its mutex
  lock,    \* holder of that mutex
  lease,   \* holders of the read side of gc_lock
  th,      \* the threads that record or verify
  mt,      \* the maintenance thread (gc_lock's write side admits one)
  \* history
  behind,  \* STATS lags: the last roll's commit failed ("no" again after the next)
  astray,  \* chunks whose row was committed after a short append to its pack
  sweeps, faults

vars == <<rows, seq, index, packs, stats, rollover, active, lock, lease, th, mt, behind, astray,
          sweeps, faults>>
disk == <<rows, seq, index, packs, stats, rollover, behind, astray>>
store == <<index, packs, stats, rollover, active, behind, astray>>

SnapIds == 1 .. MaxSnaps
PackIds == 1 .. MaxPacks[rollover]
Units == [data : Chunks \union {None}, sound : BOOLEAN]
Torn == [data |-> None, sound |-> FALSE]      \* what a short append leaves
Locators == [pack : PackIds, offset : 0 .. rollover - 1]

\* None is no value of its own.
ASSUME ValuesAssumption ==
  /\ None \notin Chunks /\ None \notin Threads
  /\ None \notin Units /\ None \notin Seq(Units)
  /\ \A S \in SUBSET Chunks : S # None
  /\ None \notin [pack : Nat, offset : Nat]

IdleThread ==
  [pc |-> "idle", files |-> {}, todo |-> {}, chunk |-> None, id |-> 0, loc |-> None, bad |-> FALSE,
   unread |-> FALSE]
IdleMaintenance == [pc |-> "idle", dead |-> {}, from |-> 0, chunk |-> None]

TypeOK ==
  /\ rows \in [SnapIds -> (SUBSET Chunks) \union {None}]
  /\ seq \in 1 .. MaxSnaps + 1
  /\ index \in [Chunks -> Locators \union {None}]
  /\ packs \in [PackIds -> Seq(Units) \union {None}]
  /\ stats \in PackIds
  /\ rollover \in Rollovers
  /\ active \in [id : PackIds, size : Nat]
  /\ lock \in Threads \union {None}
  /\ lease \subseteq Threads
  /\ th \in [Threads ->
               [pc : {"idle", "put", "append", "commit", "row", "locate", "read", "report"},
                files : SUBSET Chunks, todo : SUBSET Chunks, chunk : Chunks \union {None},
                id : SnapIds \union {0}, loc : Locators \union {None}, bad : BOOLEAN,
                unread : BOOLEAN]]
  /\ mt \in [pc : {"idle", "gc", "unlink", "roll", "pick", "move", "repoint"},
             dead : SUBSET PackIds, from : PackIds \union {0}, chunk : Chunks \union {None}]
  /\ behind \in {"yes", "no"}
  /\ astray \subseteq Chunks
  /\ sweeps \in 0 .. MaxSweeps
  /\ faults \in 0 .. MaxFaults

\* ChunkStore::open on an empty directory makes the first pack.
Init ==
  /\ rollover \in Rollovers
  /\ rows = [i \in SnapIds |-> None]
  /\ seq = 1
  /\ index = [c \in Chunks |-> None]
  /\ packs = [p \in PackIds |-> IF p = 1 THEN <<>> ELSE None]
  /\ stats = 1
  /\ active = [id |-> 1, size |-> 0]
  /\ lock = None
  /\ lease = {}
  /\ th = [t \in Threads |-> IdleThread]
  /\ mt = IdleMaintenance
  /\ behind = "no"
  /\ astray = {}
  /\ sweeps = 0
  /\ faults = 0

-----------------------------------------------------------------------------
(* The chunk store.                                                        *)

\* get_range: the unit a locator names, None past the end or without the file.
Unit(loc) ==
  IF loc # None /\ packs[loc.pack] # None /\ loc.offset < Len(packs[loc.pack])
    THEN packs[loc.pack][loc.offset + 1] ELSE None

\* get: the bytes read back hash to the chunk's name.
Readable(c) == LET u == Unit(index[c]) IN u # None /\ u.data = c /\ u.sound

InPack(p) == {c \in Chunks : index[c] # None /\ index[c].pack = p}

\* Pack names are uuids.  The model reuses the number of a deleted pack only when
\* nothing names it any more.
Fresh(p) ==
  /\ packs[p] = None
  /\ p \notin {stats, active.id}
  /\ InPack(p) = {}

NewPack == CHOOSE p \in PackIds : Fresh(p)
HasFresh == \E p \in PackIds : Fresh(p)

\* Mutant: the new active pack's id is not persisted.
RollUnsaved ==
  /\ HasFresh
  /\ packs' = [packs EXCEPT ![NewPack] = <<>>]
  /\ active' = [id |-> NewPack, size |-> 0]
  /\ UNCHANGED <<index, stats, rollover, behind, astray>>

\* roll_locked: create the file, make it the active pack, persist its id.
Roll ==
  /\ HasFresh
  /\ packs' = [packs EXCEPT ![NewPack] = <<>>]
  /\ active' = [id |-> NewPack, size |-> 0]
  /\ stats' = NewPack
  /\ behind' = "no"
  /\ UNCHANGED <<index, rollover, astray>>

\* write_all on the active pack, opened for append.
AppendUnit(u) ==
  /\ active.size < rollover
  /\ packs[active.id] # None
  /\ packs' = [packs EXCEPT ![active.id] = Append(@, u)]
  /\ active' = [active EXCEPT !.size = @ + 1]
  /\ UNCHANGED <<index, stats, rollover, behind, astray>>

\* Mutant: the row names the byte after the chunk.
RepointPastEnd(c) ==
  /\ index' = [index EXCEPT ![c] = [pack |-> active.id, offset |-> active.size]]
  /\ UNCHANGED <<packs, stats, rollover, active, behind>>

\* The row of a chunk just appended: the offset is what active.size was.
Repoint(c) ==
  /\ index' = [index EXCEPT ![c] = [pack |-> active.id, offset |-> active.size - 1]]
  /\ UNCHANGED <<packs, stats, rollover, active, behind>>

\* active.size is the length of the file it is about.
Aligned == active.size = Len(packs[active.id])

(* The failing calls, which end their caller.                              *)

Fault == faults < MaxFaults /\ faults' = faults + 1

\* roll_locked's commit fails: memory already has the new pack, STATS the old.
RollUncommitted ==
  /\ HasFresh
  /\ packs' = [packs EXCEPT ![NewPack] = <<>>]
  /\ active' = [id |-> NewPack, size |-> 0]
  /\ behind' = "yes"
  /\ UNCHANGED <<index, stats, rollover, astray>>

\* write_all fails half way: the file has grown, active.size has not.
AppendShort ==
  /\ active.size < rollover
  /\ packs[active.id] # None
  /\ packs' = [packs EXCEPT ![active.id] = Append(@, Torn)]
  /\ UNCHANGED <<index, stats, rollover, active, behind, astray>>

-----------------------------------------------------------------------------
(* Recording a snapshot: snapshot_bytes, snapshot_files, snapshot_source   *)
(* and, on the receiving side, replicate_to.                               *)

Set(t, r) == th' = [th EXCEPT ![t] = r]

\* The bounds leave a recording no snapshot id or no pack to go on with.
Exhausted == seq > MaxSnaps \/ ~HasFresh

\* Mutant: the chunks are stored before the lease is taken.
BeginUnleased(t, S) ==
  /\ th[t].pc = "idle"
  /\ ~Exhausted
  /\ Set(t, [IdleThread EXCEPT !.pc = "put", !.files = S, !.todo = S])
  /\ UNCHANGED <<disk, active, lock, lease, mt, sweeps, faults>>

\* gc's write lease is held from its sweep to its last step.
Excluded == mt.pc \in {"unlink", "roll", "pick", "move", "repoint"}

\* read_lease, then the walk.
Begin(t, S) ==
  /\ th[t].pc = "idle"
  /\ ~Exhausted
  /\ ~Excluded
  /\ lease' = lease \union {t}
  /\ Set(t, [IdleThread EXCEPT !.pc = "put", !.files = S, !.todo = S])
  /\ UNCHANGED <<disk, active, lock, mt, sweeps, faults>>

\* put_chunk finds the chunk without the mutex.
PutDedup(t) ==
  /\ th[t].pc = "put"
  /\ \E c \in th[t].todo :
       /\ index[c] # None
       /\ Set(t, [th[t] EXCEPT !.todo = @ \ {c}])
  /\ UNCHANGED <<disk, active, lock, lease, mt, sweeps, faults>>

\* It does not, and goes on to take the mutex.
PutMiss(t) ==
  /\ th[t].pc = "put"
  /\ \E c \in th[t].todo :
       /\ index[c] = None
       /\ Set(t, [th[t] EXCEPT !.pc = "append", !.chunk = c])
  /\ UNCHANGED <<disk, active, lock, lease, mt, sweeps, faults>>

\* Mutant: the index is not read again under the mutex.
LockUnchecked(t) ==
  /\ th[t].pc = "append"
  /\ lock = None
  /\ lock' = t
  /\ UNCHANGED <<disk, active, lease, th, mt, sweeps, faults>>

\* The mutex is taken and the index read again: another writer may have stored
\* the chunk meanwhile.
PutLocked(t) ==
  /\ th[t].pc = "append"
  /\ lock = None
  /\ LET c == th[t].chunk
     IN \/ /\ index[c] = None
           /\ lock' = t
           /\ UNCHANGED th
        \/ /\ index[c] # None
           /\ Set(t, [th[t] EXCEPT !.pc = "put", !.todo = @ \ {c}, !.chunk = None])
           /\ UNCHANGED lock
  /\ UNCHANGED <<disk, active, lease, mt, sweeps, faults>>

PutRoll(t) ==
  /\ th[t].pc = "append"
  /\ lock = t
  /\ active.size >= rollover
  /\ Roll
  /\ UNCHANGED <<rows, seq, lock, lease, th, mt, sweeps, faults>>

PutAppend(t) ==
  /\ th[t].pc = "append"
  /\ lock = t
  /\ AppendUnit([data |-> th[t].chunk, sound |-> TRUE])
  /\ Set(t, [th[t] EXCEPT !.pc = "commit"])
  /\ UNCHANGED <<rows, seq, lock, lease, mt, sweeps, faults>>

PutCommit(t) ==
  /\ th[t].pc = "commit"
  /\ Repoint(th[t].chunk)
  /\ astray' = IF Aligned THEN astray \ {th[t].chunk} ELSE astray \union {th[t].chunk}
  /\ lock' = None
  /\ Set(t, [th[t] EXCEPT !.pc = "put", !.todo = @ \ {th[t].chunk}, !.chunk = None])
  /\ UNCHANGED <<rows, seq, lease, mt, sweeps, faults>>

\* The roll or the append fails; put_chunk returns the error, which ends the
\* recording.
PutFails(t) ==
  /\ th[t].pc = "append"
  /\ lock = t
  /\ Fault
  /\ AppendShort \/ (active.size >= rollover /\ RollUncommitted)
  /\ Set(t, IdleThread)
  /\ lease' = lease \ {t}
  /\ lock' = None
  /\ UNCHANGED <<rows, seq, mt, sweeps>>

\* allocate_snapshot_id, a transaction of its own.
Allocate(t) ==
  /\ th[t].pc = "put"
  /\ th[t].todo = {}
  /\ seq \in SnapIds
  /\ seq' = seq + 1
  /\ Set(t, [th[t] EXCEPT !.pc = "row", !.id = seq])
  /\ UNCHANGED <<rows, store, lock, lease, mt, sweeps, faults>>

\* record_inner commits row and summary, and the lease is dropped.
CommitRow(t) ==
  /\ th[t].pc = "row"
  /\ rows' = [rows EXCEPT ![th[t].id] = th[t].files]
  /\ Set(t, IdleThread)
  /\ lease' = lease \ {t}
  /\ UNCHANGED <<seq, store, lock, mt, sweeps, faults>>

\* replicate_to keeps the lease for the next snapshot it inserts.
ReplicateRow(t, S) ==
  /\ th[t].pc = "row"
  /\ rows' = [rows EXCEPT ![th[t].id] = th[t].files]
  /\ Set(t, [IdleThread EXCEPT !.pc = "put", !.files = S, !.todo = S])
  /\ UNCHANGED <<seq, store, lock, lease, mt, sweeps, faults>>

\* Any other error ends the recording (or the verification); what it stored
\* stays. Without its file the active pack takes no append.
Stuck == Exhausted \/ packs[active.id] = None

Abandon(t) ==
  /\ th[t].pc # "idle"
  /\ (~Stuck /\ Fault) \/ (Stuck /\ UNCHANGED faults)
  /\ Set(t, IdleThread)
  /\ lease' = lease \ {t}
  /\ lock' = IF lock = t THEN None ELSE lock
  /\ UNCHANGED <<disk, active, mt, sweeps>>

-----------------------------------------------------------------------------
(* Maintenance.                                                            *)

\* remove_snapshots, one transaction: remove_snapshot's one id, or any that the
\* policy of prune or prune_source selected from an older look at the catalog.
\* prune_source goes on to sweep, the others leave that to the user.
RemoveSnapshots(ids) ==
  /\ mt.pc = "idle"
  /\ ids # {} /\ \A i \in ids : rows[i] # None      \* the others are gone already
  /\ rows' = [i \in SnapIds |-> IF i \in ids THEN None ELSE rows[i]]
  /\ \E next \in {"idle", "gc"} : mt' = [IdleMaintenance EXCEPT !.pc = next]
  /\ UNCHANGED <<seq, store, lock, lease, th, sweeps, faults>>

\* repair_remove_damaged: the snapshot its report names goes, then the sweep.
Repair(t) ==
  /\ mt.pc = "idle"
  /\ th[t].pc = "report"
  /\ rows' = [rows EXCEPT ![th[t].id] = None]
  /\ mt' = [IdleMaintenance EXCEPT !.pc = "gc"]
  /\ Set(t, IdleThread)
  /\ UNCHANGED <<seq, store, lock, lease, sweeps, faults>>

Reachable == UNION {rows[i] : i \in {j \in SnapIds : rows[j] # None}}

\* gc_locked: mark, then drop the rows of every unreachable chunk.
GcSweep ==
  /\ mt.pc \in {"idle", "gc"}
  /\ lease = {}
  /\ sweeps < MaxSweeps
  /\ sweeps' = sweeps + 1
  /\ index' = [c \in Chunks |-> IF c \in Reachable THEN index[c] ELSE None]
  /\ mt' = [IdleMaintenance EXCEPT !.pc = "unlink",
              !.dead = {p \in PackIds \ {active.id} :
                          InPack(p) # {} /\ InPack(p) \intersect Reachable = {}}]
  /\ UNCHANGED <<rows, seq, packs, stats, rollover, active, lock, lease, th, behind, astray, faults>>

Unlink(p) == packs' = [packs EXCEPT ![p] = None]

GcUnlink(p) ==
  /\ mt.pc = "unlink"
  /\ p \in mt.dead
  /\ Unlink(p)
  /\ mt' = [mt EXCEPT !.dead = @ \ {p}]
  /\ UNCHANGED <<rows, seq, index, stats, rollover, active, lock, lease, th, behind, astray, sweeps,
                 faults>>

\* gc releases its lease; compact keeps it.
GcDone ==
  /\ mt.pc = "unlink"
  /\ mt.dead = {}
  /\ \E next \in {"idle", "roll"} : mt' = [IdleMaintenance EXCEPT !.pc = next]
  /\ UNCHANGED <<disk, active, lock, lease, th, sweeps, faults>>

\* The packs that are dead to at least half * 50 percent.
Targets(half) ==
  {p \in PackIds : /\ packs[p] # None
                   /\ Len(packs[p]) > 0
                   /\ 2 * (Len(packs[p]) - Cardinality(InPack(p))) >= half * Len(packs[p])}

CompactRoll ==
  /\ mt.pc = "roll"
  /\ lock = None
  /\ Roll
  /\ \E half \in 0 .. 2 : mt' = [mt EXCEPT !.pc = "pick", !.dead = Targets(half)]
  /\ UNCHANGED <<rows, seq, lock, lease, th, sweeps, faults>>

\* compact_pack moves the chunks whose row names p, one at a time.
CompactPick(p) ==
  /\ mt.pc = "pick"
  /\ p \in mt.dead
  /\ mt' = [mt EXCEPT !.pc = "move", !.from = p]
  /\ UNCHANGED <<disk, active, lock, lease, th, sweeps, faults>>

CompactMoveRoll ==
  /\ mt.pc = "move"
  /\ InPack(mt.from) # {}
  /\ lock = None
  /\ active.size >= rollover
  /\ Roll
  /\ UNCHANGED <<rows, seq, lock, lease, th, mt, sweeps, faults>>

\* The stored bytes are copied as they are, damaged ones too.
CompactMove(c) ==
  /\ mt.pc = "move"
  /\ c \in InPack(mt.from)
  /\ Unit(index[c]) # None
  /\ lock = None
  /\ AppendUnit(Unit(index[c]))
  /\ mt' = [mt EXCEPT !.pc = "repoint", !.chunk = c]
  /\ UNCHANGED <<rows, seq, lock, lease, th, sweeps, faults>>

CompactRepoint ==
  /\ mt.pc = "repoint"
  /\ Repoint(mt.chunk)
  /\ astray' = IF Aligned THEN astray ELSE astray \union {mt.chunk}
  /\ mt' = [mt EXCEPT !.pc = "move", !.chunk = None]
  /\ UNCHANGED <<rows, seq, lock, lease, th, sweeps, faults>>

\* All rows repointed: the old pack is deleted.
CompactUnlink ==
  /\ mt.pc = "move"
  /\ InPack(mt.from) = {}
  /\ Unlink(mt.from)
  /\ mt' = [mt EXCEPT !.pc = "pick", !.dead = @ \ {mt.from}, !.from = 0]
  /\ UNCHANGED <<rows, seq, index, stats, rollover, active, lock, lease, th, behind, astray, sweeps,
                 faults>>

\* A roll or an append of compaction fails, and ends it.
CompactFails ==
  /\ lock = None
  /\ Fault
  /\ \/ mt.pc = "roll" /\ RollUncommitted
     \/ /\ mt.pc = "move"
        /\ InPack(mt.from) # {}
        /\ AppendShort \/ (active.size >= rollover /\ RollUncommitted)
  /\ mt' = IdleMaintenance
  /\ UNCHANGED <<rows, seq, lock, lease, th, sweeps>>

\* Every target is done, a cancel between two chunks or packs, or an error.
MaintenanceEnds ==
  /\ mt.pc \notin {"idle", "gc"}
  /\ mt' = IdleMaintenance
  /\ UNCHANGED <<disk, active, lock, lease, th, sweeps, faults>>

-----------------------------------------------------------------------------
(* verify of one snapshot, which the lease shields from compaction.        *)

\* Mutant: verification takes no lease.
VerifyUnleased(t, i) ==
  /\ th[t].pc = "idle"
  /\ rows[i] # None
  /\ Set(t, [IdleThread EXCEPT !.pc = "locate", !.id = i, !.todo = rows[i]])
  /\ UNCHANGED <<disk, active, lock, lease, mt, sweeps, faults>>

\* Verifications only read, so that one at a time is enough.
Verify(t, i) ==
  /\ th[t].pc = "idle"
  /\ \A u \in Threads : th[u].pc \notin {"locate", "read", "report"}
  /\ ~Excluded
  /\ rows[i] # None
  /\ lease' = lease \union {t}
  /\ Set(t, [IdleThread EXCEPT !.pc = "locate", !.id = i, !.todo = rows[i]])
  /\ UNCHANGED <<disk, active, lock, mt, sweeps, faults>>

\* get is locate, then a read of the pack (VerifyLevel::Metadata stops at the
\* first: the damage it reports is part of what ReadData reports).
VerifyLocate(t) ==
  /\ th[t].pc = "locate"
  /\ \E c \in th[t].todo :
       Set(t, [th[t] EXCEPT !.pc = "read", !.todo = @ \ {c}, !.chunk = c, !.loc = index[c]])
  /\ UNCHANGED <<disk, active, lock, lease, mt, sweeps, faults>>

VerifyRead(t) ==
  /\ th[t].pc = "read"
  /\ LET u == Unit(th[t].loc)
         good == u # None /\ u.data = th[t].chunk /\ u.sound
     IN Set(t, [th[t] EXCEPT !.pc = "locate", !.chunk = None, !.loc = None, !.bad = @ \/ ~good])
  /\ UNCHANGED <<disk, active, lock, lease, mt, sweeps, faults>>

\* The index or the pack cannot be read this time: an error like any other.
VerifyReadFails(t) ==
  /\ th[t].pc = "read"
  /\ Fault
  /\ Set(t, [th[t] EXCEPT !.pc = "locate", !.chunk = None, !.loc = None, !.bad = TRUE,
                         !.unread = TRUE])
  /\ UNCHANGED <<disk, active, lock, lease, mt, sweeps>>

\* The lease is dropped; a report of damage stays with the caller.
VerifyEnds(t) ==
  /\ th[t].pc = "locate"
  /\ th[t].todo = {}
  /\ lease' = lease \ {t}
  /\ Set(t, IF th[t].bad THEN [IdleThread EXCEPT !.pc = "report", !.id = th[t].id,
                                            !.unread = th[t].unread]
            ELSE IdleThread)
  /\ UNCHANGED <<disk, active, lock, mt, sweeps, faults>>

-----------------------------------------------------------------------------
(* The environment.                                                        *)

\* The process is killed and the repository opened again: the active pack is the
\* saved one, its size that of the file.
Crash ==
  /\ Fault
  /\ active' = [id |-> stats, size |-> IF packs[stats] = None THEN 0 ELSE Len(packs[stats])]
  /\ lock' = None
  /\ lease' = {}
  /\ th' = [t \in Threads |-> IdleThread]
  /\ mt' = IdleMaintenance
  /\ sweeps' = 0
  /\ behind' = IF packs[stats] = None THEN behind ELSE "no"
  /\ UNCHANGED <<rows, seq, index, packs, stats, rollover, astray>>

\* The disk damages a stored chunk.
Rot(c) ==
  /\ Fault
  /\ Readable(c)
  /\ packs' = [packs EXCEPT ![index[c].pack][index[c].offset + 1].sound = FALSE]
  /\ UNCHANGED <<rows, seq, index, stats, rollover, active, lock, lease, th, mt, behind, astray,
                 sweeps>>

Inputs == SUBSET Chunks \ {{}}

RecordStep(t) ==
  \/ \E S \in Inputs : Begin(t, S) \/ ReplicateRow(t, S)
  \/ PutDedup(t) \/ PutMiss(t) \/ PutLocked(t) \/ PutRoll(t) \/ PutAppend(t) \/ PutCommit(t)
  \/ PutFails(t) \/ Allocate(t) \/ CommitRow(t) \/ Abandon(t)

VerifyStep(t) ==
  \/ \E i \in SnapIds : Verify(t, i)
  \/ VerifyLocate(t) \/ VerifyRead(t) \/ VerifyReadFails(t) \/ VerifyEnds(t) \/ Repair(t)

MaintenanceStep ==
  \/ \E ids \in SUBSET SnapIds : RemoveSnapshots(ids)
  \/ GcSweep \/ GcDone \/ CompactRoll \/ CompactMoveRoll \/ CompactRepoint \/ CompactUnlink
  \/ \E p \in PackIds : GcUnlink(p) \/ CompactPick(p)
  \/ \E c \in Chunks : CompactMove(c)
  \/ CompactFails \/ MaintenanceEnds

\* Nobody has anything to do.
Rest ==
  /\ \A t \in Threads : th[t].pc \in {"idle", "report"}
  /\ mt.pc \in {"idle", "gc"}
  /\ UNCHANGED vars

Next ==
  \/ \E t \in Threads : RecordStep(t) \/ VerifyStep(t)
  \/ MaintenanceStep
  \/ Crash
  \/ \E c \in Chunks : Rot(c)
  \/ Rest

Spec == Init /\ [][Next]_vars

-----------------------------------------------------------------------------
(* Properties.                                                             *)

\* What restoring snapshot i yields apart from disk damage and from rows gone
\* astray: for each of its chunks the bytes its locator leads to.
Restored(i) ==
  IF rows[i] = None THEN None
  ELSE [c \in rows[i] |->
          LET u == Unit(index[c])
          IN IF c \in astray THEN c ELSE IF u = None THEN None ELSE u.data]

Catalog == INSTANCE SnapshotCatalog WITH
             catalog <- [i \in SnapIds |-> Restored(i)],
             next <- seq,
             pending <- {th[t].id : t \in {v \in Threads : th[v].pc = "row"}}

\* The repository implements the catalog: whatever other backups, gc, compaction
\* and crashes interleave, a committed snapshot restores to what was recorded
\* until it is removed ("Live data is never touched"), and ids are not reused.
\* The exception is a chunk whose row a put committed while its pack was longer
\* than active.size, which an append that stopped short brings about.
ImplementsCatalog == Catalog!Spec

\* "Without this second check both would append a physical copy": a chunk is
\* never appended by a put while the index already has it.
NoDoubleStore == \A t \in Threads : th[t].pc = "commit" => index[th[t].chunk] = None

\* The pack that puts append to exists, now and after a restart: gc, compaction
\* and rolls never leave STATS naming a deleted file, unless the commit of the
\* last roll failed.
ActivePackExists == behind = "no" => packs[active.id] # None /\ packs[stats] # None

\* "Remove every snapshot with ANY damage": repair removes a snapshot only if it
\* cannot be read, though its report is older than the removal, or if a read of
\* that verification failed, which the report does not tell from damage.
RepairRemovesOnlyDamaged ==
  [][\A t \in Threads :
       th[t].pc = "report" /\ mt.pc = "idle" /\ mt'.pc = "gc" /\ th'[t].pc = "idle" =>
         \A i \in SnapIds : rows[i] # None /\ rows'[i] = None =>
           th[t].unread \/ \E c \in rows[i] : ~Readable(c)]_vars
=============================================================================
