------------------------ MODULE ResumableCopyProofs ------------------------
(***************************************************************************)
(* Proofs about ResumableCopy: its types, what the journal's rows and the  *)
(* completed copies hold, and what seen_on_disk promises, for any number   *)
(* of files (sharing journal indices or not), blocks, kills, power losses  *)
(* and edits of the sources.                                               *)
(***************************************************************************)
EXTENDS ResumableCopy, SequenceTheorems, TLAPS

\* Every block of d was read from source f, when the sources are s.
Run(s, f, d) == \A i \in 1 .. Len(d) : d[i] = <<f, s[f].version>>

\* Every block of d was read from source f, or is Garbage.
Own(s, f, d) == \A i \in 1 .. Len(d) : d[i] \in {<<f, s[f].version>>, Garbage}

\* A checkpoint describes a prefix of its owner's source, a finished one all of
\* some source.
SoundCp(s, c) ==
  c.bytes > 0 =>
    IF c.finished THEN \E f \in Files : Len(c.hash) = s[f].len /\ Run(s, f, c.hash)
    ELSE /\ c.bytes =< s[c.owner].len
         /\ Len(c.hash) = c.bytes /\ Run(s, c.owner, c.hash)

\* How far a task is, by its counters: what it hashed is what it wrote and
\* buffered, and only the states that flush have writes to make.
Shape(t, d) ==
  /\ t.pc \in {"idle", "plan"} => t.copied = 0 /\ t.hasher = <<>> /\ t.buf = <<>>
  /\ t.pc \in {"copy", "checkpoint"} =>
       Len(d) + Len(t.buf) = t.copied /\ Len(t.hasher) = t.copied
  /\ t.pc \notin {"plan", "copy", "finish_file"} => t.writes = {}

\* The blocks behind those counters, as long as no source was edited.
TaskSound(s, f, t, d) ==
  /\ t.pc \in {"copy", "checkpoint"} =>
       /\ t.copied =< s[f].len
       /\ Run(s, f, t.hasher) /\ Run(s, f, t.buf) /\ Run(s, f, d)
  /\ t.pc \in {"finish", "finish_file", "done"} =>
       Len(d) = s[f].len /\ Run(s, f, d) /\ t.hasher = d

Positive(ws) == \A w \in ws : w[2].bytes > 0
SoundWrites(s, ws) == \A w \in ws : SoundCp(s, w[2])

Shapes ==
  /\ \A f \in Files : Shape(task[f], dst[f]) /\ Positive(task[f].writes)
  /\ Positive(ending.writes)
  /\ \A f \in Files : src[f].version =< edits + 1

Sound ==
  /\ \A f \in Files : /\ Own(src, f, dst[f])
                      /\ TaskSound(src, f, task[f], dst[f])
                      /\ SoundWrites(src, task[f].writes)
  /\ \A i \in Idx : SoundCp(src, row[i]) /\ SoundCp(src, pending[i])
  /\ SoundWrites(src, ending.writes)

IInv == TypeOK /\ Shapes /\ SeenIsOnDisk /\ (edits = 0 => Sound)

-----------------------------------------------------------------------------
(* Sequences of blocks.                                                    *)

\* Contents are the sequences of blocks no longer than a destination gets.
LEMMA ContentsAreSequences ==
  \A s : s \in Contents <=> s \in Seq(BlockValues) /\ Len(s) =< Blocks + 1
<1>1. ASSUME NEW s, s \in Contents PROVE s \in Seq(BlockValues) /\ Len(s) =< Blocks + 1
  <2>1. PICK n \in 0 .. Blocks + 1 : s \in [1 .. n -> BlockValues]
    BY <1>1 DEF Contents
  <2>2. n \in Nat
    BY BoundsAssumption
  <2>3. s \in Seq(BlockValues)
    BY <2>1, <2>2
  <2>4. Len(s) = n
    BY <2>1, <2>2, <2>3
  <2> QED
    BY <2>1, <2>3, <2>4, BoundsAssumption
<1>2. ASSUME NEW s, s \in Seq(BlockValues), Len(s) =< Blocks + 1 PROVE s \in Contents
  <2>1. Len(s) \in 0 .. Blocks + 1 /\ s \in [1 .. Len(s) -> BlockValues]
    BY <1>2, BoundsAssumption
  <2> QED
    BY <2>1 DEF Contents
<1> QED
  BY <1>1, <1>2

\* The contents of a missing or empty file.
LEMMA EmptyIsContents == <<>> \in Contents /\ Len(<<>>) = 0
<1>1. <<>> \in Seq(BlockValues) /\ Len(<<>>) = 0
  OBVIOUS
<1>2. Len(<<>>) =< Blocks + 1
  BY <1>1, BoundsAssumption
<1> QED
  BY <1>1, <1>2, ContentsAreSequences

\* No block at all.
LEMMA RunOfNothing ==
  \A s, f : Run(s, f, <<>>) /\ Own(s, f, <<>>)
BY EmptyIsContents DEF Run, Own

\* A single block.
LEMMA RunOfOne ==
  \A s, f : Run(s, f, <<<<f, s[f].version>>>>)
BY DEF Run

\* A run goes on with a run.
LEMMA RunConcat ==
  ASSUME NEW s, NEW f, NEW S, NEW d \in Seq(S), NEW e \in Seq(S), Run(s, f, d), Run(s, f, e)
  PROVE  Run(s, f, d \o e)
BY DEF Run

\* A run of a file is its own.
LEMMA RunOwn ==
  ASSUME NEW s, NEW f, NEW d, Run(s, f, d)
  PROVE  Own(s, f, d)
BY DEF Run, Own

\* A run as long as the source is the source, a shorter one a prefix of it.
LEMMA RunIsPrefix ==
  ASSUME NEW f \in Files, NEW d \in Seq(BlockValues), Run(src, f, d),
         src[f].len \in Nat, Len(d) =< src[f].len, Block(f) \in BlockValues
  PROVE  /\ d = SubSeq(Source(f), 1, Len(d))
         /\ Len(d) = src[f].len => d = Source(f)
<1>1. Source(f) \in Seq(BlockValues) /\ Len(Source(f)) = src[f].len
  BY DEF Source
<1>2. \A i \in 1 .. src[f].len : Source(f)[i] = Block(f)
  BY DEF Source
<1>3. \A i \in 1 .. Len(d) : d[i] = Block(f)
  BY DEF Run, Block
<1>4. Len(d) = src[f].len => d = Source(f)
  BY <1>1, <1>2, <1>3, SeqEqual
<1>5. SubSeq(Source(f), 1, Len(d)) \in Seq(BlockValues)
      /\ Len(SubSeq(Source(f), 1, Len(d))) = Len(d)
      /\ \A i \in 1 .. Len(d) : SubSeq(Source(f), 1, Len(d))[i] = Source(f)[i]
  BY <1>1
<1>6. d = SubSeq(Source(f), 1, Len(d))
  <2> DEFINE e == SubSeq(Source(f), 1, Len(d))
  <2>1. e \in Seq(BlockValues) /\ Len(e) = Len(d) /\ \A i \in 1 .. Len(d) : e[i] = d[i]
    BY <1>2, <1>3, <1>5
  <2> HIDE DEF e
  <2>2. d = e
    BY <2>1, SeqEqual
  <2> QED
    BY <2>2 DEF e
<1> QED
  BY <1>4, <1>6

\* A file whose blocks are its own and which begins with a block of source g is
\* a copy of g: journal indices may be shared, contents are not.
LEMMA OwnRunIsOwner ==
  ASSUME NEW s, NEW f \in Files, NEW g \in Files, NEW S, NEW d \in Seq(S), Own(s, f, d),
         NEW n \in 1 .. Len(d), Run(s, g, SubSeq(d, 1, n))
  PROVE  g = f
<1>1. SubSeq(d, 1, n)[1] = d[1] /\ 1 \in 1 .. n /\ Len(SubSeq(d, 1, n)) = n
  OBVIOUS
<1>2. d[1] = <<g, s[g].version>>
  BY <1>1 DEF Run
<1>3. d[1] \in {<<f, s[f].version>>, Garbage}
  BY DEF Own
<1>4. g # 0
  BY FilesAssumption
<1> QED
  BY <1>2, <1>3, <1>4 DEF Garbage

-----------------------------------------------------------------------------
(* The inductive invariant.                                                *)

\* No row is a checkpoint, one that says nothing.
LEMMA NoRowIsSound ==
  /\ NoRow \in Checkpoints
  /\ \A s : SoundCp(s, NoRow)
<1>1. (CHOOSE f \in Files : TRUE) \in Files
  BY FilesAssumption
<1> QED
  BY <1>1, EmptyIsContents, BoundsAssumption DEF NoRow, Checkpoints, SoundCp

\* A task that has not begun is well formed whatever its destination holds.
LEMMA FreshIsSound ==
  /\ Fresh \in Tasks
  /\ \A d : Shape(Fresh, d)
  /\ \A s, f, d : TaskSound(s, f, Fresh, d)
  /\ Fresh.writes = {}
BY EmptyIsContents, BoundsAssumption DEF Fresh, Tasks, TaskPcs, Shape, TaskSound

\* The pending entries written out are checkpoints with bytes, and what is left
\* of the map is a map of checkpoints.
LEMMA DrainIsSound ==
  ASSUME NEW is \in SUBSET Idx, NEW p \in [Idx -> Checkpoints]
  PROVE  /\ PendingOf(is, p) \in SUBSET (Idx \X Checkpoints)
         /\ Positive(PendingOf(is, p))
         /\ Without(is, p) \in [Idx -> Checkpoints]
         /\ \A s : (\A i \in Idx : SoundCp(s, p[i])) =>
              /\ SoundWrites(s, PendingOf(is, p))
              /\ \A i \in Idx : SoundCp(s, Without(is, p)[i])
<1>1. PendingOf(is, p) \in SUBSET (Idx \X Checkpoints) /\ Positive(PendingOf(is, p))
  BY DEF PendingOf, Positive
<1>2. Without(is, p) \in [Idx -> Checkpoints]
  BY NoRowIsSound DEF Without
<1>3. ASSUME NEW s, \A i \in Idx : SoundCp(s, p[i])
      PROVE  SoundWrites(s, PendingOf(is, p)) /\ \A i \in Idx : SoundCp(s, Without(is, p)[i])
  <2>1. SoundWrites(s, PendingOf(is, p))
    BY <1>3 DEF PendingOf, SoundWrites
  <2>2. \A i \in Idx : SoundCp(s, Without(is, p)[i])
    BY <1>3, NoRowIsSound DEF Without
  <2> QED
    BY <2>1, <2>2
<1> QED
  BY <1>1, <1>2, <1>3

\* The initial states satisfy it.
LEMMA InitIInv == Init => IInv
<1> SUFFICES ASSUME Init PROVE IInv
  OBVIOUS
<1> USE DEF Init
<1>1. \A f \in Files : dst[f] \in Contents /\ Own(src, f, dst[f]) /\ Len(dst[f]) \in 0 .. Blocks + 1
  <2> SUFFICES ASSUME NEW f \in Files
               PROVE  dst[f] \in Contents /\ Own(src, f, dst[f]) /\ Len(dst[f]) \in 0 .. Blocks + 1
    OBVIOUS
  <2>1. CASE dst[f] = <<>>
    BY <2>1, EmptyIsContents, BoundsAssumption DEF Own
  <2>2. CASE dst[f] = [i \in 1 .. Blocks + 1 |-> Garbage]
    <3>1. dst[f] \in Seq(BlockValues) /\ Len(dst[f]) = Blocks + 1
      BY <2>2, BoundsAssumption DEF BlockValues
    <3>2. Own(src, f, dst[f])
      BY <3>1, <2>2 DEF Own
    <3> QED
      BY <3>1, <3>2, ContentsAreSequences, BoundsAssumption
  <2> QED
    BY <2>1, <2>2
<1>2. src \in [Files -> [version : 1 .. MaxEdits + 1, len : 1 .. Blocks]]
  <2>1. 1 \in 1 .. MaxEdits + 1
    BY BoundsAssumption
  <2> QED
    BY <2>1
<1>3. TypeOK
  BY <1>1, <1>2, NoRowIsSound, FreshIsSound, BoundsAssumption DEF TypeOK
<1>4. Shapes
  BY FreshIsSound, BoundsAssumption DEF Shapes, Positive
<1>5. SeenIsOnDisk
  BY DEF SeenIsOnDisk
<1>6. Sound
  BY <1>1, NoRowIsSound, FreshIsSound DEF Sound, SoundWrites
<1> QED
  BY <1>3, <1>4, <1>5, <1>6 DEF IInv

\* What a step of one file's task has to do to keep the invariant: it replaces
\* the file's task and destination by well formed ones and writes sound rows,
\* and no row, and no write to come, is lost on the way.
LEMMA FileStep ==
  ASSUME IInv, NEW f \in Files,
         NEW d \in Contents, NEW n \in Nat, n =< Len(d), NEW t \in Tasks,
         dst' = [dst EXCEPT ![f] = d],
         synced' = [synced EXCEPT ![f] = n],
         task' = [task EXCEPT ![f] = t],
         UNCHANGED <<src, job, ending, boundVars>>,
         row' \in [Idx -> Checkpoints], pending' \in [Idx -> Checkpoints],
         seen' \in SUBSET Idx, refused' \in SUBSET Idx,
         Shape(t, d), Positive(t.writes),
         \A i \in Idx : row[i].bytes > 0 => row'[i].bytes > 0,
         \A w \in task[f].writes :
           w \in t.writes \/ row'[w[1]].bytes > 0 \/ w[1] \in refused',
         \A i \in refused : i \in refused' \/ row'[i].bytes > 0,
         \A i \in seen' : i \in seen \/ \E w \in t.writes : w[1] = i,
         edits = 0 /\ Sound => /\ Own(src, f, d)
                     /\ TaskSound(src, f, t, d)
                     /\ SoundWrites(src, t.writes)
                     /\ \A i \in Idx : SoundCp(src, row'[i]) /\ SoundCp(src, pending'[i])
  PROVE  IInv'
<1> USE DEF IInv
<1>1. n \in 0 .. Blocks + 1
  <2>1. Len(d) \in Nat /\ Len(d) =< Blocks + 1
    BY ContentsAreSequences
  <2> QED
    BY <2>1, BoundsAssumption
<1>2. TypeOK'
  BY <1>1 DEF TypeOK, boundVars
<1>3. Shapes'
  BY DEF Shapes, TypeOK, boundVars
<1>4. SeenIsOnDisk'
  <2> SUFFICES ASSUME NEW i \in seen' \ refused', ~(row'[i].bytes > 0)
               PROVE  \E g \in Files : \E w \in task'[g].writes : w[1] = i
    BY DEF SeenIsOnDisk
  <2>1. CASE \E w \in t.writes : w[1] = i
    BY <2>1 DEF TypeOK
  <2>2. CASE i \in seen
    <3>1. ~(row[i].bytes > 0) /\ i \notin refused
      BY DEF TypeOK
    <3>2. PICK g \in Files : \E w \in task[g].writes : w[1] = i
      BY <2>2, <3>1 DEF SeenIsOnDisk
    <3>3. CASE g = f
      BY <3>2, <3>3 DEF TypeOK
    <3>4. CASE g # f
      BY <3>2, <3>4 DEF TypeOK
    <3> QED
      BY <3>3, <3>4
  <2> QED
    BY <2>1, <2>2
<1>5. ASSUME edits' = 0 PROVE Sound'
  <2>1. edits = 0 /\ src' = src
    BY <1>5 DEF boundVars
  <2>2. \A g \in Files : /\ Own(src, g, dst'[g])
                         /\ TaskSound(src, g, task'[g], dst'[g])
                         /\ SoundWrites(src, task'[g].writes)
    BY <2>1 DEF Sound, TypeOK
  <2>3. SoundWrites(src, ending'.writes)
    BY <2>1 DEF Sound
  <2> QED
    BY <2>1, <2>2, <2>3 DEF Sound
<1> QED
  BY <1>2, <1>3, <1>4, <1>5

-----------------------------------------------------------------------------
(* The steps of a file's task.                                             *)

\* The type of a file's part of the state, and of the sequences in it.
LEMMA FileTypes ==
  ASSUME IInv, NEW f \in Files
  PROVE  /\ src[f] \in [version : 1 .. MaxEdits + 1, len : 1 .. Blocks]
         /\ src[f].len \in Nat \ {0} /\ src[f].len =< Blocks
         /\ dst[f] \in Seq(BlockValues) /\ Len(dst[f]) =< Blocks + 1
         /\ synced[f] \in Nat /\ synced[f] =< Len(dst[f])
         /\ task[f] \in Tasks /\ task[f].copied \in Nat
         /\ task[f].hasher \in Seq(BlockValues) /\ task[f].buf \in Seq(BlockValues)
         /\ Block(f) \in BlockValues
         /\ IdxOf(f) \in Idx
         /\ Shape(task[f], dst[f]) /\ Positive(task[f].writes)
<1> USE DEF IInv
<1>1. /\ src[f] \in [version : 1 .. MaxEdits + 1, len : 1 .. Blocks]
      /\ dst[f] \in Contents /\ synced[f] \in 0 .. Blocks + 1 /\ synced[f] =< Len(dst[f])
      /\ task[f] \in Tasks
  BY DEF TypeOK
<1>2. src[f].len \in Nat \ {0} /\ src[f].len =< Blocks /\ Block(f) \in BlockValues
  BY <1>1, BoundsAssumption DEF Block, BlockValues
<1>3. task[f].hasher \in Contents /\ task[f].buf \in Contents /\ task[f].copied \in Nat
  BY <1>1, BoundsAssumption DEF Tasks
<1>4. Shape(task[f], dst[f]) /\ Positive(task[f].writes)
  BY DEF Shapes
<1>5. synced[f] \in Nat
  BY <1>1, BoundsAssumption
<1> QED
  BY <1>1, <1>2, <1>3, <1>4, <1>5, ContentsAreSequences, IdxAssumption

\* What the soundness of the state says of one file and its index.
LEMMA FileSound ==
  ASSUME IInv, NEW f \in Files, Sound
  PROVE  /\ Own(src, f, dst[f]) /\ TaskSound(src, f, task[f], dst[f])
         /\ SoundWrites(src, task[f].writes)
         /\ \A i \in Idx : SoundCp(src, row[i]) /\ SoundCp(src, pending[i])
BY DEF Sound

\* Start
LEMMA StartStep ==
  ASSUME IInv, NEW f \in Files, NEW verify \in BOOLEAN, Start(f, verify)
  PROVE  IInv'
<1> DEFINE i == IdxOf(f)
           t == [Fresh EXCEPT !.total = src[f].len, !.verify = verify]
           tc == [t EXCEPT !.pc = "copy"]
           tp == [t EXCEPT !.pc = "plan", !.writes = PendingOf({i}, pending)]
<1> USE FileTypes
<1>0. /\ row \in [Idx -> Checkpoints] /\ pending \in [Idx -> Checkpoints] /\ seen \in SUBSET Idx
      /\ refused \in SUBSET Idx
      /\ dst \in [Files -> Contents] /\ synced \in [Files -> 0 .. Blocks + 1]
  BY DEF IInv, TypeOK
<1>1. dst' = [dst EXCEPT ![f] = dst[f]] /\ synced' = [synced EXCEPT ![f] = synced[f]]
  BY <1>0 DEF Start, diskVars
<1>2. /\ UNCHANGED <<src, job, refused, ending, boundVars>> /\ row' = row /\ seen' = seen
      /\ task[f].writes = {} /\ dst[f] \in Contents
  BY <1>0 DEF Start, Shape
<1>5. src[f].len \in 0 .. Blocks
  BY BoundsAssumption
<1>3. CASE dst[f] = <<>> /\ task' = [task EXCEPT ![f] = tc] /\ UNCHANGED pending
  <2>1. tc \in Tasks /\ tc.writes = {} /\ Positive(tc.writes)
    BY <1>5, FreshIsSound DEF Tasks, TaskPcs, Positive
  <2>2. Shape(tc, dst[f])
    BY <1>3 DEF Fresh, Shape
  <2>3. TaskSound(src, f, tc, dst[f]) /\ SoundWrites(src, tc.writes)
    BY <1>3, RunOfNothing DEF Fresh, TaskSound, SoundWrites
  <2> HIDE DEF tc
  <2> QED
    BY <1>0, <1>1, <1>2, <1>3, <2>1, <2>2, <2>3, FileStep, FileSound
<1>4. CASE task' = [task EXCEPT ![f] = tp] /\ pending' = Without({i}, pending)
  <2>1. tp \in Tasks /\ Positive(tp.writes)
    <3>1. PendingOf({i}, pending) \in SUBSET (Idx \X Checkpoints) /\ Positive(PendingOf({i}, pending))
      BY <1>0, DrainIsSound
    <3> QED
      BY <1>5, <3>1, FreshIsSound DEF Tasks, TaskPcs
  <2>2. Shape(tp, dst[f])
    BY DEF Fresh, Shape
  <2>3. Sound => TaskSound(src, f, tp, dst[f]) /\ SoundWrites(src, tp.writes)
    BY <1>0, FileSound, DrainIsSound DEF Fresh, TaskSound
  <2>4. pending' \in [Idx -> Checkpoints] /\ (Sound => \A j \in Idx : SoundCp(src, pending'[j]))
    BY <1>0, <1>4, FileSound, DrainIsSound
  <2> HIDE DEF tp
  <2> QED
    BY <1>0, <1>1, <1>2, <1>4, <2>1, <2>2, <2>3, <2>4, FileStep, FileSound
<1> QED
  BY <1>3, <1>4 DEF Start

\* The types of the state a step of a file shares with the others.
LEMMA SharedTypes ==
  ASSUME IInv
  PROVE  /\ row \in [Idx -> Checkpoints] /\ pending \in [Idx -> Checkpoints]
         /\ seen \in SUBSET Idx /\ refused \in SUBSET Idx
         /\ dst \in [Files -> Contents] /\ synced \in [Files -> 0 .. Blocks + 1]
         /\ task \in [Files -> Tasks]
BY DEF IInv, TypeOK

\* A checkpoint's parts.
LEMMA CheckpointTypes ==
  ASSUME NEW c \in Checkpoints
  PROVE  /\ c.owner \in Files /\ c.bytes \in Nat /\ c.bytes =< Blocks
         /\ c.total \in Nat /\ c.total =< Blocks
         /\ c.hash \in Contents /\ c.finished \in BOOLEAN
BY BoundsAssumption DEF Checkpoints

\* Begin, whatever it decided: a fresh start, a resume after a prefix the journal
\* vouches for, or nothing to copy.
LEMMA BeginStep ==
  ASSUME IInv, NEW f \in Files, Begin(f)
  PROVE  IInv'
<1> DEFINE r == row[IdxOf(f)]
<1> USE FileTypes, SharedTypes
<1>1. /\ UNCHANGED <<src, job, refused, ending, boundVars>> /\ row' = row /\ seen' = seen /\ pending' = pending
      /\ task[f].writes = {} /\ task[f].pc = "plan"
      /\ task[f].copied = 0 /\ task[f].hasher = <<>> /\ task[f].buf = <<>>
  BY DEF Begin, Shape, sinkVars
<1>2. r \in Checkpoints
  OBVIOUS
<1>3. ASSUME BeginAs(f, "fresh") PROVE IInv'
  <2> DEFINE t == [task[f] EXCEPT !.pc = "copy"]
  <2>1. /\ dst' = [dst EXCEPT ![f] = <<>>] /\ synced' = [synced EXCEPT ![f] = 0]
        /\ task' = [task EXCEPT ![f] = t]
    BY <1>3 DEF BeginAs
  <2>2. t \in Tasks /\ t.writes = {} /\ Positive(t.writes)
    BY <1>1 DEF Tasks, TaskPcs, Positive
  <2>3. Shape(t, <<>>)
    BY <1>1, EmptyIsContents DEF Tasks, Shape
  <2>4. TaskSound(src, f, t, <<>>) /\ SoundWrites(src, t.writes) /\ Own(src, f, <<>>)
    BY <1>1, <2>2, RunOfNothing, EmptyIsContents DEF Tasks, TaskSound, SoundWrites, Own
  <2>5. 0 \in Nat /\ 0 =< Len(<<>>) /\ <<>> \in Contents
    BY EmptyIsContents
  <2>6. row' \in [Idx -> Checkpoints] /\ pending' \in [Idx -> Checkpoints] /\ seen' \in SUBSET Idx
    BY <1>1
  <2> HIDE DEF t
  <2> QED
    BY <1>1, <2>1, <2>2, <2>3, <2>4, <2>5, <2>6, FileStep, FileSound
<1>4. ASSUME Decision(f) = "resume", BeginAs(f, "resume") PROVE IInv'
  <2> DEFINE d == SubSeq(dst[f], 1, r.bytes)
             n == IF synced[f] > r.bytes THEN r.bytes ELSE synced[f]
             t == [task[f] EXCEPT !.pc = "copy", !.copied = r.bytes, !.hasher = d]
  <2>1. /\ dst' = [dst EXCEPT ![f] = d] /\ synced' = [synced EXCEPT ![f] = n]
        /\ task' = [task EXCEPT ![f] = t]
    BY <1>4 DEF BeginAs
  <2>2. r.bytes # 0 /\ ~r.finished /\ Len(dst[f]) >= r.bytes /\ d = r.hash
    <3>1. r.bytes \in Nat /\ r.finished \in BOOLEAN
      BY <1>2, CheckpointTypes
    <3>2. r.bytes # 0
      BY <1>4, <3>1 DEF Decision
    <3>3. ~r.finished
      BY <1>4, <3>1, <3>2 DEF Decision
    <3> QED
      BY <1>4, <3>1, <3>2, <3>3 DEF Decision
  <2>3. r.bytes \in Nat /\ r.bytes =< Blocks /\ r.bytes \in 0 .. Blocks
    BY <1>2, CheckpointTypes, BoundsAssumption
  <2>4. d \in Seq(BlockValues) /\ Len(d) = r.bytes
    BY <2>2, <2>3
  <2>5. d \in Contents
    <3>1. Len(d) =< Blocks + 1
      BY <2>4, <2>3, BoundsAssumption
    <3> HIDE DEF d
    <3> QED
      BY <2>4, <3>1, ContentsAreSequences
  <2>6. n \in Nat /\ n =< Len(d)
    BY <2>3, <2>4
  <2>7. t \in Tasks /\ t.writes = {} /\ Positive(t.writes)
    BY <1>1, <2>3, <2>5 DEF Tasks, TaskPcs, Positive
  <2>8. Shape(t, d)
    BY <1>1, <2>4, <2>3, EmptyIsContents DEF Tasks, Shape
  <2>9. ASSUME Sound
        PROVE  Own(src, f, d) /\ TaskSound(src, f, t, d) /\ SoundWrites(src, t.writes)
    <3>1. SoundCp(src, r) /\ Own(src, f, dst[f])
      BY <2>9, FileSound
    <3>2. r.bytes =< src[r.owner].len /\ Run(src, r.owner, d)
      <4>1. r.bytes > 0
        BY <2>2, <2>3
      <4>2. r.bytes =< src[r.owner].len /\ Run(src, r.owner, r.hash)
        BY <3>1, <2>2, <4>1 DEF SoundCp
      <4> QED
        BY <4>2, <2>2
    <3>3. r.owner = f
      <4>1. r.owner \in Files /\ r.bytes \in 1 .. Len(dst[f])
        BY <1>2, <2>2, <2>3, CheckpointTypes
      <4> QED
        BY <4>1, <3>1, <3>2, OwnRunIsOwner
    <3>4. Own(src, f, d)
      BY <3>2, <3>3, RunOwn
    <3>5. TaskSound(src, f, t, d)
      BY <1>1, <3>2, <3>3, <2>4, RunOfNothing, EmptyIsContents DEF Tasks, TaskSound
    <3> QED
      BY <3>4, <3>5, <2>7 DEF SoundWrites
  <2> HIDE DEF t, d, n
  <2> QED
    BY <1>1, <2>1, <2>5, <2>6, <2>7, <2>8, <2>9, FileStep, FileSound
<1>5. ASSUME Decision(f) = "complete", BeginAs(f, "complete") PROVE IInv'
  <2> DEFINE t == [task[f] EXCEPT !.pc = "finish", !.hasher = r.hash]
  <2>1. /\ dst' = [dst EXCEPT ![f] = dst[f]] /\ synced' = [synced EXCEPT ![f] = synced[f]]
        /\ task' = [task EXCEPT ![f] = t]
    BY <1>5 DEF BeginAs, diskVars
  <2>2. r.bytes # 0 /\ r.finished /\ dst[f] = r.hash
    <3>1. r.bytes \in Nat /\ r.finished \in BOOLEAN
      BY <1>2, CheckpointTypes
    <3>2. r.bytes # 0
      BY <1>5, <3>1 DEF Decision
    <3>3. r.finished
      BY <1>5, <3>1, <3>2 DEF Decision
    <3> QED
      BY <1>5, <3>1, <3>2, <3>3 DEF Decision
  <2>3. t \in Tasks /\ t.writes = {} /\ Positive(t.writes)
    BY <1>1, <1>2, CheckpointTypes DEF Tasks, TaskPcs, Positive
  <2>4. Shape(t, dst[f])
    BY <1>1 DEF Tasks, Shape
  <2>5. ASSUME Sound
        PROVE  TaskSound(src, f, t, dst[f]) /\ SoundWrites(src, t.writes)
    <3>1. SoundCp(src, r) /\ Own(src, f, dst[f])
      BY <2>5, FileSound
    <3>2. PICK g \in Files : Len(r.hash) = src[g].len /\ Run(src, g, r.hash)
      BY <3>1, <2>2, <1>2, CheckpointTypes DEF SoundCp
    <3>3. g = f
      <4>1. src[g].len \in Nat \ {0} /\ Len(dst[f]) = src[g].len
        <5>1. src[g].len \in Nat \ {0}
          OBVIOUS
        <5> QED
          BY <5>1, <2>2, <3>2
      <4>2. SubSeq(dst[f], 1, src[g].len) = dst[f]
        BY <4>1, SubSeqFull
      <4>3. src[g].len \in 1 .. Len(dst[f]) /\ dst[f] \in Seq(BlockValues)
        BY <4>1
      <4>4. Run(src, g, SubSeq(dst[f], 1, src[g].len))
        BY <4>2, <3>2, <2>2
      <4> QED
        BY <4>3, <4>4, <3>1, OwnRunIsOwner
    <3> QED
      BY <1>1, <2>2, <2>3, <3>2, <3>3 DEF Tasks, TaskSound, SoundWrites
  <2> HIDE DEF t
  <2> QED
    BY <1>1, <2>1, <2>3, <2>4, <2>5, FileStep, FileSound
<1>6. Decision(f) \in {"fresh", "resume", "complete"}
  BY <1>2, CheckpointTypes DEF Decision
<1> QED
  BY <1>3, <1>4, <1>5, <1>6 DEF Begin

\* A buffer written behind what the file holds.
LEMMA Joined ==
  ASSUME NEW d \in Seq(BlockValues), NEW b \in Seq(BlockValues), NEW c \in 0 .. Blocks,
         Len(d) + Len(b) = c
  PROVE  /\ d \o b \in Seq(BlockValues) /\ d \o b \in Contents
         /\ Len(d \o b) = c /\ Len(d) =< c
<1>1. d \o b \in Seq(BlockValues) /\ Len(d \o b) = c /\ Len(d) =< c
  OBVIOUS
<1>2. Len(d \o b) =< Blocks + 1
  BY <1>1, BoundsAssumption
<1> QED
  BY <1>1, <1>2, ContentsAreSequences

\* MoveBlock: the block goes to the file or stays in the buffer.
LEMMA MoveBlockStep ==
  ASSUME IInv, NEW f \in Files, MoveBlock(f)
  PROVE  IInv'
<1>1. PICK through \in BOOLEAN, due \in BOOLEAN :
        /\ dst' = [dst EXCEPT ![f] = @ \o task[f].buf \o IF through THEN <<Block(f)>> ELSE <<>>]
        /\ task' = [task EXCEPT ![f].pc = IF due THEN "checkpoint" ELSE "copy",
                                ![f].copied = @ + 1,
                                ![f].hasher = @ \o <<Block(f)>>,
                                ![f].buf = IF through THEN <<>> ELSE <<Block(f)>>]
  BY DEF MoveBlock
<1> DEFINE x == <<Block(f)>>
           keep == IF through THEN <<>> ELSE x
           put == IF through THEN x ELSE <<>>
           d0 == dst[f]
           b0 == task[f].buf
           h0 == task[f].hasher
           c == task[f].copied
           l == src[f].len
           e == d0 \o b0
           d == e \o put
           h == h0 \o x
           t == [task[f] EXCEPT !.pc = IF due THEN "checkpoint" ELSE "copy",
                                !.copied = c + 1, !.hasher = h, !.buf = keep]
<1>2. /\ UNCHANGED <<src, job, refused, ending, boundVars>> /\ row' = row /\ seen' = seen /\ pending' = pending
      /\ synced' = [synced EXCEPT ![f] = synced[f]]
      /\ task[f].writes = {} /\ task[f].pc = "copy" /\ c < l
  BY SharedTypes DEF MoveBlock, sinkVars
<1>3. dst' = [dst EXCEPT ![f] = d] /\ task' = [task EXCEPT ![f] = t]
  BY <1>1, SharedTypes
<1>4. Len(d0) + Len(b0) = c /\ Len(h0) = c
  BY <1>2, FileTypes DEF Shape
<1>5. /\ x \in Seq(BlockValues) /\ put \in Seq(BlockValues) /\ keep \in Seq(BlockValues)
      /\ Len(x) = 1 /\ Len(put) + Len(keep) = 1 /\ Len(put) \in Nat /\ Len(keep) \in Nat
  BY FileTypes
<1>6. Run(src, f, x) /\ Run(src, f, put) /\ Run(src, f, keep)
  BY RunOfOne, RunOfNothing DEF Block
<1>7. /\ d0 \in Seq(BlockValues) /\ b0 \in Seq(BlockValues) /\ h0 \in Seq(BlockValues)
      /\ synced[f] \in Nat /\ synced[f] =< Len(d0)
      /\ c \in Nat /\ l \in Nat /\ l =< Blocks
  BY FileTypes
<1> HIDE DEF x, put, keep, d0, b0, h0, c, l
<1>8. c \in 0 .. Blocks /\ c + 1 \in 0 .. Blocks /\ c + Len(put) \in 0 .. Blocks
      /\ c + 1 =< l
  <2> DEFINE m == Len(put)
  <2>1. c < l /\ c \in Nat /\ l \in Nat /\ l =< Blocks /\ m \in 0 .. 1
    BY <1>2, <1>5, <1>7
  <2> HIDE DEF m
  <2>2. c + 1 =< l /\ c + 1 =< Blocks /\ c + m =< Blocks
    BY <2>1, BoundsAssumption
  <2>3. c \in 0 .. Blocks /\ c + 1 \in 0 .. Blocks /\ c + m \in 0 .. Blocks
    BY <2>1, <2>2, BoundsAssumption
  <2> QED
    BY <2>2, <2>3 DEF m
<1>9. e \in Seq(BlockValues) /\ Len(e) = c /\ Len(d0) =< c
  BY <1>4, <1>7, <1>8, Joined
<1>10. h \in Seq(BlockValues) /\ h \in Contents /\ Len(h) = c + 1
  <2> DEFINE k == c + 1
  <2>1. Len(h0) + Len(x) = k /\ k \in 0 .. Blocks
    BY <1>4, <1>5, <1>8
  <2> HIDE DEF k
  <2>2. h \in Seq(BlockValues) /\ h \in Contents /\ Len(h) = k
    BY <2>1, <1>5, <1>7, Joined
  <2> QED
    BY <2>2 DEF k
<1> HIDE DEF e
<1>11. d \in Seq(BlockValues) /\ d \in Contents /\ Len(d) = c + Len(put) /\ Len(e) =< Len(d)
  BY <1>5, <1>8, <1>9, Joined
<1> HIDE DEF d, h
<1>12. keep \in Contents
  <2>1. Len(keep) =< Blocks + 1
    BY <1>5, BoundsAssumption
  <2> QED
    BY <2>1, <1>5, ContentsAreSequences
<1>13. t \in Tasks /\ t.writes = {} /\ Positive(t.writes)
  BY <1>2, <1>8, <1>10, <1>12, FileTypes DEF Tasks, TaskPcs, Positive
<1>14. /\ t.pc \in {"copy", "checkpoint"} /\ t.copied = c + 1
       /\ t.hasher = h /\ t.buf = keep
  BY FileTypes DEF Tasks
<1> HIDE DEF t
<1>15. Shape(t, d)
  <2>1. Len(d) + Len(keep) = c + 1
    BY <1>5, <1>7, <1>11
  <2> QED
    BY <2>1, <1>10, <1>13, <1>14 DEF Shape
<1>16. ASSUME Sound
       PROVE  Own(src, f, d) /\ TaskSound(src, f, t, d) /\ SoundWrites(src, t.writes)
  <2>1. Run(src, f, h0) /\ Run(src, f, b0) /\ Run(src, f, d0)
    BY <1>2, <1>16, FileSound DEF TaskSound, h0, b0, d0
  <2>2. Run(src, f, h)
    BY <2>1, <1>5, <1>6, <1>7, RunConcat DEF h
  <2>3. Run(src, f, e)
    BY <2>1, <1>7, RunConcat DEF e
  <2>4. Run(src, f, d)
    BY <2>3, <1>5, <1>6, <1>9, RunConcat DEF d
  <2>5. TaskSound(src, f, t, d)
    BY <1>6, <1>8, <1>14, <2>2, <2>4 DEF TaskSound, l
  <2> QED
    BY <2>4, <2>5, <1>13, RunOwn DEF SoundWrites
<1>17. synced[f] \in Nat /\ synced[f] =< Len(d)
  <2>1. Len(d0) \in Nat
    BY <1>7
  <2> QED
    BY <2>1, <1>5, <1>7, <1>9, <1>11
<1> QED
  BY <1>2, <1>3, <1>11, <1>13, <1>15, <1>16, <1>17, FileStep, FileSound, SharedTypes

\* The state after a flush of the buffer: the destination and what is synced.
LEMMA Flushed ==
  ASSUME IInv, NEW f \in Files, task[f].pc \in {"copy", "checkpoint"}
  PROVE  /\ dst[f] \o task[f].buf \in Contents
         /\ Len(dst[f] \o task[f].buf) = task[f].copied
         /\ task[f].copied \in Nat
         /\ synced[f] =< Len(dst[f] \o task[f].buf)
         /\ Len(task[f].hasher) = task[f].copied
         /\ Sound => /\ Run(src, f, dst[f] \o task[f].buf)
                     /\ Run(src, f, task[f].hasher)
                     /\ task[f].copied =< src[f].len
                     /\ Own(src, f, dst[f] \o task[f].buf)
<1> DEFINE c == task[f].copied
           b == task[f].buf
           d == dst[f]
<1>1. Len(d) + Len(b) = c /\ Len(task[f].hasher) = c
  BY FileTypes DEF Shape
<1>2. c \in 0 .. Blocks /\ c \in Nat
  BY FileTypes, BoundsAssumption DEF Tasks
<1>3. ASSUME Sound
      PROVE  /\ Run(src, f, task[f].hasher) /\ c =< src[f].len
             /\ Run(src, f, b) /\ Run(src, f, d)
  BY <1>3, FileSound DEF TaskSound
<1>4. d \in Seq(BlockValues) /\ b \in Seq(BlockValues) /\ synced[f] =< Len(d)
      /\ synced[f] \in Nat
  BY FileTypes
<1> HIDE DEF c, b, d
<1>5. d \o b \in Contents /\ Len(d \o b) = c /\ Len(d) =< c
  BY <1>1, <1>2, <1>4, Joined
<1>6. Sound => Run(src, f, d \o b) /\ Own(src, f, d \o b)
  BY <1>3, <1>4, RunConcat, RunOwn
<1>7. synced[f] =< c
  <2>1. Len(d) \in Nat
    BY <1>4
  <2> QED
    BY <2>1, <1>2, <1>4, <1>5
<1> QED
  BY <1>1, <1>2, <1>3, <1>5, <1>6, <1>7 DEF c, b, d

\* Checkpoint
LEMMA CheckpointStep ==
  ASSUME IInv, NEW f \in Files, Checkpoint(f)
  PROVE  IInv'
<1> DEFINE d == dst[f] \o task[f].buf
           i == IdxOf(f)
           cp == [owner |-> f, bytes |-> task[f].copied, total |-> task[f].total,
                  hash |-> task[f].hasher, finished |-> FALSE]
           stashed == [pending EXCEPT ![i] = cp]
           drained == PendingOf(Idx, stashed)
           t1 == [task[f] EXCEPT !.pc = "copy", !.buf = <<>>, !.writes = drained]
           t2 == [task[f] EXCEPT !.pc = "copy", !.buf = <<>>]
<1>1. /\ UNCHANGED <<src, job, refused, ending, boundVars>> /\ row' = row
      /\ dst' = [dst EXCEPT ![f] = d] /\ task[f].pc = "checkpoint" /\ task[f].writes = {}
  BY FileTypes DEF Checkpoint, Shape
<1>2. PICK n \in {synced[f], Len(d)} : synced' = [synced EXCEPT ![f] = n]
  <2>1. dst'[f] = d
    BY <1>1, SharedTypes
  <2> QED
    BY <2>1 DEF Checkpoint
<1>3. \/ /\ pending' = Without(Idx, pending)
         /\ seen' = seen \union {w[1] : w \in drained}
         /\ task' = [task EXCEPT ![f].pc = "copy", ![f].buf = <<>>, ![f].writes = drained]
      \/ /\ pending' = stashed
         /\ task' = [task EXCEPT ![f].pc = "copy", ![f].buf = <<>>]
         /\ seen' = seen
  BY DEF Checkpoint
<1>4. /\ d \in Contents /\ Len(d) = task[f].copied /\ task[f].copied \in Nat
      /\ synced[f] =< Len(d) /\ Len(task[f].hasher) = task[f].copied
      /\ Sound => /\ Run(src, f, d) /\ Run(src, f, task[f].hasher) /\ Own(src, f, d)
                  /\ task[f].copied =< src[f].len
  BY <1>1, Flushed
<1>5. n \in Nat /\ n =< Len(d)
  <2> HIDE DEF d
  <2>1. synced[f] \in Nat /\ Len(d) \in Nat
    BY <1>4, FileTypes, ContentsAreSequences
  <2> QED
    BY <1>2, <1>4, <2>1
<1>6. cp \in Checkpoints
  BY FileTypes DEF Tasks, Checkpoints
<1>7. Sound => SoundCp(src, cp)
  BY <1>4 DEF SoundCp
<1> HIDE DEF cp
<1>8. stashed \in [Idx -> Checkpoints] /\ (Sound => \A j \in Idx : SoundCp(src, stashed[j]))
  BY <1>6, <1>7, FileTypes, FileSound, SharedTypes
<1> HIDE DEF stashed
<1>9. /\ drained \in SUBSET (Idx \X Checkpoints) /\ Positive(drained)
      /\ Sound => SoundWrites(src, drained)
  BY <1>8, DrainIsSound
<1> HIDE DEF drained, d
<1>10. CASE /\ pending' = Without(Idx, pending)
            /\ seen' = seen \union {w[1] : w \in drained}
            /\ task' = [task EXCEPT ![f].pc = "copy", ![f].buf = <<>>, ![f].writes = drained]
  <2>1. task' = [task EXCEPT ![f] = t1]
    BY <1>10, SharedTypes
  <2>2. t1 \in Tasks /\ t1.writes = drained
    BY <1>9, FileTypes, EmptyIsContents DEF Tasks, TaskPcs
  <2>3. /\ t1.pc = "copy" /\ t1.copied = task[f].copied /\ t1.hasher = task[f].hasher
        /\ t1.buf = <<>>
    BY FileTypes DEF Tasks
  <2> HIDE DEF t1
  <2>4. Shape(t1, d)
    BY <1>4, <2>3, EmptyIsContents DEF Shape
  <2>5. Sound => TaskSound(src, f, t1, d)
    BY <1>4, <2>3, RunOfNothing DEF TaskSound
  <2>6. pending' \in [Idx -> Checkpoints] /\ (Sound => \A j \in Idx : SoundCp(src, pending'[j]))
    BY <1>10, SharedTypes, FileSound, DrainIsSound
  <2>7. seen' \in SUBSET Idx /\ \A j \in seen' : j \in seen \/ \E w \in t1.writes : w[1] = j
    BY <1>9, <1>10, <2>2, SharedTypes
  <2> QED
    BY <1>1, <1>2, <1>4, <1>5, <1>9, <2>1, <2>2, <2>4, <2>5, <2>6, <2>7, FileStep, FileSound,
       SharedTypes
<1>11. CASE /\ pending' = stashed
            /\ task' = [task EXCEPT ![f].pc = "copy", ![f].buf = <<>>]
            /\ seen' = seen
  <2>1. task' = [task EXCEPT ![f] = t2]
    BY <1>11, SharedTypes
  <2>2. t2 \in Tasks /\ t2.writes = {} /\ Positive(t2.writes) /\ SoundWrites(src, t2.writes)
    BY <1>1, FileTypes, EmptyIsContents DEF Tasks, TaskPcs, Positive, SoundWrites
  <2>3. /\ t2.pc = "copy" /\ t2.copied = task[f].copied /\ t2.hasher = task[f].hasher
        /\ t2.buf = <<>>
    BY FileTypes DEF Tasks
  <2> HIDE DEF t2
  <2>4. Shape(t2, d)
    BY <1>4, <2>3, EmptyIsContents DEF Shape
  <2>5. Sound => TaskSound(src, f, t2, d)
    BY <1>4, <2>3, RunOfNothing DEF TaskSound
  <2> QED
    BY <1>1, <1>2, <1>4, <1>5, <1>8, <1>11, <2>1, <2>2, <2>4, <2>5, FileStep, FileSound,
       SharedTypes
<1> QED
  BY <1>3, <1>10, <1>11

\* Eof
LEMMA EofStep ==
  ASSUME IInv, NEW f \in Files, Eof(f)
  PROVE  IInv'
<1> DEFINE d == dst[f] \o task[f].buf
           t == [task[f] EXCEPT !.pc = "finish", !.buf = <<>>]
<1>1. /\ UNCHANGED <<src, job, refused, ending, boundVars>> /\ row' = row /\ pending' = pending /\ seen' = seen
      /\ dst' = [dst EXCEPT ![f] = d] /\ task[f].pc = "copy" /\ task[f].writes = {}
      /\ task[f].copied >= src[f].len
  BY DEF Eof, sinkVars
<1>2. PICK n \in {synced[f], Len(d)} : synced' = [synced EXCEPT ![f] = n]
  <2>1. dst'[f] = d
    BY <1>1, SharedTypes
  <2> QED
    BY <2>1 DEF Eof
<1>3. task' = [task EXCEPT ![f] = t]
  BY SharedTypes DEF Eof
<1>4. /\ d \in Contents /\ Len(d) = task[f].copied /\ task[f].copied \in Nat
      /\ synced[f] =< Len(d) /\ Len(task[f].hasher) = task[f].copied
      /\ Sound => /\ Run(src, f, d) /\ Run(src, f, task[f].hasher) /\ Own(src, f, d)
                  /\ task[f].copied =< src[f].len
  BY <1>1, Flushed
<1> HIDE DEF d
<1>5. n \in Nat /\ n =< Len(d)
  <2>1. synced[f] \in Nat /\ Len(d) \in Nat
    BY <1>4, FileTypes, ContentsAreSequences
  <2> QED
    BY <1>2, <1>4, <2>1
<1>6. t \in Tasks /\ t.writes = {} /\ Positive(t.writes) /\ SoundWrites(src, t.writes)
  BY <1>1, FileTypes, EmptyIsContents DEF Tasks, TaskPcs, Positive, SoundWrites
<1>7. t.pc = "finish" /\ t.hasher = task[f].hasher
  BY FileTypes DEF Tasks
<1> HIDE DEF t
<1>8. Shape(t, d)
  BY <1>6, <1>7 DEF Shape
<1>9. ASSUME Sound PROVE TaskSound(src, f, t, d)
  <2>1. task[f].copied = src[f].len
    <3> DEFINE c == task[f].copied
               l == src[f].len
    <3>1. c \in Nat /\ l \in Nat /\ c >= l /\ c =< l
      BY <1>1, <1>4, <1>9, FileTypes
    <3> HIDE DEF c, l
    <3>2. c = l
      BY <3>1
    <3> QED
      BY <3>2 DEF c, l
  <2>2. d = task[f].hasher
    <3> DEFINE h == task[f].hasher
    <3>1. h \in Seq(BlockValues) /\ d \in Seq(BlockValues) /\ Len(h) = Len(d)
      BY <1>4, FileTypes, ContentsAreSequences
    <3>2. Run(src, f, h) /\ Run(src, f, d)
      BY <1>4, <1>9
    <3> HIDE DEF h
    <3>3. \A k \in 1 .. Len(h) : h[k] = d[k]
      BY <3>1, <3>2 DEF Run
    <3>4. h = d
      BY <3>1, <3>3, SeqEqual
    <3> QED
      BY <3>4 DEF h
  <2> QED
    BY <1>4, <1>7, <1>9, <2>1, <2>2 DEF TaskSound
<1> QED
  BY <1>1, <1>2, <1>3, <1>4, <1>5, <1>6, <1>8, <1>9, FileStep, FileSound, SharedTypes

\* FinishFlush
LEMMA FinishFlushStep ==
  ASSUME IInv, NEW f \in Files, FinishFlush(f)
  PROVE  IInv'
<1> DEFINE drained == PendingOf({IdxOf(f)}, pending)
           t == [task[f] EXCEPT !.pc = "finish_file", !.writes = drained]
<1>1. /\ UNCHANGED <<src, job, refused, ending, boundVars>> /\ row' = row /\ seen' = seen
      /\ dst' = [dst EXCEPT ![f] = dst[f]] /\ synced' = [synced EXCEPT ![f] = synced[f]]
      /\ task[f].pc = "finish" /\ task[f].writes = {}
      /\ pending' = Without({IdxOf(f)}, pending)
  BY SharedTypes, FileTypes DEF FinishFlush, diskVars, Shape
<1>2. task' = [task EXCEPT ![f] = t]
  BY SharedTypes DEF FinishFlush
<1>3. /\ drained \in SUBSET (Idx \X Checkpoints) /\ Positive(drained)
      /\ Sound => SoundWrites(src, drained)
      /\ pending' \in [Idx -> Checkpoints]
      /\ Sound => \A j \in Idx : SoundCp(src, pending'[j])
  <2>1. {IdxOf(f)} \in SUBSET Idx
    BY FileTypes
  <2> QED
    BY <1>1, <2>1, SharedTypes, FileSound, DrainIsSound
<1> HIDE DEF drained
<1>4. t \in Tasks /\ t.writes = drained
  BY <1>3, FileTypes DEF Tasks, TaskPcs
<1>5. t.pc = "finish_file" /\ t.hasher = task[f].hasher
  BY FileTypes DEF Tasks
<1> HIDE DEF t
<1>6. Shape(t, dst[f])
  BY <1>5 DEF Shape
<1>7. Sound => TaskSound(src, f, t, dst[f])
  BY <1>1, <1>5, FileSound DEF TaskSound
<1>8. dst[f] \in Contents /\ synced[f] \in Nat /\ synced[f] =< Len(dst[f])
  BY FileTypes, SharedTypes
<1> QED
  BY <1>1, <1>2, <1>3, <1>4, <1>6, <1>7, <1>8, FileStep, FileSound, SharedTypes

\* FinishFile
LEMMA FinishFileStep ==
  ASSUME IInv, NEW f \in Files, FinishFile(f)
  PROVE  IInv'
<1> DEFINE i == IdxOf(f)
           r == row[i]
           n == IF r.total > r.bytes THEN r.total ELSE r.bytes
           c == [r EXCEPT !.bytes = n, !.hash = task[f].hasher, !.finished = TRUE]
           t == [task[f] EXCEPT !.pc = "done"]
<1>1. /\ UNCHANGED <<src, job, refused, ending, boundVars>> /\ pending' = pending /\ seen' = seen
      /\ dst' = [dst EXCEPT ![f] = dst[f]] /\ synced' = [synced EXCEPT ![f] = synced[f]]
      /\ task[f].pc = "finish_file" /\ task[f].writes = {}
      /\ task' = [task EXCEPT ![f] = t]
  BY SharedTypes DEF FinishFile, diskVars, sinkVars
<1>2. row' = row \/ (r.bytes > 0 /\ row' = [row EXCEPT ![i] = c])
  BY SharedTypes, FileTypes DEF FinishFile
<1>3. r \in Checkpoints
  BY SharedTypes, FileTypes
<1>4. n \in 0 .. Blocks /\ (r.bytes > 0 => n > 0)
  BY <1>3, CheckpointTypes, BoundsAssumption
<1> HIDE DEF n
<1>5. c \in Checkpoints /\ c.bytes = n /\ c.finished /\ c.hash = task[f].hasher
  BY <1>3, <1>4, FileTypes DEF Tasks, Checkpoints
<1>6. /\ t \in Tasks /\ t.pc = "done" /\ t.hasher = task[f].hasher
      /\ t.writes = {} /\ Positive(t.writes) /\ SoundWrites(src, t.writes)
  BY <1>1, FileTypes DEF Tasks, TaskPcs, Positive, SoundWrites
<1> HIDE DEF t, c
<1>7. Shape(t, dst[f])
  BY <1>6 DEF Shape
<1>8. ASSUME Sound PROVE TaskSound(src, f, t, dst[f]) /\ SoundCp(src, c)
  BY <1>1, <1>5, <1>6, <1>8, FileSound DEF TaskSound, SoundCp
<1>9. /\ row' \in [Idx -> Checkpoints]
      /\ \A j \in Idx : row[j].bytes > 0 => row'[j].bytes > 0
      /\ Sound => \A j \in Idx : SoundCp(src, row'[j])
  <2>1. CASE row' = row
    BY <2>1, SharedTypes, FileSound
  <2>2. CASE r.bytes > 0 /\ row' = [row EXCEPT ![i] = c]
    <3>1. row' \in [Idx -> Checkpoints] /\ row'[i] = c /\ \A j \in Idx \ {i} : row'[j] = row[j]
      BY <2>2, <1>5, SharedTypes, FileTypes
    <3>2. c.bytes > 0
      BY <2>2, <1>4, <1>5
    <3> QED
      BY <3>1, <3>2, <1>8, FileSound
  <2> QED
    BY <1>2, <2>1, <2>2
<1>10. dst[f] \in Contents /\ synced[f] \in Nat /\ synced[f] =< Len(dst[f])
  BY FileTypes, SharedTypes
<1> QED
  BY <1>1, <1>6, <1>7, <1>8, <1>9, <1>10, FileStep, FileSound, SharedTypes

\* Fail
LEMMA FailStep ==
  ASSUME IInv, NEW f \in Files, Fail(f)
  PROVE  IInv'
<1> DEFINE t == [task[f] EXCEPT !.pc = "failed"]
<1>1. /\ UNCHANGED <<src, job, refused, ending, boundVars>> /\ row' = row /\ pending' = pending /\ seen' = seen
      /\ task[f].pc = "copy" /\ task[f].writes = {}
      /\ task' = [task EXCEPT ![f] = t]
  BY SharedTypes DEF Fail, sinkVars
<1>2. PICK d \in {dst[f], dst[f] \o task[f].buf, <<>>} :
        dst' = [dst EXCEPT ![f] = d] /\ synced' = [synced EXCEPT ![f] = IF d = <<>> THEN 0 ELSE @]
  BY DEF Fail
<1> DEFINE n == IF d = <<>> THEN 0 ELSE synced[f]
<1>3. synced' = [synced EXCEPT ![f] = n]
  BY <1>2, SharedTypes
<1>4. /\ d \in Contents /\ n \in Nat /\ n =< Len(d)
      /\ Sound => Own(src, f, d)
  <2>1. CASE d = <<>>
    BY <2>1, EmptyIsContents, RunOfNothing
  <2>2. CASE d = dst[f] /\ d # <<>>
    BY <2>2, FileTypes, SharedTypes, FileSound
  <2>3. CASE d = dst[f] \o task[f].buf /\ d # <<>>
    BY <2>3, <1>1, FileTypes, Flushed
  <2> QED
    BY <1>2, <2>1, <2>2, <2>3
<1>5. /\ t \in Tasks /\ t.pc = "failed"
      /\ t.writes = {} /\ Positive(t.writes) /\ SoundWrites(src, t.writes)
  BY <1>1, FileTypes DEF Tasks, TaskPcs, Positive, SoundWrites
<1> HIDE DEF t, n
<1>6. Shape(t, d) /\ TaskSound(src, f, t, d)
  BY <1>5 DEF Shape, TaskSound
<1> QED
  BY <1>1, <1>2, <1>3, <1>4, <1>5, <1>6, FileStep, FileSound, SharedTypes

\* What one write to the journal leaves, done or refused.
Stored(w) ==
  /\ row' \in [Idx -> Checkpoints] /\ refused' \in SUBSET Idx
  /\ row'[w[1]].bytes > 0 \/ w[1] \in refused'
  /\ \A j \in Idx : row[j].bytes > 0 => row'[j].bytes > 0
  /\ \A j \in refused : j \in refused' \/ row'[j].bytes > 0
  /\ Sound => \A j \in Idx : SoundCp(src, row'[j])

LEMMA StoreIsSound ==
  ASSUME IInv, NEW w, w[1] \in Idx, w[2] \in Checkpoints, w[2].bytes > 0,
         Sound => SoundCp(src, w[2]), Store(w)
  PROVE  Stored(w)
<1>1. Sound => \A j \in Idx : SoundCp(src, row[j])
  BY DEF Sound
<1>2. CASE row' = [row EXCEPT ![w[1]] = w[2]] /\ refused' = refused \ {w[1]}
  <2>1. /\ row' \in [Idx -> Checkpoints] /\ row'[w[1]] = w[2]
        /\ \A j \in Idx \ {w[1]} : row'[j] = row[j]
    BY <1>2, SharedTypes
  <2> QED BY <1>1, <1>2, <2>1, SharedTypes DEF Stored
<1>3. CASE refused' = refused \union {w[1]} /\ UNCHANGED row
  BY <1>1, <1>3, SharedTypes DEF Stored
<1> QED BY <1>2, <1>3 DEF Store

\* WriteThrough
LEMMA WriteThroughStep ==
  ASSUME IInv, NEW f \in Files, WriteThrough(f)
  PROVE  IInv'
<1>1. PICK w \in task[f].writes : Store(w) /\ task' = [task EXCEPT ![f].writes = @ \ {w}]
  BY DEF WriteThrough
<1> DEFINE t == [task[f] EXCEPT !.writes = task[f].writes \ {w}]
<1>2. /\ UNCHANGED <<src, job, ending, boundVars>> /\ pending' = pending /\ seen' = seen
      /\ dst' = [dst EXCEPT ![f] = dst[f]] /\ synced' = [synced EXCEPT ![f] = synced[f]]
      /\ task' = [task EXCEPT ![f] = t]
  BY <1>1, SharedTypes DEF WriteThrough, diskVars, sinkVars
<1>3. task[f].writes \in SUBSET (Idx \X Checkpoints)
  BY FileTypes DEF Tasks
<1>4. w[1] \in Idx /\ w[2] \in Checkpoints /\ w[2].bytes > 0
  BY <1>1, <1>3, FileTypes DEF Positive
<1>5. Sound => SoundCp(src, w[2])
  BY <1>1, FileSound DEF SoundWrites
<1>6. Stored(w)
  BY <1>1, <1>4, <1>5, StoreIsSound
<1>7. /\ t \in Tasks /\ t.writes = task[f].writes \ {w}
      /\ t.pc = task[f].pc /\ t.copied = task[f].copied
      /\ t.hasher = task[f].hasher /\ t.buf = task[f].buf
  BY <1>3, FileTypes DEF Tasks, TaskPcs
<1> HIDE DEF t
<1>8. Shape(t, dst[f]) /\ Positive(t.writes)
  BY <1>7, FileTypes DEF Shape, Positive
<1>9. Sound => TaskSound(src, f, t, dst[f]) /\ SoundWrites(src, t.writes)
  BY <1>7, FileSound DEF TaskSound, SoundWrites
<1>10. \A v \in task[f].writes :
         v \in t.writes \/ row'[v[1]].bytes > 0 \/ v[1] \in refused'
  BY <1>6, <1>7 DEF Stored
<1>11. dst[f] \in Contents /\ synced[f] \in Nat /\ synced[f] =< Len(dst[f])
  BY FileTypes, SharedTypes
<1> QED
  BY <1>2, <1>6, <1>7, <1>8, <1>9, <1>10, <1>11, FileStep, FileSound, SharedTypes DEF Stored

-----------------------------------------------------------------------------
(* The end of the job and the environment.                                 *)

\* JobDrain and FinishJob
LEMMA JobDrainStep ==
  ASSUME IInv, JobDrain \/ FinishJob
  PROVE  IInv'
<1>1. CASE JobDrain
  <2> DEFINE drained == PendingOf(Idx, pending)
  <2>1. /\ UNCHANGED <<src, dst, synced, row, job, seen, refused, task, crashes, edits>>
        /\ ending' = [begun |-> TRUE, over |-> FALSE, writes |-> drained]
        /\ pending' = Without(Idx, pending)
    BY <1>1 DEF JobDrain, diskVars, boundVars
  <2>2. /\ drained \in SUBSET (Idx \X Checkpoints) /\ Positive(drained)
        /\ Sound => SoundWrites(src, drained)
        /\ pending' \in [Idx -> Checkpoints]
        /\ Sound => \A j \in Idx : SoundCp(src, pending'[j])
    <3>1. Sound => \A j \in Idx : SoundCp(src, pending[j])
      BY DEF Sound
    <3> QED
      BY <2>1, <3>1, SharedTypes, DrainIsSound
  <2> HIDE DEF drained
  <2>3. /\ ending' \in [begun : BOOLEAN, over : BOOLEAN, writes : SUBSET (Idx \X Checkpoints)]
        /\ ending'.writes = drained
    BY <2>1, <2>2
  <2>4. TypeOK'
    BY <2>1, <2>2, <2>3 DEF IInv, TypeOK
  <2>5. Shapes' /\ SeenIsOnDisk'
    BY <2>1, <2>2, <2>3 DEF IInv, Shapes, SeenIsOnDisk
  <2>6. (edits = 0 => Sound)'
    BY <2>1, <2>2, <2>3 DEF IInv, Sound
  <2> QED
    BY <2>4, <2>5, <2>6 DEF IInv
<1>2. CASE FinishJob
  <2>1. /\ UNCHANGED <<src, dst, synced, row, pending, seen, refused, task, crashes, edits>>
        /\ job' \in {"Running", "Ended"}
    BY <1>2 DEF FinishJob, diskVars, sinkVars, boundVars
  <2>2. /\ ending' \in [begun : BOOLEAN, over : BOOLEAN, writes : SUBSET (Idx \X Checkpoints)]
        /\ ending'.writes = ending.writes
    BY <1>2 DEF FinishJob, IInv, TypeOK
  <2>3. TypeOK'
    BY <2>1, <2>2 DEF IInv, TypeOK
  <2>4. Shapes' /\ SeenIsOnDisk'
    BY <2>1, <2>2 DEF IInv, Shapes, SeenIsOnDisk
  <2>5. (edits = 0 => Sound)'
    BY <2>1, <2>2 DEF IInv, Sound
  <2> QED BY <2>3, <2>4, <2>5 DEF IInv
<1> QED
  BY <1>1, <1>2

\* JobWrite
LEMMA JobWriteStep ==
  ASSUME IInv, JobWrite
  PROVE  IInv'
<1>1. PICK w \in ending.writes : Store(w) /\ ending' = [ending EXCEPT !.writes = @ \ {w}]
  BY DEF JobWrite
<1>2. UNCHANGED <<src, dst, synced, job, pending, seen, task, crashes, edits>>
  BY DEF JobWrite, diskVars, sinkVars, boundVars
<1>3. /\ ending \in [begun : BOOLEAN, over : BOOLEAN, writes : SUBSET (Idx \X Checkpoints)]
      /\ Positive(ending.writes)
  BY DEF IInv, TypeOK, Shapes
<1>4. w[1] \in Idx /\ w[2] \in Checkpoints /\ w[2].bytes > 0
  BY <1>1, <1>3 DEF Positive
<1>5. /\ ending' \in [begun : BOOLEAN, over : BOOLEAN, writes : SUBSET (Idx \X Checkpoints)]
      /\ ending'.writes \subseteq ending.writes
  BY <1>1, <1>3
<1>6. Stored(w)
  <2>1. Sound => SoundCp(src, w[2])
    BY <1>1 DEF Sound, SoundWrites
  <2> QED BY <1>1, <1>4, <2>1, StoreIsSound
<1>7. TypeOK'
  BY <1>2, <1>5, <1>6 DEF IInv, TypeOK, Stored
<1>8. Shapes'
  BY <1>2, <1>3, <1>5 DEF IInv, Shapes, Positive
<1>9. SeenIsOnDisk'
  BY <1>2, <1>6, SharedTypes DEF IInv, SeenIsOnDisk, Stored
<1>10. ASSUME edits' = 0 PROVE Sound'
  <2>1. Sound
    BY <1>2, <1>10 DEF IInv
  <2>2. \A j \in Idx : SoundCp(src, row'[j])
    BY <2>1, <1>6 DEF Stored
  <2>3. SoundWrites(src, ending'.writes)
    BY <2>1, <1>5 DEF Sound, SoundWrites
  <2> QED
    BY <2>1, <2>2, <2>3, <1>2 DEF Sound
<1> QED
  BY <1>7, <1>8, <1>9, <1>10 DEF IInv

\* What both crashes do to the state in memory, given what became of the disk.
LEMMA MemoryLostStep ==
  ASSUME IInv, MemoryLost,
         dst' \in [Files -> Contents], synced' \in [Files -> 0 .. Blocks + 1],
         \A f \in Files : synced'[f] =< Len(dst'[f]),
         Sound => \A f \in Files : Own(src, f, dst'[f])
  PROVE  IInv'
<1>1. /\ UNCHANGED <<src, row, job, edits>>
      /\ task' = [f \in Files |-> Fresh] /\ pending' = Without(Idx, pending)
      /\ seen' = {} /\ refused' = {}
      /\ ending' = [begun |-> FALSE, over |-> FALSE, writes |-> {}]
  BY DEF MemoryLost
<1>2. crashes' \in 0 .. MaxCrashes
  BY BoundsAssumption DEF MemoryLost, IInv, TypeOK
<1>3. pending' \in [Idx -> Checkpoints] /\ (Sound => \A j \in Idx : SoundCp(src, pending'[j]))
  <2>1. Sound => \A j \in Idx : SoundCp(src, pending[j])
    BY DEF Sound
  <2> QED
    BY <1>1, <2>1, SharedTypes, DrainIsSound
<1>4. /\ ending' \in [begun : BOOLEAN, over : BOOLEAN, writes : SUBSET (Idx \X Checkpoints)]
      /\ ending'.writes = {}
  BY <1>1
<1>5. TypeOK'
  BY <1>1, <1>2, <1>3, <1>4, FreshIsSound DEF IInv, TypeOK
<1>6. Shapes'
  BY <1>1, <1>4, FreshIsSound DEF IInv, Shapes, Positive
<1>7. SeenIsOnDisk'
  BY <1>1 DEF SeenIsOnDisk
<1>8. ASSUME edits' = 0 PROVE Sound'
  <2>1. Sound
    BY <1>1, <1>8 DEF IInv
  <2>2. \A f \in Files : /\ Own(src, f, dst'[f])
                         /\ TaskSound(src, f, task'[f], dst'[f])
                         /\ SoundWrites(src, task'[f].writes)
    BY <2>1, <1>1, FreshIsSound DEF SoundWrites
  <2>3. SoundWrites(src, ending'.writes)
    BY <1>4 DEF SoundWrites
  <2> QED
    BY <2>1, <2>2, <2>3, <1>1, <1>3 DEF Sound
<1> QED
  BY <1>5, <1>6, <1>7, <1>8 DEF IInv

\* Kill
LEMMA KillStep ==
  ASSUME IInv, Kill
  PROVE  IInv'
<1>1. MemoryLost /\ dst' = dst /\ synced' = synced
  BY DEF Kill, diskVars
<1>2. \A f \in Files : synced'[f] =< Len(dst'[f])
  BY <1>1 DEF IInv, TypeOK
<1>3. Sound => \A f \in Files : Own(src, f, dst'[f])
  BY <1>1 DEF Sound
<1> QED
  BY <1>1, <1>2, <1>3, SharedTypes, MemoryLostStep

\* PowerLoss: what is left of a destination is a prefix of it and Garbage.
LEMMA PowerLossStep ==
  ASSUME IInv, PowerLoss
  PROVE  IInv'
<1>1. PICK n \in [Files -> 0 .. Blocks + 1], good \in [Files -> 0 .. Blocks + 1] :
        /\ \A f \in Files : synced[f] <= good[f] /\ good[f] <= n[f] /\ n[f] <= Len(dst[f])
        /\ dst' = [f \in Files |->
                    [i \in 1 .. n[f] |-> IF i <= good[f] THEN dst[f][i] ELSE Garbage]]
        /\ synced' = n
  BY DEF PowerLoss
<1>2. ASSUME NEW f \in Files
      PROVE  /\ dst'[f] \in Contents /\ synced'[f] =< Len(dst'[f])
             /\ Own(src, f, dst[f]) => Own(src, f, dst'[f])
  <2> DEFINE k == n[f]
             g == good[f]
             d == dst[f]
             e == [i \in 1 .. k |-> IF i <= g THEN d[i] ELSE Garbage]
  <2>1. /\ k \in 0 .. Blocks + 1 /\ g \in 0 .. Blocks + 1 /\ g =< k /\ k =< Len(d)
        /\ d \in Seq(BlockValues)
    BY <1>1, FileTypes
  <2>2. dst'[f] = e /\ synced'[f] = k
    BY <1>1
  <2> HIDE DEF k, g, d
  <2>3. k \in Nat /\ g \in Nat /\ k =< Blocks + 1
    BY <2>1, BoundsAssumption
  <2>4. \A i \in 1 .. k : d[i] \in BlockValues
    BY <2>1, <2>3
  <2>5. Garbage \in BlockValues
    BY DEF BlockValues
  <2>6. e \in Seq(BlockValues) /\ Len(e) = k /\ \A i \in 1 .. k : e[i] \in {d[i], Garbage}
    BY <2>3, <2>4, <2>5
  <2> HIDE DEF e
  <2>7. e \in Contents
    BY <2>3, <2>6, ContentsAreSequences
  <2>8. Own(src, f, d) => Own(src, f, e)
    BY <2>1, <2>3, <2>6 DEF Own
  <2> QED
    BY <2>2, <2>3, <2>6, <2>7, <2>8 DEF d
<1>3. dst' \in [Files -> Contents]
  <2>1. dst' = [f \in Files |-> dst'[f]]
    BY <1>1
  <2> QED
    BY <2>1, <1>2
<1>4. Sound => \A f \in Files : Own(src, f, dst'[f])
  BY <1>2 DEF Sound
<1>5. MemoryLost
  BY DEF PowerLoss
<1> QED
  BY <1>1, <1>2, <1>3, <1>4, <1>5, MemoryLostStep

\* EditSource: from here on nothing is claimed of the blocks.
LEMMA EditSourceStep ==
  ASSUME IInv, NEW f \in Files, EditSource(f)
  PROVE  IInv'
<1>1. PICK n \in 1 .. Blocks : src' = [src EXCEPT ![f] = [version |-> @.version + 1, len |-> n]]
  BY DEF EditSource
<1>2. /\ UNCHANGED <<dst, synced, row, job, pending, seen, refused, task, ending, crashes>>
      /\ edits < MaxEdits /\ edits' = edits + 1
  BY DEF EditSource, diskVars, sinkVars
<1>3. edits \in 0 .. MaxEdits /\ edits' \in 0 .. MaxEdits /\ edits' # 0 /\ edits' =< MaxEdits
  BY <1>2, BoundsAssumption DEF IInv, TypeOK
<1>4. \A g \in Files : src[g].version \in Nat /\ src[g].version >= 1 /\ src[g].version =< edits + 1
  BY BoundsAssumption DEF IInv, TypeOK, Shapes
<1>5. src \in [Files -> [version : 1 .. MaxEdits + 1, len : 1 .. Blocks]]
  BY DEF IInv, TypeOK
<1> DEFINE v == src[f].version + 1
<1>6. v \in 1 .. MaxEdits + 1 /\ v =< edits' + 1
  <2> DEFINE u == src[f].version
  <2>1. u \in Nat /\ u >= 1 /\ u =< edits + 1
    BY <1>4
  <2> HIDE DEF u
  <2>2. u + 1 \in 1 .. MaxEdits + 1 /\ u + 1 =< edits' + 1
    BY <2>1, <1>2, <1>3, BoundsAssumption
  <2> QED
    BY <2>2 DEF u
<1>7. src' = [src EXCEPT ![f] = [version |-> v, len |-> n]]
  BY <1>1, <1>5
<1> HIDE DEF v
<1>8. src' \in [Files -> [version : 1 .. MaxEdits + 1, len : 1 .. Blocks]]
  BY <1>5, <1>6, <1>7
<1>9. \A g \in Files : src'[g].version =< edits' + 1
  <2> SUFFICES ASSUME NEW g \in Files PROVE src'[g].version =< edits' + 1
    OBVIOUS
  <2>1. CASE g = f
    BY <2>1, <1>5, <1>6, <1>7
  <2>2. CASE g # f
    <3> DEFINE u == src[g].version
    <3>1. src'[g].version = u /\ u \in Nat /\ u =< edits + 1
      BY <2>2, <1>4, <1>5, <1>7
    <3> HIDE DEF u
    <3> QED
      BY <3>1, <1>2, <1>3, BoundsAssumption
  <2> QED
    BY <2>1, <2>2
<1>10. TypeOK'
  BY <1>2, <1>3, <1>8 DEF IInv, TypeOK
<1>11. Shapes' /\ SeenIsOnDisk'
  BY <1>2, <1>9 DEF IInv, Shapes, SeenIsOnDisk
<1> QED
  BY <1>3, <1>10, <1>11 DEF IInv

-----------------------------------------------------------------------------
(* The theorems.                                                           *)

\* Every step keeps the invariant.
LEMMA NextIInv == IInv /\ [Next]_vars => IInv'
<1> SUFFICES ASSUME IInv, [Next]_vars PROVE IInv'
  OBVIOUS
<1>1. ASSUME NEW f \in Files, TaskStep(f) PROVE IInv'
  BY <1>1, StartStep, BeginStep, MoveBlockStep, CheckpointStep, EofStep, FinishFlushStep,
     FinishFileStep, FailStep, WriteThroughStep DEF TaskStep
<1>2. CASE UNCHANGED vars
  BY <1>2 DEF vars, IInv, TypeOK, Shapes, SeenIsOnDisk, Sound
<1>3. ASSUME JobStep PROVE IInv'
  BY <1>3, JobDrainStep, JobWriteStep DEF JobStep
<1> QED
  BY <1>1, <1>2, <1>3, EditSourceStep, KillStep, PowerLossStep DEF Next, Over

\* The invariant says what the properties say.
LEMMA IInvImplies ==
  IInv => TypeOK /\ CompletedIsSource /\ RowIsSourcePrefix /\ SeenIsOnDisk
<1> SUFFICES ASSUME IInv PROVE CompletedIsSource /\ RowIsSourcePrefix
  BY DEF IInv
<1>1. CompletedIsSource
  <2> SUFFICES ASSUME edits = 0, NEW f \in Files, task[f].pc = "done"
               PROVE  dst[f] = Source(f)
    BY DEF CompletedIsSource
  <2>1. Len(dst[f]) = src[f].len /\ Run(src, f, dst[f])
    BY DEF IInv, Sound, TaskSound
  <2>2. src[f].len \in Nat /\ dst[f] \in Seq(BlockValues) /\ Block(f) \in BlockValues
    BY FileTypes
  <2> QED
    BY <2>1, <2>2, RunIsPrefix
<1>2. RowIsSourcePrefix
  <2> SUFFICES ASSUME edits = 0, NEW i \in Idx, row[i].bytes > 0
               PROVE  IF row[i].finished THEN \E f \in Files : row[i].hash = Source(f)
                      ELSE row[i].hash = SubSeq(Source(row[i].owner), 1, row[i].bytes)
    BY DEF RowIsSourcePrefix
  <2>1. SoundCp(src, row[i]) /\ row[i] \in Checkpoints
    BY SharedTypes DEF IInv, Sound
  <2>2. row[i].hash \in Seq(BlockValues) /\ row[i].owner \in Files
    BY <2>1, CheckpointTypes, ContentsAreSequences
  <2>3. CASE row[i].finished
    <3>1. PICK f \in Files : Len(row[i].hash) = src[f].len /\ Run(src, f, row[i].hash)
      BY <2>1, <2>3 DEF SoundCp
    <3>2. src[f].len \in Nat /\ Block(f) \in BlockValues
      BY FileTypes
    <3>3. row[i].hash = Source(f)
      BY <3>1, <3>2, <2>2, RunIsPrefix
    <3> QED
      BY <2>3, <3>3
  <2>4. CASE ~row[i].finished
    <3> DEFINE g == row[i].owner
    <3>1. row[i].bytes =< src[g].len /\ Len(row[i].hash) = row[i].bytes /\ Run(src, g, row[i].hash)
      BY <2>1, <2>4 DEF SoundCp
    <3>2. g \in Files
      BY <2>2
    <3> HIDE DEF g
    <3>3. src[g].len \in Nat /\ Block(g) \in BlockValues
      BY <3>2, FileTypes
    <3>4. row[i].hash = SubSeq(Source(g), 1, Len(row[i].hash))
      BY <3>1, <3>2, <3>3, <2>2, RunIsPrefix
    <3> QED
      BY <2>4, <3>1, <3>4 DEF g
  <2> QED
    BY <2>3, <2>4
<1> QED
  BY <1>1, <1>2

\* Every state of every behaviour is of the types declared: no copy runs past
\* the end of its source, no checkpoint counts more than there is, and never is
\* more synced than written.
THEOREM TypeCorrect == Spec => []TypeOK
<1>1. IInv => TypeOK
  BY IInvImplies
<1> QED
  BY <1>1, InitIInv, NextIInv, PTL DEF Spec

\* A copy the engine reports complete holds the source, if nobody edited it,
\* after any sequence of kills, power losses, resumes and fresh starts, and with
\* any files sharing a journal index.
THEOREM CompletedCopiesAreSources == Spec => []CompletedIsSource
<1>1. IInv => CompletedIsSource
  BY IInvImplies
<1> QED
  BY <1>1, InitIInv, NextIInv, PTL DEF Spec

\* The journal's checkpoints describe prefixes of the sources they name.
THEOREM RowsArePrefixes == Spec => []RowIsSourcePrefix
<1>1. IInv => RowIsSourcePrefix
  BY IInvImplies
<1> QED
  BY <1>1, InitIInv, NextIInv, PTL DEF Spec

\* seen_on_disk names only indices whose row is written or about to be.
THEOREM SeenRowsExist == Spec => []SeenIsOnDisk
<1>1. IInv => SeenIsOnDisk
  BY IInvImplies
<1> QED
  BY <1>1, InitIInv, NextIInv, PTL DEF Spec
=============================================================================
