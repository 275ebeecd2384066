-------------------------- MODULE LiveMirrorProofs --------------------------
(***************************************************************************)
(* TLAPS proofs about LiveMirror, for any sets of paths, any number of     *)
(* changes and any number of overflows and failed rounds.                  *)
(***************************************************************************)
EXTENDS LiveMirror, SequenceTheorems, TLAPS

\* The raw events that may make the loop hear of a change of p.
Tells(e, p) == e.kind = "rescan" \/ About(p, e)

\* A debounce queue holds well-formed events under their own paths.
Kept(q) == \A p \in DOMAIN q : p \in Paths /\ q[p] \in Events /\ q[p].path = p

\* PulseIsOwed with the reason: it is not enough that some raw event is left.
OwedByWatch ==
  Watching => \A p \in owed \ silent :
    \/ \E i \in 1 .. Len(raw) : Tells(raw[i], p)
    \/ DOMAIN queue # {}
    \/ out # <<>>

NothingOwedYet == loop \in {"idle", "opening"} => owed = {}

\* Until the first pulse has been taken, what a round did not find is owed.
MissedIsOwed ==
  /\ loop \in {"check", "wait"} => walked = {}
  /\ ~drain /\ loop \in {"syncing", "check", "wait"} => (dirty \ walked) \ silent \subseteq owed

IInv == TypeOK /\ OwedByWatch /\ NothingOwedYet /\ MissedIsOwed

-----------------------------------------------------------------------------
LEMMA PushKeeps ==
  ASSUME NEW q, Kept(q), NEW e \in Events
  PROVE  /\ Kept(Push(q, e))
         /\ DOMAIN Push(q, e) = DOMAIN q \cup {e.path}
  BY DEF Kept, Push, Events

LEMMA EventTypes ==
  /\ \A k \in Kinds, p \in Paths : Event(k, p) \in Events /\ Event(k, p).path = p
  /\ \A p \in Paths \cup {Nowhere}, q \in Paths :
       Rename(p, q) \in Events /\ Rename(p, q).path = q
  BY DEF Event, Rename, Events, Kinds

LEMMA RescanKeeps ==
  ASSUME NEW q, Kept(q), NEW found, found \subseteq Regular
  PROVE  /\ Kept(Rescan(q, found))
         /\ DOMAIN Rescan(q, found) = DOMAIN q \cup found
<1> DEFINE r == Rescan(q, found)
<1>1. DOMAIN r = DOMAIN q \cup found
  BY DEF Rescan
<1>2. ASSUME NEW x \in found
      PROVE  r[x] = Push(q, Event("modified", x))[x] /\ x \in Paths
  BY <1>2 DEF Rescan, Paths
<1>3. ASSUME NEW x \in DOMAIN q \ found PROVE r[x] = q[x]
  BY <1>3 DEF Rescan
<1>4. ASSUME NEW x \in found
      PROVE  r[x] \in Events /\ r[x].path = x /\ x \in Paths
  <2>1. Event("modified", x) \in Events /\ Event("modified", x).path = x
    BY <1>2, EventTypes DEF Kinds
  <2>2. Kept(Push(q, Event("modified", x))) /\ x \in DOMAIN Push(q, Event("modified", x))
    BY <2>1, PushKeeps
  <2> QED BY <1>2, <2>2 DEF Kept
<1> HIDE DEF r
<1>5. Kept(r)
  BY <1>1, <1>3, <1>4 DEF Kept
<1> QED BY <1>1, <1>5 DEF r

\* What a handler does to the watch: types are kept, nothing leaves the debounce
\* queue, and an event about an ordinary file enters it, unless it hides the file.
Certain(e) == \E p \in Regular : About(p, e) /\ p \notin Hidden(e)

Handled(e) ==
  /\ Kept(queue') /\ temps' \subseteq Temps /\ gone' \in Nat
  /\ DOMAIN queue \subseteq DOMAIN queue'
  /\ Certain(e) => DOMAIN queue' # {}

LEMMA EnqueueHandles ==
  ASSUME TypeOK, NEW e, NEW n \in Events, Enqueue(n)
  PROVE  Handled(e)
<1>1. Kept(queue)
  BY DEF TypeOK, Kept
<1>2. Kept(queue') /\ DOMAIN queue' = DOMAIN queue \cup {n.path}
  BY <1>1, PushKeeps DEF Enqueue
<1> QED BY <1>2 DEF Handled, Enqueue, TypeOK

LEMMA AppearsHandles ==
  ASSUME TypeOK, NEW e, NEW p \in Paths, NEW k \in Kinds, Appears(p, k)
  PROVE  Handled(e)
<1>1. CASE gone > 0
  <2>1. Kept(queue) /\ Event("modified", p) \in Events
    BY EventTypes DEF TypeOK, Kept, Kinds
  <2>2. Claim(p)
    BY <1>1 DEF Appears
  <2>3. Kept(queue') /\ DOMAIN queue' = DOMAIN queue \cup {Event("modified", p).path}
    BY <2>1, <2>2, PushKeeps DEF Claim
  <2>4. gone' \in Nat /\ temps' = temps
    BY <1>1, <2>2 DEF Claim, TypeOK
  <2> QED BY <2>3, <2>4 DEF Handled, TypeOK
<1>2. CASE ~(gone > 0)
  <2>1. Enqueue(Event(k, p)) /\ Event(k, p) \in Events
    BY <1>2, EventTypes DEF Appears
  <2> QED BY <2>1, EnqueueHandles
<1> QED BY <1>1, <1>2

\* Events that are dropped, or only noted, are not certain ones.
LEMMA IgnoreHandles ==
  ASSUME TypeOK, NEW e, ~Certain(e), Ignore \/ (\E p \in Temps : NoteRemoved(p))
  PROVE  Handled(e)
  BY DEF Handled, Ignore, NoteRemoved, TypeOK, Kept

LEMMA HandlersHandle ==
  ASSUME TypeOK, NEW e \in RawEvents,
         HandleCreate(e) \/ HandleModify(e) \/ HandleRemove(e) \/ HandleRename(e)
  PROVE  Handled(e)
<1>0. e.kind \in RawKinds \cup {"both"}
  BY DEF HandleCreate, HandleModify, HandleRemove, HandleRename, RawKinds
<1>1. /\ e.path \in Paths /\ e.from \in Paths \cup {Nowhere}
      /\ e.kind # "both" => e.from = Nowhere
      /\ Kept(queue) /\ temps \subseteq Temps
  BY <1>0 DEF RawEvents, Raw, Anywhere, TypeOK, Kept, RawKinds
\* Only events about ordinary files are certain.
<1>11. e.kind # "both" /\ e.path \notin Regular => ~Certain(e)
  BY <1>1, NowhereAssumption DEF Certain, About, Paths
<1>2. CASE HandleCreate(e)
  <2>1. CASE e.path \in Dropped /\ Ignore
    <3>1. ~Certain(e)
      BY <1>2, <1>11, <2>1, PathsAssumption DEF HandleCreate
    <3> QED BY <2>1, <3>1, IgnoreHandles
  <2>2. CASE e.path \in Temps /\ temps' = temps \cup {e.path} /\ UNCHANGED <<queue, gone>>
    <3>1. ~Certain(e)
      BY <1>2, <1>11, <2>2, PathsAssumption DEF HandleCreate
    <3> QED BY <1>1, <2>2, <3>1 DEF Handled, Kept, TypeOK
  <2>3. CASE e.path \in Regular /\ Appears(e.path, "created")
    BY <1>1, <1>2, <2>3, AppearsHandles DEF HandleCreate, Kinds
  <2> QED BY <1>2, <2>1, <2>2, <2>3 DEF HandleCreate
<1>3. CASE HandleModify(e)
  <2>1. CASE e.path \notin Regular /\ Ignore
    <3>1. ~Certain(e)
      BY <1>3, <1>11, <2>1 DEF HandleModify
    <3> QED BY <2>1, <3>1, IgnoreHandles
  <2>2. CASE e.path \in Regular /\ Enqueue(Event("modified", e.path))
    BY <1>1, <1>3, <2>2, EnqueueHandles, EventTypes DEF HandleModify, Kinds
  <2> QED BY <1>3, <2>1, <2>2 DEF HandleModify
<1>4. CASE HandleRemove(e)
  <2>1. CASE e.path \in Dropped \cup (Temps \ temps) /\ Ignore
    <3>1. ~Certain(e)
      BY <1>4, <1>11, <2>1, PathsAssumption DEF HandleRemove
    <3> QED BY <2>1, <3>1, IgnoreHandles
  <2>2. CASE e.path \in temps /\ NoteRemoved(e.path)
    <3>1. ~Certain(e)
      BY <1>1, <1>4, <1>11, <2>2, PathsAssumption DEF HandleRemove
    <3> QED BY <1>1, <2>2, <3>1, IgnoreHandles
  <2>3. CASE e.path \in Regular /\ Enqueue(Event("removed", e.path))
    BY <1>1, <1>4, <2>3, EnqueueHandles, EventTypes DEF HandleRemove, Kinds
  <2> QED BY <1>4, <2>1, <2>2, <2>3 DEF HandleRemove
<1>5. CASE HandleRename(e)
  <2>0. CASE e.kind \in {"both", "to"} /\ e.path \in Dropped
    <3>1. Ignore
      BY <1>5, <2>0 DEF HandleRename
    <3>2. ~Certain(e)
      BY <1>1, <2>0, PathsAssumption, NowhereAssumption DEF Certain, About, Hidden, Paths
    <3> QED BY <3>1, <3>2, IgnoreHandles
  <2>1. CASE e.kind = "both" /\ e.path \notin Dropped /\ e.from \in temps
    <3>1. /\ temps' = temps \ {e.from} /\ gone' = gone
          /\ queue' = Push(queue, Event("modified", e.path))
      BY <1>5, <2>1 DEF HandleRename
    <3>2. Event("modified", e.path) \in Events
      BY <1>1, <2>1, EventTypes DEF Kinds
    <3>3. Kept(queue') /\ DOMAIN queue' = DOMAIN queue \cup {Event("modified", e.path).path}
      BY <1>1, <3>1, <3>2, PushKeeps
    <3> QED BY <1>1, <3>1, <3>3 DEF Handled, TypeOK
  <2>2. CASE e.kind = "both" /\ e.path \notin Dropped /\ e.from \notin temps
    <3>1. Enqueue(Rename(e.from, e.path))
      BY <1>5, <2>2 DEF HandleRename
    <3>2. Rename(e.from, e.path) \in Events
      BY <1>1, <2>2, EventTypes
    <3> QED BY <3>1, <3>2, EnqueueHandles
  <2>3. CASE e.kind = "from"
    <3>1. CASE e.path \in Dropped /\ Ignore
      <4>1. ~Certain(e)
        BY <1>11, <2>3, <3>1, PathsAssumption
      <4> QED BY <3>1, <4>1, IgnoreHandles
    <3>2. CASE e.path \in temps /\ NoteRemoved(e.path)
      <4>1. ~Certain(e)
        BY <1>1, <1>11, <2>3, <3>2, PathsAssumption
      <4> QED BY <1>1, <3>2, <4>1, IgnoreHandles
    <3>3. CASE Enqueue(Event("removed", e.path))
      BY <1>1, <2>3, <3>3, EnqueueHandles, EventTypes DEF Kinds
    <3> QED BY <1>5, <2>3, <3>1, <3>2, <3>3 DEF HandleRename
  <2>4. CASE e.kind = "to" /\ e.path \notin Dropped
    <3>1. Appears(e.path, "created")
      BY <1>5, <2>4 DEF HandleRename
    <3> QED BY <1>1, <2>4, <3>1, AppearsHandles DEF Kinds
  <2>5. CASE e.kind = "any"
    <3>1. CASE e.path \in Dropped \cup (Temps \ temps) /\ Ignore
      <4>1. ~Certain(e)
        BY <1>11, <2>5, <3>1, PathsAssumption
      <4> QED BY <3>1, <4>1, IgnoreHandles
    <3>2. CASE e.path \in temps /\ NoteRemoved(e.path)
      <4>1. ~Certain(e)
        BY <1>1, <1>11, <2>5, <3>2, PathsAssumption
      <4> QED BY <1>1, <3>2, <4>1, IgnoreHandles
    <3>3. CASE e.path \in Regular /\ Appears(e.path, "modified")
      BY <1>1, <2>5, <3>3, AppearsHandles DEF Kinds
    <3> QED BY <1>5, <2>5, <3>1, <3>2, <3>3 DEF HandleRename
  <2> QED BY <1>5, <2>0, <2>1, <2>2, <2>3, <2>4, <2>5 DEF HandleRename
<1> QED BY <1>2, <1>3, <1>4, <1>5

-----------------------------------------------------------------------------
(* Changes of the left side.                                               *)

\* What the invariants need of a change and its raw events: each ordinary file
\* that changed has an event that tells of it.
Reports(ps, es) ==
  /\ ps \subseteq Paths /\ es \in Seq(RawEvents) /\ disk' \subseteq Paths
  /\ \A p \in ps \cap Regular : \E i \in 1 .. Len(es) : Tells(es[i], p)

LEMMA OneReports ==
  ASSUME NEW p \in Paths, NEW e \in RawEvents, Tells(e, p), disk' \subseteq Paths
  PROVE  Reports({p}, <<e>>)
<1>1. <<e>> \in Seq(RawEvents) /\ Len(<<e>>) = 1 /\ <<e>>[1] = e
  OBVIOUS
<1> QED BY <1>1 DEF Reports

LEMMA RawTells ==
  /\ \A k \in RawKinds, p \in Paths : Raw(k, p) \in RawEvents /\ Tells(Raw(k, p), p)
  /\ \A p \in Paths : Anywhere \in RawEvents /\ Tells(Anywhere, p)
  /\ \A p, q \in Paths : Both(p, q) \in RawEvents /\ Tells(Both(p, q), p) /\ Tells(Both(p, q), q)
  BY DEF Raw, Anywhere, Both, RawEvents, Tells, About

LEMMA SaveReports ==
  ASSUME TypeOK, Save
  PROVE  \E ps, es : Reports(ps, es) /\ Change(ps, es)
<1>1. PICK p \in Paths :
        /\ disk' = disk \cup {p}
        /\ \E e \in {Raw(IF p \in disk THEN "modify" ELSE "create", p), Anywhere} :
              Change({p}, <<e>>)
  BY DEF Save
<1>2. PICK e \in RawEvents : Tells(e, p) /\ Change({p}, <<e>>)
  BY <1>1, RawTells DEF RawKinds
<1> QED BY <1>1, <1>2, OneReports DEF TypeOK

LEMMA DeleteReports ==
  ASSUME TypeOK, Delete
  PROVE  \E ps, es : Reports(ps, es) /\ Change(ps, es)
<1>1. PICK p \in disk :
        disk' = disk \ {p} /\ \E e \in {Raw("remove", p), Anywhere} : Change({p}, <<e>>)
  BY DEF Delete
<1>2. p \in Paths
  BY DEF TypeOK
<1>3. PICK e \in RawEvents : Tells(e, p) /\ Change({p}, <<e>>)
  BY <1>1, <1>2, RawTells DEF RawKinds
<1> QED BY <1>1, <1>2, <1>3, OneReports DEF TypeOK

LEMMA MoveReports ==
  ASSUME TypeOK, Move
  PROVE  \E ps, es : Reports(ps, es) /\ Change(ps, es)
<1>0. PICK p \in disk : \E q \in Paths \ {p} :
        /\ disk' = (disk \ {p}) \cup {q}
        /\ \E es \in {<<Both(p, q)>>,
                      <<Raw("from", p), Raw("to", q)>>,
                      <<Raw("remove", p), Raw("create", q)>>,
                      <<Raw("any", p), Raw("any", q)>>} : Change({p, q}, es)
  BY DEF Move
<1>1. PICK q \in Paths \ {p} :
        /\ disk' = (disk \ {p}) \cup {q}
        /\ \E es \in {<<Both(p, q)>>,
                      <<Raw("from", p), Raw("to", q)>>,
                      <<Raw("remove", p), Raw("create", q)>>,
                      <<Raw("any", p), Raw("any", q)>>} : Change({p, q}, es)
  BY <1>0
<1>2. p \in Paths /\ q \in Paths /\ {p, q} \subseteq Paths /\ disk' \subseteq Paths
  BY <1>1 DEF TypeOK
<1>3. ASSUME NEW d \in RawEvents, NEW e \in RawEvents, Tells(d, p), Tells(e, q)
      PROVE  Reports({p, q}, <<d, e>>)
  <2>1. /\ <<d, e>> \in Seq(RawEvents) /\ Len(<<d, e>>) = 2
        /\ <<d, e>>[1] = d /\ <<d, e>>[2] = e
    OBVIOUS
  <2> QED BY <1>2, <1>3, <2>1 DEF Reports
<1>4. CASE Change({p, q}, <<Both(p, q)>>)
  <2>1. PICK e \in RawEvents : Tells(e, p) /\ Tells(e, q) /\ Change({p, q}, <<e>>)
    BY <1>2, <1>4, RawTells
  <2>2. <<e>> \in Seq(RawEvents) /\ Len(<<e>>) = 1 /\ <<e>>[1] = e
    OBVIOUS
  <2>3. Reports({p, q}, <<e>>)
    BY <1>2, <2>1, <2>2 DEF Reports
  <2> QED BY <2>1, <2>3
<1>5. CASE \E k, l \in RawKinds : Change({p, q}, <<Raw(k, p), Raw(l, q)>>)
  <2>1. PICK d \in RawEvents, e \in RawEvents :
          Tells(d, p) /\ Tells(e, q) /\ Change({p, q}, <<d, e>>)
    BY <1>2, <1>5, RawTells
  <2> QED BY <1>3, <2>1
<1> QED BY <1>1, <1>4, <1>5 DEF RawKinds

LEMMA DifferKeepsType ==
  ASSUME TypeOK, NEW ps, ps \subseteq Paths, Differ(ps), raw' \in Seq(RawEvents),
         disk' \subseteq Paths, owed' \subseteq Regular, silent' \subseteq Regular
  PROVE  TypeOK'
<1>1. dirty' \subseteq Regular /\ walked' \subseteq dirty'
  BY DEF Differ, TypeOK
<1>2. changes' \in 0 .. MaxChanges
  BY BoundsAssumption DEF Differ, TypeOK
<1> QED BY <1>1, <1>2 DEF Differ, TypeOK

LEMMA ChangeKeepsInv ==
  ASSUME IInv, NEW ps, NEW es, Reports(ps, es), Change(ps, es)
  PROVE  IInv'
<1> USE DEF IInv
<1>1. TypeOK'
  <2>1. raw' \in Seq(RawEvents)
    BY ConcatProperties DEF Change, Reports, TypeOK
  <2>2. owed' \subseteq Regular /\ silent' \subseteq Regular
    BY DEF Change, TypeOK
  <2> QED BY <2>1, <2>2, DifferKeepsType DEF Change, Reports
<1>2. Watching' <=> Watching
  BY DEF Change, Differ, Watching
<1>3. OwedByWatch'
  <2> SUFFICES ASSUME Watching, NEW p \in owed' \ silent', DOMAIN queue = {}, out = <<>>
               PROVE  \E i \in 1 .. Len(raw') : Tells(raw'[i], p)
    BY <1>2 DEF OwedByWatch, Change, Differ
  <2>1. /\ raw' = raw \o es /\ raw \in Seq(RawEvents) /\ es \in Seq(RawEvents)
        /\ Len(raw') = Len(raw) + Len(es) /\ Len(raw) \in Nat /\ Len(es) \in Nat
    BY ConcatProperties, LenProperties DEF Change, Reports, TypeOK
  <2>2. CASE p \in ps
    <3>1. PICK i \in 1 .. Len(es) : Tells(es[i], p)
      BY <1>1, <2>2 DEF Reports, TypeOK
    <3>2. Len(raw) + i \in 1 .. Len(raw') /\ raw'[Len(raw) + i] = es[i]
      BY <2>1, <3>1, ConcatProperties
    <3> QED BY <3>1, <3>2
  <2>3. CASE p \notin ps
    <3>1. p \in owed \ silent
      BY <2>3 DEF Change
    <3>2. PICK i \in 1 .. Len(raw) : Tells(raw[i], p)
      BY <3>1 DEF OwedByWatch
    <3>3. i \in 1 .. Len(raw') /\ raw'[i] = raw[i]
      BY <2>1, <3>2, ConcatProperties
    <3> QED BY <3>2, <3>3
  <2> QED BY <2>2, <2>3
<1>4. NothingOwedYet'
  BY DEF NothingOwedYet, Change, Differ, Watching
<1>5. MissedIsOwed'
  <2>1. /\ loop' = loop /\ drain' = drain /\ walked' = walked \ ps /\ silent' = silent \ ps
        /\ dirty' = dirty \cup (ps \cap Regular) /\ owed \subseteq owed'
    BY DEF Change, Differ
  <2>2. loop \in {"syncing", "check", "wait"} => ps \cap Regular \subseteq owed'
    BY DEF Change, Watching
  <2>3. dirty \subseteq Regular
    BY DEF TypeOK
  <2> QED BY <2>1, <2>2, <2>3 DEF MissedIsOwed
<1> QED BY <1>1, <1>3, <1>4, <1>5

LEMMA ChangeRightKeepsInv ==
  ASSUME IInv, ChangeRight
  PROVE  IInv'
<1> USE DEF IInv
<1>1. PICK p \in Regular :
        Differ({p}) /\ silent' = silent \cup ({p} \ owed) /\ UNCHANGED <<disk, raw, owed>>
  BY DEF ChangeRight
<1>2. TypeOK'
  BY <1>1, DifferKeepsType DEF TypeOK, Paths
<1> QED BY <1>1, <1>2 DEF Differ, OwedByWatch, NothingOwedYet, MissedIsOwed, Watching

-----------------------------------------------------------------------------
(* The watch.                                                              *)

LEMMA OverflowKeepsInv ==
  ASSUME IInv, Overflow
  PROVE  IInv'
<1> USE DEF IInv
<1>1. raw' = <<Anywhere>> /\ Anywhere \in RawEvents /\ Anywhere.kind = "rescan"
  BY DEF Overflow, RawEvents, Anywhere, Raw
<1>2. raw' \in Seq(RawEvents) /\ Len(raw') = 1 /\ raw'[1] = Anywhere
  BY <1>1
<1>3. faults' \in 0 .. MaxFaults
  BY BoundsAssumption DEF Overflow, TypeOK
<1>4. TypeOK'
  BY <1>2, <1>3 DEF Overflow, TypeOK
<1>5. OwedByWatch'
  BY <1>1, <1>2 DEF OwedByWatch, Tells
<1>6. NothingOwedYet' /\ MissedIsOwed'
  BY DEF Overflow, NothingOwedYet, MissedIsOwed
<1> QED BY <1>4, <1>5, <1>6

LEMMA HandleKeepsInv ==
  ASSUME IInv, Handle
  PROVE  IInv'
<1> USE DEF IInv
<1>1. raw \in Seq(RawEvents) /\ raw # <<>> /\ raw' = Tail(raw)
  BY DEF Handle, TypeOK
<1>2. Head(raw) \in RawEvents /\ Head(raw) = raw[1] /\ raw' \in Seq(RawEvents)
  BY <1>1
<1> DEFINE e == Head(raw)
<1>3. UNCHANGED <<out, disk, loop, drain, stop, listed, dirty, walked, owed, changes, faults>>
  BY DEF Handle, consumer
<1>4. \/ /\ HandleCreate(e) \/ HandleModify(e) \/ HandleRemove(e) \/ HandleRename(e)
         /\ Unheard(Hidden(e))
      \/ HandleRescan(e)
  BY DEF Handle
<1> HIDE DEF e
\* Who is not silent after the step was heard of, or is still announced.
<1>5. /\ Kept(queue') /\ temps' \subseteq Temps /\ gone' \in Nat
      /\ DOMAIN queue \subseteq DOMAIN queue' /\ silent \subseteq silent' /\ silent' \subseteq Regular
      /\ \A p \in owed \ silent' :
            Tells(e, p) => DOMAIN queue' # {} \/ Announced(p)'
  <2>1. Kept(queue) /\ temps \subseteq Temps /\ gone \in Nat /\ owed \subseteq Regular
        /\ silent \subseteq Regular
    BY DEF TypeOK, Kept
  <2>2. CASE /\ HandleCreate(e) \/ HandleModify(e) \/ HandleRemove(e) \/ HandleRename(e)
             /\ Unheard(Hidden(e))
    <3>1. Handled(e) /\ e.kind # "rescan"
      BY <1>2, <2>2, HandlersHandle DEF e, HandleCreate, HandleModify, HandleRemove, HandleRename
    <3>2. silent' = silent \cup {p \in Hidden(e) \cap owed : ~Announced(p)'}
      BY <2>2 DEF Unheard
    <3>3. ASSUME NEW p \in owed \ silent', Tells(e, p)
          PROVE  DOMAIN queue' # {} \/ Announced(p)'
      <4>1. CASE p \in Hidden(e)
        BY <3>2, <3>3, <4>1
      <4>2. CASE p \notin Hidden(e)
        BY <2>1, <3>1, <3>3, <4>2 DEF Handled, Certain, Tells
      <4> QED BY <4>1, <4>2
    <3> QED BY <2>1, <3>1, <3>2, <3>3 DEF Handled
  <2>3. CASE HandleRescan(e)
    <3>1. PICK found \in SUBSET (disk \cap Regular) :
            queue' = Rescan(queue, found) /\ Unheard(Regular \ found)
      BY <2>3 DEF HandleRescan
    <3>2. Kept(queue') /\ DOMAIN queue' = DOMAIN queue \cup found
      BY <2>1, <3>1, RescanKeeps
    <3>3. silent' = silent \cup {p \in (Regular \ found) \cap owed : ~Announced(p)'}
      BY <3>1 DEF Unheard
    <3>4. ASSUME NEW p \in owed \ silent' PROVE DOMAIN queue' # {} \/ Announced(p)'
      <4>1. CASE p \in found
        BY <3>2, <4>1
      <4>2. CASE p \notin found
        BY <2>1, <3>3, <3>4, <4>2
      <4> QED BY <4>1, <4>2
    <3> QED BY <2>1, <2>3, <3>2, <3>3, <3>4 DEF HandleRescan
  <2> QED BY <1>4, <2>2, <2>3
<1>6. TypeOK'
  BY <1>2, <1>3, <1>5 DEF Kept, TypeOK
<1>7. OwedByWatch'
  <2> SUFFICES ASSUME Watching, NEW p \in owed \ silent', DOMAIN queue' = {}, out = <<>>
               PROVE  \E i \in 1 .. Len(raw') : Tells(raw'[i], p)
    BY <1>3 DEF OwedByWatch, Watching
  <2>1. DOMAIN queue = {} /\ p \in owed \ silent
    BY <1>5
  <2>2. PICK i \in 1 .. Len(raw) : Tells(raw[i], p)
    BY <2>1 DEF OwedByWatch
  <2>3. CASE i = 1
    <3>1. Announced(p)'
      BY <1>2, <1>5, <2>2, <2>3 DEF e
    <3>2. PICK j \in DOMAIN raw' : About(p, raw'[j])
      BY <1>3, <3>1 DEF Announced
    <3>3. DOMAIN raw' = 1 .. Len(raw')
      BY <1>2
    <3> QED BY <3>2, <3>3 DEF Tells
  <2>4. CASE i # 1
    <3>1. i - 1 \in 1 .. Len(raw') /\ raw'[i - 1] = raw[i]
      BY <1>1, <2>2, <2>4
    <3> QED BY <2>2, <3>1
  <2> QED BY <2>3, <2>4
<1>8. NothingOwedYet' /\ MissedIsOwed'
  BY <1>3, <1>5 DEF NothingOwedYet, MissedIsOwed
<1> QED BY <1>6, <1>7, <1>8

LEMMA FlushKeepsInv ==
  ASSUME IInv, Flush
  PROVE  IInv'
<1> USE DEF IInv
<1>1. PICK p \in DOMAIN queue :
        /\ out' = Append(out, queue[p])
        /\ queue' = [x \in DOMAIN queue \ {p} |-> queue[x]]
  BY DEF Flush
<1>2. UNCHANGED <<raw, temps, gone, disk, loop, drain, stop, listed, dirty, walked, owed,
                  silent, changes, faults>>
  BY DEF Flush, consumer
<1>3. queue[p] \in Events /\ out \in Seq(Events)
  BY DEF TypeOK
<1>4. out' \in Seq(Events) /\ out' # <<>>
  BY <1>1, <1>3, AppendProperties
<1>5. \A x \in DOMAIN queue' : x \in Paths /\ queue'[x] \in Events /\ queue'[x].path = x
  BY <1>1 DEF TypeOK
<1>6. TypeOK'
  BY <1>2, <1>4, <1>5 DEF TypeOK
<1> QED BY <1>2, <1>4, <1>6 DEF OwedByWatch, NothingOwedYet, MissedIsOwed

LEMMA PurgeKeepsInv ==
  ASSUME IInv, Purge
  PROVE  IInv'
<1> USE DEF IInv
<1>1. UNCHANGED <<raw, queue, out, disk, loop, drain, stop, listed, dirty, walked, owed,
                  silent, changes, faults>>
  BY DEF Purge, consumer
<1>2. temps' \subseteq Temps /\ gone' \in Nat
  BY DEF Purge, TypeOK
<1>3. TypeOK'
  BY <1>1, <1>2 DEF TypeOK
<1> QED BY <1>1, <1>3 DEF OwedByWatch, NothingOwedYet, MissedIsOwed, Watching

-----------------------------------------------------------------------------
(* The loop.                                                               *)

LEMMA LoopKeepsInv ==
  ASSUME IInv, Start \/ Stop \/ Loop \/ Drain
  PROVE  IInv'
<1> USE DEF IInv, changed, watch
<1>1. CASE Start
  <2>1. TypeOK'
    BY <1>1 DEF Start, TypeOK, LoopStates
  <2> QED BY <1>1, <2>1 DEF Start, OwedByWatch, NothingOwedYet, MissedIsOwed, Watching
<1>2. CASE Stop
  <2>1. TypeOK'
    BY <1>2 DEF Stop, TypeOK
  <2> QED BY <1>2, <2>1
      DEF Stop, OwedByWatch, NothingOwedYet, MissedIsOwed, Watching
<1>3. CASE Open
  <2>1. owed = {} /\ owed' = {}
    BY <1>3 DEF Open, NothingOwedYet
  <2>2. faults' \in 0 .. MaxFaults
    BY <1>3, BoundsAssumption DEF Open, TypeOK
  <2>3. loop' \in LoopStates /\ listed' \in BOOLEAN
    BY <1>3 DEF Open, Ends, TypeOK, LoopStates
  <2>4. TypeOK'
    BY <1>3, <2>2, <2>3 DEF Open, TypeOK
  <2> QED BY <1>3, <2>1, <2>4
      DEF Open, Ends, OwedByWatch, NothingOwedYet, MissedIsOwed
<1>4. CASE RoundBegins
  <2>1. TypeOK'
    BY <1>4 DEF RoundBegins, TypeOK, LoopStates
  <2> QED BY <1>4, <2>1
      DEF RoundBegins, OwedByWatch, NothingOwedYet, MissedIsOwed, Watching
<1>11. CASE \E p \in Regular : Bring(p)
  <2>1. PICK p \in Regular : Bring(p)
    BY <1>11
  <2>2. raw \in Seq(RawEvents) /\ p \in Paths
    BY DEF TypeOK, Paths
  <2>3. \/ UNCHANGED <<disk, raw>>
        \/ \E e \in RawEvents : raw' = Append(raw, e) /\ disk' \subseteq Paths
    <3>1. \A k \in {"modify", "create", "remove"} : Raw(k, p) \in RawEvents
      BY <2>2, RawTells DEF RawKinds
    <3> QED BY <2>1, <2>2, <3>1 DEF Bring, TypeOK
  <2>4. /\ raw' \in Seq(RawEvents) /\ disk' \subseteq Paths /\ Len(raw) \in Nat
        /\ Len(raw') >= Len(raw) /\ \A i \in 1 .. Len(raw) : raw'[i] = raw[i]
    <3>1. CASE UNCHANGED <<disk, raw>>
      BY <2>2, <3>1, LenProperties DEF TypeOK
    <3>2. CASE \E e \in RawEvents : raw' = Append(raw, e) /\ disk' \subseteq Paths
      BY <2>2, <3>2, AppendProperties, LenProperties
    <3> QED BY <2>3, <3>1, <3>2
  <2>5. Len(raw') \in Nat /\ \A i \in 1 .. Len(raw) : i \in 1 .. Len(raw') /\ raw'[i] = raw[i]
    BY <2>4, LenProperties
  <2>6. TypeOK'
    BY <2>1, <2>4 DEF Bring, TypeOK
  <2>7. OwedByWatch'
    BY <2>1, <2>5 DEF Bring, OwedByWatch, Watching
  <2> QED BY <2>1, <2>6, <2>7 DEF Bring, NothingOwedYet, MissedIsOwed
<1>5. CASE RoundEnds
  <2>1. TypeOK'
    BY <1>5, BoundsAssumption DEF RoundEnds, TypeOK, LoopStates
  <2>2. OwedByWatch' /\ NothingOwedYet'
    BY <1>5 DEF RoundEnds, OwedByWatch, NothingOwedYet, Watching
  <2>3. MissedIsOwed'
    BY <1>5 DEF RoundEnds, MissedIsOwed, TypeOK
  <2> QED BY <2>1, <2>2, <2>3
<1>6. CASE Check
  <2>1. TypeOK'
    BY <1>6 DEF Check, Ends, TypeOK, LoopStates
  <2> QED BY <1>6, <2>1
      DEF Check, Ends, OwedByWatch, NothingOwedYet, MissedIsOwed, Watching
<1>7. CASE Wait
  <2>1. out' \in Seq(Events)
    BY <1>7 DEF Wait, TypeOK
  <2>2. TypeOK'
    BY <1>7, <2>1 DEF Wait, Ends, TypeOK, LoopStates
  <2> QED BY <1>7, <2>2
      DEF Wait, Ends, OwedByWatch, NothingOwedYet, MissedIsOwed
<1>8. CASE Coalesce
  <2>1. TypeOK'
    BY <1>8 DEF Coalesce, TypeOK, LoopStates
  <2> QED BY <1>8, <2>1
      DEF Coalesce, OwedByWatch, NothingOwedYet, MissedIsOwed, Watching
<1>9. CASE WindowEnds
  <2>1. TypeOK'
    BY <1>9 DEF WindowEnds, Ends, TypeOK, LoopStates
  <2> QED BY <1>9, <2>1
      DEF WindowEnds, Ends, OwedByWatch, NothingOwedYet, MissedIsOwed, Watching
<1>10. CASE Drain
  <2>1. out' \in Seq(Events)
    BY <1>10 DEF Drain, TypeOK
  <2>2. TypeOK'
    BY <1>10, <2>1 DEF Drain, TypeOK
  <2> QED BY <1>10, <2>2
      DEF Drain, OwedByWatch, NothingOwedYet, MissedIsOwed
<1> QED BY <1>1, <1>2, <1>3, <1>4, <1>11, <1>5, <1>6, <1>7, <1>8, <1>9, <1>10 DEF Loop, Round

-----------------------------------------------------------------------------
LEMMA InitInv == Init => IInv
<1> SUFFICES ASSUME Init PROVE IInv
  OBVIOUS
<1>1. raw \in Seq(RawEvents) /\ out \in Seq(Events) /\ DOMAIN queue = {}
  BY DEF Init
<1>2. 0 \in 0 .. MaxChanges /\ 0 \in 0 .. MaxFaults
  BY BoundsAssumption
<1>3. TypeOK
  BY <1>1, <1>2 DEF Init, TypeOK, LoopStates, Paths
<1> QED BY <1>3 DEF Init, IInv, OwedByWatch, NothingOwedYet, MissedIsOwed

LEMMA NextInv == IInv /\ [Next]_vars => IInv'
<1> SUFFICES ASSUME IInv, [Next]_vars PROVE IInv'
  OBVIOUS
<1>1. CASE Save \/ Delete \/ Move
  <2>1. \E ps, es : Reports(ps, es) /\ Change(ps, es)
    BY <1>1, SaveReports, DeleteReports, MoveReports DEF IInv
  <2> QED BY <2>1, ChangeKeepsInv
<1>8. CASE ChangeRight
  BY <1>8, ChangeRightKeepsInv
<1>2. CASE Overflow
  BY <1>2, OverflowKeepsInv
<1>3. CASE Handle
  BY <1>3, HandleKeepsInv
<1>4. CASE Flush
  BY <1>4, FlushKeepsInv
<1>5. CASE Purge
  BY <1>5, PurgeKeepsInv
<1>6. CASE Start \/ Stop \/ Loop \/ Drain
  BY <1>6, LoopKeepsInv
<1>7. CASE UNCHANGED vars
  BY <1>7 DEF vars, watch, IInv, TypeOK, OwedByWatch, NothingOwedYet, MissedIsOwed,
              Watching
<1> QED BY <1>1, <1>2, <1>3, <1>4, <1>5, <1>6, <1>7, <1>8 DEF Next, Rest

LEMMA Inductive == Spec => []IInv
  BY InitInv, NextInv, PTL DEF Spec

\* The state of the watch and of the loop stays well-formed; in particular every
\* entry of the debounce queue is kept under the path it is about, which is what
\* lets one path's event never delay or replace another's (debounce.rs).
THEOREM TypeCorrect == Spec => []TypeOK
<1>1. IInv => TypeOK
  BY DEF IInv
<1> QED BY <1>1, Inductive, PTL

\* No sequence of saves, deletions, renames in any of the forms notify reports
\* them in, overflows and purges makes the watcher lose the last event owed to
\* its reader (handle_raw_event, handle_rename, AtomicSaveTracker, rescan_into),
\* for any paths and any number of changes.  What it does lose is `silent`: a
\* whole rename onto a filtered name, and a file a rescan does not find.
THEOREM PulsesAreNotLost == Spec => []PulseIsOwed
<1>1. IInv => PulseIsOwed
  BY DEF IInv, TypeOK, OwedByWatch, PulseIsOwed, InFlight
<1> QED BY <1>1, Inductive, PTL

\* A loop that waits for its first pulse with a path out of step has a pulse
\* coming: opening the watcher before the first round leaves no gap (run_loop).
\* The paths nobody will hear of are `silent`: those the watcher loses, the right
\* side's, and what the round itself left.
THEOREM WaitIsInStep == Spec => []WaitsOnlyInStep
<1>1. IInv => WaitsOnlyInStep
  <2> SUFFICES ASSUME IInv, loop = "wait", ~drain, dirty \ silent # {}
               PROVE  InFlight
    BY DEF WaitsOnlyInStep
  <2>1. owed \ silent # {} /\ Watching
    BY DEF IInv, MissedIsOwed, Watching
  <2> QED BY <2>1 DEF IInv, TypeOK, OwedByWatch, InFlight
<1> QED BY <1>1, Inductive, PTL
=============================================================================
