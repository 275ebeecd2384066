-------------------------- MODULE RepositoryProofs --------------------------
(***************************************************************************)
(* Proofs about Repository: its types, that no chunk is stored twice, that *)
(* the active pack exists, that a repair removes only damaged snapshots,   *)
(* and that the repository implements SnapshotCatalog, for any chunks,     *)
(* snapshots, packs, threads, sweeps and faults.                           *)
(***************************************************************************)
EXTENDS Repository, SequenceTheorems, TLAPS

Recording == {"put", "append", "commit", "row"}
Verifying == {"locate", "read"}

\* The unit that locator l names in the packs ps is there.
Sits(ps, l) == ps[l.pack] # None /\ l.offset < Len(ps[l.pack])

\* Every row of CHUNKS leads to a unit, and to the bytes of its chunk unless it was
\* committed after a short append.
Located ==
  \A c \in Chunks : index[c] # None =>
    /\ Sits(packs, index[c])
    /\ c \in astray \/ packs[index[c].pack][index[c].offset + 1].data = c

\* The active pack is the saved one unless the last roll's commit failed, and its
\* file is not shorter than its size.
Heads ==
  /\ behind = "no" => stats = active.id /\ packs[active.id] # None
  /\ packs[active.id] # None => active.size =< Len(packs[active.id])

\* The unit appended last, while the file is as long as active.size says.
Last == packs[active.id][active.size]

\* Something was appended to the active pack, within rollover_bytes.
Appended == packs[active.id] # None /\ active.size > 0 /\ active.size =< rollover

\* Snapshots are made of stored chunks.
Present == \A i \in SnapIds : rows[i] # None => \A c \in rows[i] : index[c] # None

\* A thread that records holds the lease and has stored what it no longer has to.
Recorder(t) ==
  th[t].pc \in Recording =>
    /\ t \in lease
    /\ \A c \in th[t].files \ th[t].todo : index[c] # None
    /\ th[t].pc = "row" => th[t].todo = {}
    /\ th[t].pc \in {"append", "commit"} => th[t].chunk \in Chunks
    /\ th[t].pc = "commit" => lock = t /\ Appended /\ (Aligned => Last.data = th[t].chunk)

\* The holder of the mutex is about to store a chunk the index does not have.
Mutex(t) == lock = t => th[t].pc \in {"append", "commit"} /\ index[th[t].chunk] = None

\* Sweep and compaction run while nobody holds the lease.
Leases ==
  /\ Excluded => lease = {}
  /\ \A t \in Threads : th[t].pc \in Verifying => t \in lease

\* The packs maintenance is to delete exist, are not the active one and, once the
\* sweep has dropped their rows, are named by no row.  Compaction starts a pack of
\* its own and ends with the first append that fails, so that it is aligned.
Doomed ==
  /\ mt.pc \in {"unlink", "pick", "move", "repoint"} =>
       \A p \in mt.dead : packs[p] # None /\ p # active.id
  /\ mt.pc = "unlink" => \A p \in mt.dead : InPack(p) = {}
  /\ mt.pc \in {"move", "repoint"} => mt.from \in mt.dead
  /\ mt.pc \in {"pick", "move", "repoint"} => packs[active.id] # None /\ Aligned
  /\ mt.pc = "repoint" =>
       mt.chunk \in Chunks /\ Appended /\ (mt.chunk \in astray \/ Last.data = mt.chunk)

\* An id is handed out once: to a recording, then to its snapshot.
Numbered ==
  /\ \A i \in SnapIds : rows[i] # None => i < seq
  /\ \A t \in Threads : th[t].pc = "row" => th[t].id \in SnapIds /\ th[t].id < seq /\ rows[th[t].id] = None
  /\ \A t, u \in Threads : th[t].pc = "row" /\ th[u].pc = "row" /\ t # u => th[t].id # th[u].id
  /\ \A t \in Threads : th[t].pc \in Verifying \union {"report"} =>
        /\ th[t].id \in SnapIds /\ th[t].id < seq
        /\ \A u \in Threads : th[u].pc = "row" => th[u].id # th[t].id

\* The chunk cannot be read, nor what compaction is about to point its row at.
Damaged(c) ==
  /\ ~Readable(c)
  /\ mt.pc = "repoint" /\ mt.chunk = c => ~(Last.sound /\ Last.data = c)

\* What a verification knows of its snapshot, if it is still there.
Verifier(t) ==
  th[t].pc \in Verifying \union {"report"} /\ rows[th[t].id] # None =>
    /\ th[t].pc \in Verifying => th[t].todo \subseteq rows[th[t].id]
    /\ th[t].pc = "read" => th[t].chunk \in rows[th[t].id] /\ th[t].loc = index[th[t].chunk]
    /\ th[t].pc = "report" \/ th[t].bad => th[t].unread \/ \E c \in rows[th[t].id] : Damaged(c)

IInv ==
  /\ TypeOK /\ Located /\ Heads /\ Present /\ Leases /\ Doomed /\ Numbered
  /\ \A t \in Threads : Recorder(t) /\ Mutex(t) /\ Verifier(t)

-----------------------------------------------------------------------------
(* The chunk store.                                                        *)

StoreTypes ==
  /\ index \in [Chunks -> Locators \union {None}]
  /\ packs \in [PackIds -> Seq(Units) \union {None}]
  /\ stats \in PackIds
  /\ rollover \in Rollovers
  /\ active \in [id : PackIds, size : Nat]
  /\ behind \in {"yes", "no"}
  /\ astray \subseteq Chunks

StoreOK == StoreTypes /\ Located /\ Heads

\* The bounds are numbers, and None is told from every value.
LEMMA StoreSets ==
  ASSUME rollover \in Rollovers
  PROVE  /\ rollover \in Nat \ {0} /\ MaxPacks[rollover] \in Nat \ {0}
         /\ PackIds \subseteq Nat \ {0} /\ 1 \in PackIds
         /\ \A l \in Locators : /\ l # None /\ l.pack \in PackIds
                                /\ l.offset \in Nat /\ l.offset < rollover
         /\ \A p \in PackIds, o \in Nat : o < rollover => [pack |-> p, offset |-> o] \in Locators
<1>1. rollover \in Nat \ {0} /\ MaxPacks[rollover] \in Nat \ {0}
  BY BoundsAssumption
<1>2. PackIds \subseteq Nat \ {0} /\ 1 \in PackIds
  BY <1>1 DEF PackIds
<1>3. ASSUME NEW l \in Locators
      PROVE  l # None /\ l.pack \in PackIds /\ l.offset \in Nat /\ l.offset < rollover
  <2>1. l.pack \in PackIds /\ l.offset \in 0 .. rollover - 1
    BY DEF Locators
  <2>2. l.offset \in Nat /\ l.offset < rollover
    BY <1>1, <2>1
  <2>3. l \in [pack : Nat, offset : Nat]
    BY <1>2, <2>1, <2>2 DEF Locators
  <2> QED
    BY <2>1, <2>2, <2>3, ValuesAssumption
<1>4. ASSUME NEW p \in PackIds, NEW o \in Nat, o < rollover
      PROVE  [pack |-> p, offset |-> o] \in Locators
  <2>1. o \in 0 .. rollover - 1
    BY <1>1, <1>4
  <2> QED
    BY <2>1 DEF Locators
<1> QED
  BY <1>1, <1>2, <1>3, <1>4

\* A constant rollover keeps the sets of packs and locators.
LEMMA SameSets ==
  ASSUME UNCHANGED rollover
  PROVE  PackIds' = PackIds /\ Locators' = Locators
BY DEF PackIds, Locators

\* A locator of the index names a stored unit, of its chunk unless it went astray.
LEMMA UnitOfChunk ==
  ASSUME StoreOK, NEW c \in Chunks, index[c] # None
  PROVE  /\ index[c] \in Locators
         /\ Unit(index[c]) = packs[index[c].pack][index[c].offset + 1]
         /\ Unit(index[c]) \in Units /\ Unit(index[c]) # None
         /\ c \in astray \/ Unit(index[c]).data = c
         /\ Readable(c) <=> Unit(index[c]).data = c /\ Unit(index[c]).sound
<1>1. /\ index[c] \in Locators /\ Sits(packs, index[c])
      /\ c \in astray \/ packs[index[c].pack][index[c].offset + 1].data = c
  BY DEF StoreOK, StoreTypes, Located
<1>2. index[c].pack \in PackIds /\ index[c].offset \in Nat
  BY <1>1, StoreSets DEF StoreOK, StoreTypes
<1>3. packs[index[c].pack] \in Seq(Units) /\ index[c].offset < Len(packs[index[c].pack])
  BY <1>1, <1>2 DEF StoreOK, StoreTypes, Sits
<1>4. packs[index[c].pack][index[c].offset + 1] \in Units
  <2> DEFINE q == packs[index[c].pack]
             o == index[c].offset
  <2>1. q \in Seq(Units) /\ o \in Nat /\ o < Len(q)
    BY <1>2, <1>3
  <2> HIDE DEF q, o
  <2>2. q[o + 1] \in Units
    BY <2>1
  <2> QED
    BY <2>2 DEF q, o
<1>5. Unit(index[c]) = packs[index[c].pack][index[c].offset + 1]
  BY <1>1 DEF Unit, Sits
<1>6. Unit(index[c]) # None
  BY <1>4, <1>5, ValuesAssumption
<1>7. c \in astray \/ Unit(index[c]).data = c
  BY <1>1, <1>5
<1> QED
  BY <1>1, <1>4, <1>5, <1>6, <1>7 DEF Readable

\* A new pack is one that does not exist and that nothing names.
LEMMA NewPackFresh ==
  ASSUME HasFresh
  PROVE  NewPack \in PackIds /\ Fresh(NewPack)
BY DEF HasFresh, NewPack

\* roll_locked, its commit failing or not.
LEMMA RollStore ==
  ASSUME StoreOK, Roll \/ RollUncommitted
  PROVE  /\ StoreOK' /\ active'.size = 0 /\ UNCHANGED <<index, rollover, astray>>
         /\ packs'[active'.id] # None /\ Aligned'
         /\ \A p \in PackIds : packs[p] # None => packs'[p] = packs[p] /\ p # active'.id
         /\ \A c \in Chunks : index[c] # None => Unit(index[c])' = Unit(index[c])
<1> DEFINE n == NewPack
<1>1. /\ n \in PackIds /\ packs[n] = None /\ InPack(n) = {}
  BY NewPackFresh DEF Roll, RollUncommitted, Fresh
<1> HIDE DEF n
<1>2. /\ packs' = [packs EXCEPT ![n] = <<>>] /\ active' = [id |-> n, size |-> 0]
      /\ stats' \in {n, stats} /\ behind' \in {"yes", "no"} /\ (behind' = "no" => stats' = n)
      /\ UNCHANGED <<index, rollover, astray>>
  BY DEF Roll, RollUncommitted, n
<1>3. PackIds' = PackIds /\ Locators' = Locators
  BY <1>2, SameSets
<1>4. /\ packs \in [PackIds -> Seq(Units) \union {None}] /\ rollover \in Rollovers
      /\ index \in [Chunks -> Locators \union {None}] /\ stats \in PackIds /\ astray \subseteq Chunks
  BY DEF StoreOK, StoreTypes
<1>5. <<>> \in Seq(Units) /\ Len(<<>>) = 0
  OBVIOUS
<1>6. packs'[n] = <<>> /\ \A p \in PackIds : p # n => packs'[p] = packs[p]
  BY <1>1, <1>2, <1>4
<1>7. StoreTypes'
  BY <1>1, <1>2, <1>3, <1>4, <1>5 DEF StoreTypes
<1>8. ASSUME NEW c \in Chunks, index[c] # None
      PROVE  index[c].pack \in PackIds /\ index[c].pack # n
  BY <1>1, <1>4, <1>8, StoreSets DEF InPack
<1>9. Located'
  BY <1>2, <1>6, <1>8 DEF StoreOK, Located, Sits
<1>10. /\ active'.id = n /\ active'.size = 0 /\ packs'[n] # None
  BY <1>2, <1>5, <1>6, ValuesAssumption
<1>11. Heads' /\ Aligned'
  BY <1>2, <1>5, <1>6, <1>10 DEF Heads, Aligned
<1>12. \A c \in Chunks : index[c] # None => Unit(index[c])' = Unit(index[c])
  BY <1>2, <1>6, <1>8 DEF Unit
<1>13. \A p \in PackIds : packs[p] # None => packs'[p] = packs[p] /\ p # active'.id
  BY <1>1, <1>2, <1>6
<1> QED
  BY <1>2, <1>7, <1>9, <1>10, <1>11, <1>12, <1>13 DEF StoreOK

\* write_all on the active pack, all of it or not: what is there stays.
LEMMA GrowStore ==
  ASSUME StoreOK, NEW u \in Units, packs[active.id] # None,
         packs' = [packs EXCEPT ![active.id] = Append(@, u)],
         active' = active \/ active' = [active EXCEPT !.size = @ + 1],
         UNCHANGED <<index, stats, rollover, behind, astray>>
  PROVE  /\ StoreOK' /\ active'.id = active.id
         /\ Len(packs'[active.id]) = Len(packs[active.id]) + 1
         /\ packs'[active.id][Len(packs[active.id]) + 1] = u
         /\ \A p \in PackIds : packs[p] # None => packs'[p] # None
         /\ \A c \in Chunks : index[c] # None => Unit(index[c])' = Unit(index[c])
<1> DEFINE a == active.id
           k == active.size
           q == packs[active.id]
           m == Len(packs[active.id])
           r == Append(q, u)
<1>1. /\ a \in PackIds /\ k \in Nat /\ q \in Seq(Units) /\ k =< m /\ m \in Nat
      /\ active \in [id : PackIds, size : Nat]
      /\ packs \in [PackIds -> Seq(Units) \union {None}] /\ rollover \in Rollovers
      /\ index \in [Chunks -> Locators \union {None}] /\ stats \in PackIds
  BY StoreSets DEF StoreOK, StoreTypes, Heads
<1>2. packs' = [packs EXCEPT ![a] = r]
  OBVIOUS
<1>3. PackIds' = PackIds /\ Locators' = Locators
  BY SameSets
<1>4. m = Len(q)
  OBVIOUS
<1>5. /\ active'.id = a /\ active' \in [id : PackIds, size : Nat]
      /\ active'.size = k \/ active'.size = k + 1
  BY <1>1
<1> HIDE DEF a, k, q, m
<1>6. r \in Seq(Units) /\ Len(r) = m + 1 /\ r[m + 1] = u /\ \A j \in 1 .. m : r[j] = q[j]
  BY <1>1, <1>4
<1> HIDE DEF r
<1>7. packs'[a] = r /\ \A p \in PackIds : p # a => packs'[p] = packs[p]
  BY <1>1, <1>2
<1>8. packs' \in [PackIds -> Seq(Units) \union {None}]
  BY <1>1, <1>2, <1>6
<1>9. StoreTypes'
  BY <1>1, <1>3, <1>5, <1>8 DEF StoreOK, StoreTypes
<1>10. r # None
  BY <1>6, ValuesAssumption
<1>11. ASSUME NEW c \in Chunks, index[c] # None
       PROVE  /\ Sits(packs', index[c])
              /\ packs'[index[c].pack][index[c].offset + 1] = packs[index[c].pack][index[c].offset + 1]
  <2> DEFINE p == index[c].pack
             o == index[c].offset
  <2>1. index[c] \in Locators /\ Sits(packs, index[c])
    BY <1>1, <1>11 DEF StoreOK, Located
  <2>2. p \in PackIds /\ o \in Nat /\ packs[p] # None /\ o < Len(packs[p])
    BY <1>1, <2>1, StoreSets DEF Sits
  <2> HIDE DEF p, o
  <2>3. CASE p = a
    <3>1. packs[p] = q /\ packs'[p] = r /\ o < m
      BY <1>1, <1>4, <1>7, <2>2, <2>3 DEF q, a
    <3>2. o + 1 \in 1 .. m /\ o < Len(r)
      BY <1>1, <1>6, <2>2, <3>1
    <3>3. packs'[p][o + 1] = packs[p][o + 1]
      BY <1>6, <3>1, <3>2
    <3> QED
      BY <1>10, <2>2, <3>1, <3>2, <3>3 DEF Sits, p, o
  <2>4. CASE p # a
    <3>1. packs'[p] = packs[p]
      BY <1>7, <2>2, <2>4
    <3> QED
      BY <2>2, <3>1 DEF Sits, p, o
  <2> QED
    BY <2>3, <2>4
<1>12. Located'
  BY <1>11 DEF StoreOK, Located
<1>13. Heads'
  <2>1. active'.size =< m + 1
    BY <1>1, <1>5
  <2>2. behind = "no" => stats = a
    BY DEF StoreOK, Heads, a
  <2> QED
    BY <1>5, <1>6, <1>7, <1>10, <2>1, <2>2 DEF Heads
<1>14. \A c \in Chunks : index[c] # None => Unit(index[c])' = Unit(index[c])
  <2> SUFFICES ASSUME NEW c \in Chunks, index[c] # None
               PROVE  Unit(index[c])' = Unit(index[c])
    OBVIOUS
  <2>1. Unit(index[c]) = packs[index[c].pack][index[c].offset + 1]
    BY UnitOfChunk
  <2>2. Sits(packs', index'[c])
    BY <1>11
  <2> QED
    BY <1>11, <2>1, <2>2 DEF Unit, Sits
<1>15. \A p \in PackIds : packs[p] # None => packs'[p] # None
  BY <1>7, <1>10
<1> QED
  BY <1>5, <1>6, <1>7, <1>9, <1>12, <1>13, <1>14, <1>15 DEF StoreOK, a, m

\* The whole of it, and active.size follows.
LEMMA AppendStore ==
  ASSUME StoreOK, NEW u \in Units, AppendUnit(u)
  PROVE  /\ StoreOK' /\ UNCHANGED <<index, rollover, stats, astray>>
         /\ active'.id = active.id /\ Appended'
         /\ Aligned <=> Aligned'
         /\ Aligned => Last' = u
         /\ \A p \in PackIds : packs[p] # None => packs'[p] # None
         /\ \A c \in Chunks : index[c] # None => Unit(index[c])' = Unit(index[c])
<1> DEFINE k == active.size
           m == Len(packs[active.id])
<1>1. /\ packs[active.id] # None /\ packs' = [packs EXCEPT ![active.id] = Append(@, u)]
      /\ active' = [active EXCEPT !.size = @ + 1] /\ k < rollover
      /\ UNCHANGED <<index, stats, rollover, behind, astray>>
  BY DEF AppendUnit
<1>2. /\ active \in [id : PackIds, size : Nat] /\ active.id \in PackIds /\ k \in Nat
      /\ packs[active.id] \in Seq(Units) /\ m \in Nat /\ rollover \in Nat
  BY <1>1, StoreSets DEF StoreOK, StoreTypes
<1>3. /\ StoreOK' /\ active'.id = active.id
      /\ Len(packs'[active.id]) = m + 1 /\ packs'[active.id][m + 1] = u
      /\ \A p \in PackIds : packs[p] # None => packs'[p] # None
      /\ \A c \in Chunks : index[c] # None => Unit(index[c])' = Unit(index[c])
  BY <1>1, GrowStore
<1>4. active'.size = k + 1 /\ packs'[active.id] # None
  BY <1>1, <1>2, <1>3
<1>5. (Aligned <=> k = m) /\ (Aligned' <=> k + 1 = m + 1)
  BY <1>3, <1>4 DEF Aligned
<1> HIDE DEF k, m
<1>6. (Aligned <=> Aligned') /\ k + 1 > 0 /\ k + 1 =< rollover
  BY <1>1, <1>2, <1>5
<1>7. Aligned => Last' = u
  BY <1>2, <1>3, <1>4, <1>5 DEF Last
<1>8. Appended'
  BY <1>1, <1>3, <1>4, <1>6 DEF Appended
<1> QED
  BY <1>1, <1>3, <1>6, <1>7, <1>8

\* It stops short.
LEMMA AppendShortStore ==
  ASSUME StoreOK, AppendShort
  PROVE  /\ StoreOK' /\ UNCHANGED <<index, rollover>>
         /\ \A c \in Chunks : index[c] # None => Unit(index[c])' = Unit(index[c])
<1>1. Torn \in Units
  BY DEF Torn, Units
<1> QED
  BY <1>1, GrowStore DEF AppendShort

\* The row of the chunk appended last, noted as astray unless it leads there.
LEMMA RepointStore ==
  ASSUME StoreOK, NEW c \in Chunks, Appended, Repoint(c), astray' \subseteq Chunks,
         \A d \in Chunks : d # c => (d \in astray' <=> d \in astray),
         c \in astray' \/ Last.data = c
  PROVE  /\ StoreOK' /\ UNCHANGED <<packs, stats, rollover, active, behind>>
         /\ index'[c] # None /\ \A d \in Chunks : d # c => index'[d] = index[d]
         /\ Unit(index[c])' = Last
         /\ \A d \in Chunks : d # c => Unit(index[d])' = Unit(index[d])
<1> DEFINE a == active.id
           k == active.size
           o == active.size - 1
           l == [pack |-> a, offset |-> o]
<1>1. /\ a \in PackIds /\ k \in Nat /\ k > 0 /\ packs[a] # None /\ k =< Len(packs[a])
      /\ Len(packs[a]) \in Nat /\ rollover \in Nat /\ k =< rollover /\ rollover \in Rollovers
      /\ index \in [Chunks -> Locators \union {None}]
  BY StoreSets DEF StoreOK, StoreTypes, Heads, Appended
<1>2. index' = [index EXCEPT ![c] = l] /\ UNCHANGED <<packs, stats, rollover, active, behind>>
  BY DEF Repoint
<1> HIDE DEF a, k
<1>3. o \in Nat /\ o < rollover /\ o < Len(packs[a]) /\ o + 1 = k
  BY <1>1 DEF k
<1> HIDE DEF o
<1>4. l.pack = a /\ l.offset = o /\ l \in Locators /\ l # None
  BY <1>1, <1>3, StoreSets
<1>5. Sits(packs, l) /\ packs[l.pack][l.offset + 1] = Last
  BY <1>1, <1>3, <1>4 DEF Sits, Last, a, k
<1> HIDE DEF l
<1>6. index'[c] = l /\ \A d \in Chunks : d # c => index'[d] = index[d]
  BY <1>1, <1>2
<1>7. PackIds' = PackIds /\ Locators' = Locators
  BY <1>2, SameSets
<1>8. StoreTypes'
  BY <1>1, <1>2, <1>4, <1>7 DEF StoreOK, StoreTypes
<1>9. Located'
  BY <1>2, <1>5, <1>6 DEF StoreOK, Located, Sits
<1>10. Heads'
  BY <1>2 DEF StoreOK, Heads
<1>11. Unit(index[c])' = Last
  BY <1>2, <1>4, <1>5, <1>6 DEF Unit, Sits
<1>12. \A d \in Chunks : d # c => Unit(index[d])' = Unit(index[d])
  BY <1>2, <1>6 DEF Unit
<1> QED
  BY <1>2, <1>4, <1>6, <1>8, <1>9, <1>10, <1>11, <1>12 DEF StoreOK

\* A pack no row names is deleted.
LEMMA UnlinkStore ==
  ASSUME StoreOK, NEW p \in PackIds, Unlink(p), InPack(p) = {}, p # active.id,
         UNCHANGED <<index, stats, rollover, active, behind, astray>>
  PROVE  /\ StoreOK'
         /\ \A q \in PackIds : q # p => packs'[q] = packs[q]
         /\ \A c \in Chunks : index[c] # None => Unit(index[c])' = Unit(index[c])
<1>1. /\ packs \in [PackIds -> Seq(Units) \union {None}] /\ rollover \in Rollovers
      /\ index \in [Chunks -> Locators \union {None}] /\ active.id \in PackIds
  BY DEF StoreOK, StoreTypes
<1>2. packs' = [packs EXCEPT ![p] = None] /\ \A q \in PackIds : q # p => packs'[q] = packs[q]
  BY <1>1 DEF Unlink
<1>3. PackIds' = PackIds /\ Locators' = Locators
  BY SameSets
<1>4. packs' \in [PackIds -> Seq(Units) \union {None}]
  BY <1>1, <1>2
<1>5. StoreTypes'
  BY <1>3, <1>4 DEF StoreOK, StoreTypes
<1>6. \A c \in Chunks : index[c] # None => index[c].pack \in PackIds /\ index[c].pack # p
  BY <1>1, StoreSets DEF InPack
<1>7. Located'
  BY <1>2, <1>6 DEF StoreOK, Located, Sits
<1>8. Heads'
  BY <1>1, <1>2 DEF StoreOK, Heads
<1>9. \A c \in Chunks : index[c] # None => Unit(index[c])' = Unit(index[c])
  BY <1>2, <1>6 DEF Unit
<1> QED
  BY <1>2, <1>5, <1>7, <1>8, <1>9 DEF StoreOK

\* Rows are dropped.
LEMMA SweepStore ==
  ASSUME StoreOK, NEW R, index' = [c \in Chunks |-> IF c \in R THEN index[c] ELSE None],
         UNCHANGED <<packs, stats, rollover, active, behind, astray>>
  PROVE  /\ StoreOK'
         /\ \A c \in Chunks : c \in R => index'[c] = index[c] /\ Unit(index[c])' = Unit(index[c])
         /\ \A c \in Chunks : c \notin R => index'[c] = None
<1>1. index \in [Chunks -> Locators \union {None}]
  BY DEF StoreOK, StoreTypes
<1>2. PackIds' = PackIds /\ Locators' = Locators
  BY SameSets
<1>3. index' \in [Chunks -> Locators \union {None}]
  BY <1>1
<1>4. StoreTypes'
  BY <1>2, <1>3 DEF StoreOK, StoreTypes
<1>5. Located'
  BY DEF StoreOK, Located
<1>6. Heads'
  BY DEF StoreOK, Heads
<1>7. \A c \in Chunks : c \in R => index'[c] = index[c] /\ Unit(index[c])' = Unit(index[c])
  BY DEF Unit
<1> QED
  BY <1>4, <1>5, <1>6, <1>7 DEF StoreOK

\* The disk damages a unit: it stays where it is, and no other gets better.
LEMMA RotStore ==
  ASSUME StoreOK, NEW c \in Chunks, Readable(c),
         packs' = [packs EXCEPT ![index[c].pack][index[c].offset + 1].sound = FALSE],
         UNCHANGED <<index, stats, rollover, active, behind, astray>>
  PROVE  /\ StoreOK'
         /\ \A p \in PackIds : packs[p] # None => packs'[p] # None /\ Len(packs'[p]) = Len(packs[p])
         /\ \A p \in PackIds : packs[p] # None => \A j \in 1 .. Len(packs[p]) :
               packs'[p][j].data = packs[p][j].data /\ (packs'[p][j].sound => packs[p][j].sound)
         /\ \A d \in Chunks : index[d] # None /\ ~Readable(d) => ~Readable(d)'
<1>1. /\ packs \in [PackIds -> Seq(Units) \union {None}] /\ rollover \in Rollovers
      /\ index \in [Chunks -> Locators \union {None}]
  BY DEF StoreOK, StoreTypes
<1>2. index[c] # None
  BY DEF Readable, Unit
<1> DEFINE m == index[c].pack
           k == index[c].offset + 1
           s == packs[m]
           u == s[k]
           v == [u EXCEPT !.sound = FALSE]
           r == [s EXCEPT ![k] = v]
<1>3. /\ m \in PackIds /\ packs[m] # None /\ s \in Seq(Units) /\ index[c].offset \in Nat
      /\ index[c].offset < Len(s)
  BY <1>1, <1>2, StoreSets DEF StoreOK, Located, Sits
<1>4. k \in 1 .. Len(s)
  <2> DEFINE o == index[c].offset
  <2>1. o \in Nat /\ o < Len(s) /\ Len(s) \in Nat
    BY <1>3
  <2> HIDE DEF o, s
  <2>2. o + 1 \in 1 .. Len(s)
    BY <2>1
  <2> QED
    BY <2>2 DEF o
<1>5. packs' = [packs EXCEPT ![m] = r]
  BY <1>1, <1>3, <1>4
<1> HIDE DEF m, k, s
<1>6. u \in Units
  BY <1>3, <1>4
<1> HIDE DEF u
<1>7. v \in Units /\ v.data = u.data /\ v.sound = FALSE
  BY <1>6 DEF Units
<1> HIDE DEF v
<1>8. /\ r \in Seq(Units) /\ Len(r) = Len(s) /\ r[k] = v
      /\ \A j \in 1 .. Len(s) : j # k => r[j] = s[j]
  BY <1>3, <1>4, <1>7, ExceptSeq
<1> HIDE DEF r
<1>9. packs' \in [PackIds -> Seq(Units) \union {None}]
  BY <1>1, <1>5, <1>8
<1>10. packs'[m] = r /\ r # None /\ packs[m] = s /\ \A p \in PackIds : p # m => packs'[p] = packs[p]
  BY <1>1, <1>3, <1>5, <1>8, ValuesAssumption DEF s
<1>11. ASSUME NEW p \in PackIds, packs[p] # None
       PROVE  /\ packs'[p] # None /\ Len(packs'[p]) = Len(packs[p])
              /\ \A j \in 1 .. Len(packs[p]) :
                   packs'[p][j].data = packs[p][j].data /\ (packs'[p][j].sound => packs[p][j].sound)
  <2>1. CASE p # m
    BY <1>10, <1>11, <2>1
  <2>2. CASE p = m
    <3>1. ASSUME NEW j \in 1 .. Len(s)
          PROVE  r[j].data = s[j].data /\ (r[j].sound => s[j].sound)
      BY <1>7, <1>8 DEF u
    <3> QED
      BY <1>8, <1>10, <2>2, <3>1
  <2> QED
    BY <2>1, <2>2
<1>12. PackIds' = PackIds /\ Locators' = Locators
  BY SameSets
<1>13. StoreTypes'
  BY <1>9, <1>12 DEF StoreOK, StoreTypes
<1>14. ASSUME NEW d \in Chunks, index[d] # None
       PROVE  /\ index[d].pack \in PackIds /\ packs[index[d].pack] # None
              /\ index[d].offset + 1 \in 1 .. Len(packs[index[d].pack])
  <2> DEFINE p == index[d].pack
             o == index[d].offset
  <2>1. p \in PackIds /\ o \in Nat /\ packs[p] # None /\ o < Len(packs[p]) /\ packs[p] \in Seq(Units)
    BY <1>1, <1>14, StoreSets DEF StoreOK, Located, Sits
  <2> HIDE DEF p, o
  <2>2. o + 1 \in 1 .. Len(packs[p])
    BY <2>1
  <2> QED
    BY <2>1, <2>2 DEF p, o
<1>15. ASSUME NEW d \in Chunks, index[d] # None
       PROVE  /\ Sits(packs', index[d])
              /\ packs'[index[d].pack][index[d].offset + 1].data
                   = packs[index[d].pack][index[d].offset + 1].data
              /\ packs'[index[d].pack][index[d].offset + 1].sound
                   => packs[index[d].pack][index[d].offset + 1].sound
  BY <1>11, <1>14, <1>15 DEF StoreOK, Located, Sits
<1>16. Located'
  BY <1>15 DEF StoreOK, Located
<1>17. Heads'
  <2>1. active.id \in PackIds /\ (packs[active.id] = None => packs'[active.id] = None)
    BY <1>3, <1>10 DEF StoreOK, StoreTypes
  <2> QED
    BY <1>11, <2>1 DEF StoreOK, Heads
<1>18. StoreOK'
  BY <1>13, <1>16, <1>17 DEF StoreOK
<1>19. ASSUME NEW d \in Chunks, index[d] # None, ~Readable(d)
       PROVE  ~Readable(d)'
  <2>1. /\ ~(Unit(index[d]).data = d /\ Unit(index[d]).sound)
        /\ Unit(index[d]) = packs[index[d].pack][index[d].offset + 1]
    BY <1>19, UnitOfChunk
  <2>2. ~(packs'[index[d].pack][index[d].offset + 1].data = d
            /\ packs'[index[d].pack][index[d].offset + 1].sound)
    BY <1>15, <1>19, <2>1
  <2>3. Unit(index[d])' = packs'[index[d].pack][index[d].offset + 1]
    BY <1>15, <1>19 DEF Unit, Sits
  <2> QED
    BY <2>2, <2>3 DEF Readable
<1> QED
  BY <1>11, <1>18, <1>19

-----------------------------------------------------------------------------
(* The shapes of a step.                                                   *)

ThreadRecords ==
  [pc : {"idle", "put", "append", "commit", "row", "locate", "read", "report"},
   files : SUBSET Chunks, todo : SUBSET Chunks, chunk : Chunks \union {None},
   id : SnapIds \union {0}, loc : Locators \union {None}, bad : BOOLEAN,
   unread : BOOLEAN]

MaintenanceRecords ==
  [pc : {"idle", "gc", "unlink", "roll", "pick", "move", "repoint"},
   dead : SUBSET PackIds, from : PackIds \union {0}, chunk : Chunks \union {None}]

CatalogTypes ==
  rows \in [SnapIds -> (SUBSET Chunks) \union {None}] /\ seq \in 1 .. MaxSnaps + 1

\* The parts of TypeOK.
LEMMA TypeParts ==
  ASSUME TypeOK
  PROVE  /\ CatalogTypes /\ StoreTypes
         /\ lock \in Threads \union {None} /\ lease \subseteq Threads
         /\ th \in [Threads -> ThreadRecords] /\ mt \in MaintenanceRecords
         /\ sweeps \in 0 .. MaxSweeps /\ faults \in 0 .. MaxFaults
BY DEF TypeOK, CatalogTypes, StoreTypes, ThreadRecords, MaintenanceRecords

\* The same after a step that keeps rollover.
LEMMA TypeParts1 ==
  ASSUME UNCHANGED rollover, CatalogTypes', StoreTypes',
         lock' \in Threads \union {None}, lease' \subseteq Threads,
         th' \in [Threads -> ThreadRecords], mt' \in MaintenanceRecords,
         sweeps' \in 0 .. MaxSweeps, faults' \in 0 .. MaxFaults
  PROVE  TypeOK'
<1>1. PackIds' = PackIds /\ Locators' = Locators
  BY SameSets
<1> QED
  BY <1>1 DEF TypeOK, CatalogTypes, StoreTypes, ThreadRecords, MaintenanceRecords

LEMMA IdleIs ==
  /\ IdleThread \in ThreadRecords /\ IdleThread.pc = "idle" /\ IdleThread.bad = FALSE
  /\ IdleMaintenance \in MaintenanceRecords /\ IdleMaintenance.pc = "idle"
BY DEF IdleThread, IdleMaintenance, ThreadRecords, MaintenanceRecords

\* What the lease excludes: no thread records or verifies, nobody has the mutex.
LEMMA NobodyLeased ==
  ASSUME IInv, lease = {}
  PROVE  /\ \A t \in Threads : th[t].pc \in {"idle", "report"}
         /\ lock = None
<1>1. th \in [Threads -> ThreadRecords] /\ lock \in Threads \union {None}
  BY TypeParts DEF IInv
<1>2. ASSUME NEW t \in Threads PROVE th[t].pc \in {"idle", "report"}
  <2>1. th[t].pc \notin Recording /\ th[t].pc \notin Verifying
    BY DEF IInv, Recorder, Leases
  <2>2. th[t] \in ThreadRecords
    BY <1>1
  <2> QED
    BY <2>1, <2>2 DEF ThreadRecords, Recording, Verifying
<1>3. \A t \in Threads : lock # t
  BY <1>2 DEF IInv, Mutex
<1> QED
  BY <1>1, <1>2, <1>3

\* A step of thread t that leaves the disk alone.
LEMMA ThreadStep ==
  ASSUME IInv, NEW t \in Threads, NEW r \in ThreadRecords, th' = [th EXCEPT ![t] = r],
         UNCHANGED <<disk, active, mt, sweeps>>, faults' \in 0 .. MaxFaults,
         lease' \subseteq Threads, \A u \in Threads \ {t} : u \in lease' <=> u \in lease,
         Excluded => t \notin lease',
         \/ lock' = lock
         \/ lock = None /\ lock' = t
         \/ lock = t /\ lock' = None,
         r.pc # "row", r.pc \in Verifying => t \in lease',
         r.pc \in Verifying \union {"report"} =>
            /\ r.id \in SnapIds /\ r.id < seq
            /\ \A u \in Threads : th[u].pc = "row" => th[u].id # r.id,
         Recorder(t)', Mutex(t)', Verifier(t)'
  PROVE  IInv'
<1>1. /\ CatalogTypes /\ StoreTypes
      /\ lock \in Threads \union {None} /\ lease \subseteq Threads
      /\ th \in [Threads -> ThreadRecords] /\ mt \in MaintenanceRecords
      /\ sweeps \in 0 .. MaxSweeps
  BY TypeParts DEF IInv
<1>2. UNCHANGED <<rows, seq, index, packs, stats, rollover, active, behind, astray, mt, sweeps>>
  BY DEF disk
<1>3. th'[t] = r /\ th' \in [Threads -> ThreadRecords] /\ \A u \in Threads : u # t => th'[u] = th[u]
  BY <1>1
<1>4. TypeOK'
  <2>1. CatalogTypes' /\ StoreTypes'
    BY <1>1, <1>2, SameSets DEF CatalogTypes, StoreTypes
  <2>2. lock' \in Threads \union {None}
    BY <1>1
  <2> QED
    BY <1>1, <1>2, <1>3, <2>1, <2>2, TypeParts1
<1>5. Located' /\ Heads' /\ Present'
  BY <1>2 DEF IInv, Located, Heads, Present
<1>6. Doomed'
  BY <1>2 DEF IInv, Doomed, InPack, Last, Appended, Aligned
<1>7. Leases'
  <2>1. Excluded' => lease' = {}
    BY <1>2 DEF IInv, Leases, Excluded
  <2>2. \A u \in Threads : th'[u].pc \in Verifying => u \in lease'
    BY <1>3 DEF IInv, Leases
  <2> QED
    BY <2>1, <2>2 DEF Leases
<1>8. Numbered'
  <2>1. \A i \in SnapIds : rows'[i] # None => i < seq'
    BY <1>2 DEF IInv, Numbered
  <2>2. \A u \in Threads : th'[u].pc = "row" => th'[u].id \in SnapIds /\ th'[u].id < seq' /\ rows'[th'[u].id] = None
    BY <1>2, <1>3 DEF IInv, Numbered
  <2>3. \A u, v \in Threads : th'[u].pc = "row" /\ th'[v].pc = "row" /\ u # v => th'[u].id # th'[v].id
    BY <1>3 DEF IInv, Numbered
  <2>4. \A u \in Threads : th'[u].pc \in Verifying \union {"report"} =>
          /\ th'[u].id \in SnapIds /\ th'[u].id < seq'
          /\ \A v \in Threads : th'[v].pc = "row" => th'[v].id # th'[u].id
    BY <1>2, <1>3 DEF IInv, Numbered
  <2> QED
    BY <2>1, <2>2, <2>3, <2>4 DEF Numbered
<1>9. ASSUME NEW u \in Threads, u # t
      PROVE  Recorder(u)' /\ Mutex(u)' /\ Verifier(u)'
  <2>1. th'[u] = th[u] /\ Recorder(u) /\ Mutex(u) /\ Verifier(u)
    BY <1>3, <1>9 DEF IInv
  <2>2. lock' = u <=> lock = u
    BY <1>9, ValuesAssumption
  <2>3. Recorder(u)'
    BY <1>2, <1>9, <2>1, <2>2 DEF Recorder, Last, Appended, Aligned
  <2>4. Mutex(u)'
    BY <1>2, <2>1, <2>2 DEF Mutex
  <2>5. \A c : Damaged(c)' <=> Damaged(c)
    BY <1>2 DEF Damaged, Readable, Unit, Last
  <2>6. Verifier(u)'
    BY <1>2, <2>1, <2>5 DEF Verifier
  <2> QED
    BY <2>3, <2>4, <2>6
<1> QED
  BY <1>4, <1>5, <1>6, <1>7, <1>8, <1>9 DEF IInv

\* A step of maintenance while it excludes the threads.
LEMMA MaintenanceStepIInv ==
  ASSUME IInv, lease = {}, UNCHANGED <<rows, seq, rollover, lock, lease, th>>,
         mt' \in MaintenanceRecords, sweeps' \in 0 .. MaxSweeps, faults' \in 0 .. MaxFaults,
         StoreOK', Present', Doomed',
         \A i \in SnapIds : rows[i] # None => \A c \in rows[i] : Damaged(c) => Damaged(c)'
  PROVE  IInv'
<1>1. /\ CatalogTypes /\ lock \in Threads \union {None} /\ lease \subseteq Threads
      /\ th \in [Threads -> ThreadRecords]
  BY TypeParts DEF IInv
<1>2. /\ \A t \in Threads : th[t].pc \in {"idle", "report"}
      /\ lock = None
  BY NobodyLeased
<1>3. TypeOK'
  BY <1>1, TypeParts1 DEF StoreOK, CatalogTypes
<1>4. Leases'
  BY <1>2 DEF Leases, Verifying
<1>5. Numbered'
  BY DEF IInv, Numbered
<1>6. ASSUME NEW t \in Threads
      PROVE  Recorder(t)' /\ Mutex(t)' /\ Verifier(t)'
  <2>1. Recorder(t)'
    BY <1>2 DEF Recorder, Recording
  <2>2. Mutex(t)'
    BY <1>2, ValuesAssumption DEF Mutex
  <2>3. CASE th[t].pc = "report" /\ rows[th[t].id] # None
    <3>1. th[t].id \in SnapIds
      BY <2>3 DEF IInv, Numbered
    <3>2. th[t].unread \/ \E c \in rows[th[t].id] : Damaged(c)
      BY <2>3 DEF IInv, Verifier
    <3>3. th[t].unread \/ \E c \in rows[th[t].id] : Damaged(c)'
      BY <2>3, <3>1, <3>2
    <3> QED
      BY <2>1, <2>2, <2>3, <3>3 DEF Verifier, Verifying
  <2>4. CASE ~(th[t].pc = "report" /\ rows[th[t].id] # None)
    BY <1>2, <2>1, <2>2, <2>4 DEF Verifier, Verifying
  <2> QED
    BY <2>3, <2>4
<1> QED
  BY <1>3, <1>4, <1>5, <1>6 DEF IInv, StoreOK

\* A step of the holder of the mutex on the store.
LEMMA PutStep ==
  ASSUME IInv, NEW t \in Threads, NEW r \in ThreadRecords, th' = [th EXCEPT ![t] = r],
         lock = t, th[t].pc \in {"append", "commit"}, r.pc \in {"put", "append", "commit", "idle"},
         UNCHANGED <<rows, seq, rollover, mt, sweeps>>, faults' \in 0 .. MaxFaults,
         lease' \subseteq lease, lease \ {t} \subseteq lease', lock' \in {t, None},
         StoreOK',
         \A c \in Chunks : index[c] # None => index'[c] = index[c] /\ Unit(index[c])' = Unit(index[c]),
         Recorder(t)', Mutex(t)'
  PROVE  IInv'
<1>1. /\ CatalogTypes /\ StoreTypes
      /\ lock \in Threads \union {None} /\ lease \subseteq Threads
      /\ th \in [Threads -> ThreadRecords] /\ mt \in MaintenanceRecords
      /\ sweeps \in 0 .. MaxSweeps /\ faults \in 0 .. MaxFaults
  BY TypeParts DEF IInv
<1>2. th'[t] = r /\ th' \in [Threads -> ThreadRecords] /\ \A u \in Threads : u # t => th'[u] = th[u]
  BY <1>1
<1>3. t \in lease /\ mt.pc \notin {"unlink", "roll", "pick", "move", "repoint"}
  BY DEF IInv, Recorder, Recording, Leases, Excluded
<1>4. TypeOK'
  <2>1. CatalogTypes'
    BY <1>1 DEF CatalogTypes
  <2> QED
    BY <1>1, <1>2, <2>1, TypeParts1 DEF StoreOK
<1>5. Present'
  <2>1. \A i \in SnapIds : rows[i] # None => rows[i] \subseteq Chunks
    BY <1>1 DEF CatalogTypes
  <2> QED
    BY <2>1 DEF IInv, Present
<1>6. Doomed'
  BY <1>3 DEF Doomed
<1>7. Leases'
  <2>1. \A u \in Threads : th'[u].pc \in Verifying => u # t /\ th'[u] = th[u]
    BY <1>2 DEF Verifying
  <2>2. \A u \in Threads : th'[u].pc \in Verifying => u \in lease'
    BY <2>1 DEF IInv, Leases
  <2> QED
    BY <1>3, <2>2 DEF Leases, Excluded
<1>8. Numbered'
  <2>1. \A i \in SnapIds : rows'[i] # None => i < seq'
    BY DEF IInv, Numbered
  <2>2. \A u \in Threads : th'[u].pc = "row" => th'[u].id \in SnapIds /\ th'[u].id < seq' /\ rows'[th'[u].id] = None
    BY <1>2 DEF IInv, Numbered
  <2>3. \A u, v \in Threads : th'[u].pc = "row" /\ th'[v].pc = "row" /\ u # v => th'[u].id # th'[v].id
    BY <1>2 DEF IInv, Numbered
  <2>4. \A u \in Threads : th'[u].pc \in Verifying \union {"report"} =>
          /\ th'[u].id \in SnapIds /\ th'[u].id < seq'
          /\ \A v \in Threads : th'[v].pc = "row" => th'[v].id # th'[u].id
    BY <1>2 DEF IInv, Numbered, Verifying
  <2> QED
    BY <2>1, <2>2, <2>3, <2>4 DEF Numbered
<1>9. Verifier(t)'
  BY <1>2 DEF Verifier, Verifying
<1>10. ASSUME NEW u \in Threads, u # t
       PROVE  Recorder(u)' /\ Mutex(u)' /\ Verifier(u)'
  <2>1. th'[u] = th[u] /\ Recorder(u) /\ Mutex(u) /\ Verifier(u)
    BY <1>2, <1>10 DEF IInv
  <2>2. lock' # u
    BY <1>10, ValuesAssumption
  <2>3. th[u].files \subseteq Chunks /\ th[u].chunk \in Chunks \union {None}
    <3>1. th[u] \in ThreadRecords
      BY <1>1
    <3> QED
      BY <3>1 DEF ThreadRecords
  <2>4. Recorder(u)'
    BY <1>10, <2>1, <2>3 DEF Recorder
  <2>5. Mutex(u)'
    BY <2>2 DEF Mutex
  <2>6. CASE th[u].pc \in Verifying \union {"report"} /\ rows[th[u].id] # None
    <3>1. th[u].id \in SnapIds
      BY <2>6 DEF IInv, Numbered
    <3>2. rows[th[u].id] \subseteq Chunks /\ \A c \in rows[th[u].id] : index[c] # None
      BY <1>1, <2>6, <3>1 DEF CatalogTypes, IInv, Present
    <3>3. ASSUME NEW c \in rows[th[u].id], Damaged(c)
          PROVE  Damaged(c)'
      BY <1>3, <3>2, <3>3 DEF Damaged, Readable
    <3>4. th'[u].pc = "report" \/ th'[u].bad => th'[u].unread \/ \E c \in rows'[th'[u].id] : Damaged(c)'
      BY <2>1, <2>6, <3>3 DEF Verifier
    <3>5. th'[u].pc = "read" => th'[u].chunk \in rows'[th'[u].id] /\ th'[u].loc = index'[th'[u].chunk]
      BY <2>1, <2>6, <3>2 DEF Verifier
    <3>6. th'[u].pc \in Verifying => th'[u].todo \subseteq rows'[th'[u].id]
      BY <2>1, <2>6 DEF Verifier
    <3>7. Verifier(u)'
      BY <3>4, <3>5, <3>6 DEF Verifier
    <3> QED
      BY <2>4, <2>5, <3>7
  <2>7. CASE ~(th[u].pc \in Verifying \union {"report"} /\ rows[th[u].id] # None)
    BY <2>1, <2>4, <2>5, <2>7 DEF Verifier
  <2> QED
    BY <2>6, <2>7
<1> QED
  BY <1>4, <1>5, <1>6, <1>7, <1>8, <1>9, <1>10 DEF IInv, StoreOK

-----------------------------------------------------------------------------
(* Recording.                                                              *)

LEMMA BeginIInv ==
  ASSUME IInv, NEW t \in Threads, NEW S \in Inputs, Begin(t, S)
  PROVE  IInv'
<1> DEFINE r == [IdleThread EXCEPT !.pc = "put", !.files = S, !.todo = S]
<1>1. S \in SUBSET Chunks
  BY DEF Inputs
<1>2. r \in ThreadRecords /\ r.pc = "put" /\ r.files = S /\ r.todo = S
  BY <1>1, IdleIs DEF ThreadRecords
<1> HIDE DEF r
<1>3. /\ th' = [th EXCEPT ![t] = r] /\ th[t].pc = "idle" /\ ~Excluded /\ lease' = lease \union {t}
      /\ UNCHANGED <<disk, active, lock, mt, sweeps, faults>>
  BY DEF Begin, Set, r
<1>4. /\ th \in [Threads -> ThreadRecords] /\ lease \subseteq Threads /\ faults \in 0 .. MaxFaults
  BY TypeParts DEF IInv
<1>5. th'[t] = r
  BY <1>3, <1>4
<1>6. Recorder(t)'
  BY <1>2, <1>3, <1>5 DEF Recorder
<1>7. Mutex(t)'
  BY <1>3 DEF IInv, Mutex
<1>8. Verifier(t)'
  BY <1>2, <1>5 DEF Verifier, Verifying
<1>9. /\ lease' \subseteq Threads /\ \A u \in Threads \ {t} : u \in lease' <=> u \in lease
      /\ r.pc # "row" /\ r.pc \notin Verifying \union {"report"}
  BY <1>2, <1>3, <1>4 DEF Verifying
<1> QED
  BY <1>2, <1>3, <1>4, <1>6, <1>7, <1>8, <1>9, ThreadStep

\* A recording thread goes on, without touching the disk.
LEMMA RecordOn ==
  ASSUME IInv, NEW t \in Threads, NEW r \in ThreadRecords, th' = [th EXCEPT ![t] = r],
         th[t].pc \in Recording, r.pc \in {"put", "append"},
         UNCHANGED <<disk, active, lease, mt, sweeps, faults>>,
         \/ lock' = lock
         \/ lock = None /\ lock' = t,
         \A c \in r.files \ r.todo : index[c] # None,
         r.pc = "append" => r.chunk \in Chunks,
         lock' = t => r.pc = "append" /\ index[r.chunk] = None
  PROVE  IInv'
<1>1. /\ th \in [Threads -> ThreadRecords] /\ lease \subseteq Threads /\ faults \in 0 .. MaxFaults
      /\ UNCHANGED index
  BY TypeParts DEF IInv, disk
<1>2. th'[t] = r
  BY <1>1
<1>3. t \in lease /\ ~Excluded
  BY DEF IInv, Recorder, Leases
<1>4. Recorder(t)'
  BY <1>1, <1>2, <1>3 DEF Recorder
<1>5. Mutex(t)'
  BY <1>1, <1>2 DEF Mutex
<1>6. Verifier(t)'
  BY <1>2 DEF Verifier, Verifying
<1>7. r.pc # "row" /\ r.pc \notin Verifying \union {"report"}
  BY DEF Verifying
<1> QED
  BY <1>1, <1>3, <1>4, <1>5, <1>6, <1>7, ThreadStep

LEMMA PutDedupIInv ==
  ASSUME IInv, NEW t \in Threads, PutDedup(t) \/ PutMiss(t)
  PROVE  IInv'
<1>1. /\ th[t].pc = "put" /\ UNCHANGED <<disk, active, lock, lease, mt, sweeps, faults>>
      /\ th[t].pc \in Recording
  BY DEF PutDedup, PutMiss, Recording
<1>2. th[t] \in ThreadRecords
  BY TypeParts DEF IInv
<1>3. lock # t
  BY <1>1 DEF IInv, Mutex
<1>4. \A c \in th[t].files \ th[t].todo : index[c] # None
  BY <1>1 DEF IInv, Recorder
<1>5. CASE PutDedup(t)
  <2>1. PICK c \in th[t].todo : index[c] # None /\ th' = [th EXCEPT ![t] = [th[t] EXCEPT !.todo = @ \ {c}]]
    BY <1>5 DEF PutDedup, Set
  <2> DEFINE r == [th[t] EXCEPT !.todo = @ \ {c}]
  <2>2. r \in ThreadRecords /\ r.pc = "put" /\ r.files = th[t].files /\ r.todo = th[t].todo \ {c}
    BY <1>1, <1>2 DEF ThreadRecords
  <2>3. th' = [th EXCEPT ![t] = r]
    BY <2>1
  <2> HIDE DEF r
  <2>4. \A d \in r.files \ r.todo : index[d] # None
    BY <1>4, <2>1, <2>2
  <2> QED
    BY <1>1, <1>3, <2>2, <2>3, <2>4, RecordOn
<1>6. CASE PutMiss(t)
  <2>1. PICK c \in th[t].todo : index[c] = None /\ th' = [th EXCEPT ![t] = [th[t] EXCEPT !.pc = "append", !.chunk = c]]
    BY <1>6 DEF PutMiss, Set
  <2> DEFINE r == [th[t] EXCEPT !.pc = "append", !.chunk = c]
  <2>2. c \in Chunks
    BY <1>2, <2>1 DEF ThreadRecords
  <2>3. /\ r \in ThreadRecords /\ r.pc = "append" /\ r.chunk = c
        /\ r.files = th[t].files /\ r.todo = th[t].todo
    BY <1>2, <2>2 DEF ThreadRecords
  <2>4. th' = [th EXCEPT ![t] = r]
    BY <2>1
  <2> HIDE DEF r
  <2>5. \A d \in r.files \ r.todo : index[d] # None
    BY <1>4, <2>3
  <2> QED
    BY <1>1, <1>3, <2>2, <2>3, <2>4, <2>5, RecordOn
<1> QED
  BY <1>5, <1>6

\* The mutex is taken by a thread whose chunk the index still does not have.
LEMMA PutLockedIInv ==
  ASSUME IInv, NEW t \in Threads, PutLocked(t)
  PROVE  IInv'
<1> DEFINE c == th[t].chunk
<1>1. /\ th[t].pc = "append" /\ UNCHANGED <<disk, active, lease, mt, sweeps, faults>>
      /\ th[t].pc \in Recording /\ lock = None /\ t # None
  BY ValuesAssumption DEF PutLocked, Recording
<1>2. th[t] \in ThreadRecords /\ th \in [Threads -> ThreadRecords]
  BY TypeParts DEF IInv
<1>3. c \in Chunks /\ \A d \in th[t].files \ th[t].todo : index[d] # None
  BY <1>1 DEF IInv, Recorder
<1>4. CASE index[c] = None /\ lock' = t /\ UNCHANGED th
  <2>1. th' = [th EXCEPT ![t] = th[t]]
    BY <1>2, <1>4
  <2> QED
    BY <1>1, <1>2, <1>3, <1>4, <2>1, RecordOn
<1>5. CASE /\ index[c] # None
           /\ Set(t, [th[t] EXCEPT !.pc = "put", !.todo = @ \ {c}, !.chunk = None]) /\ UNCHANGED lock
  <2> DEFINE r == [th[t] EXCEPT !.pc = "put", !.todo = @ \ {c}, !.chunk = None]
  <2>1. r \in ThreadRecords /\ r.pc = "put" /\ r.files = th[t].files /\ r.todo = th[t].todo \ {c}
    BY <1>2 DEF ThreadRecords
  <2>2. th' = [th EXCEPT ![t] = r] /\ lock' # t
    BY <1>1, <1>5 DEF Set
  <2> HIDE DEF r, c
  <2>3. \A d \in r.files \ r.todo : index[d] # None
    BY <1>3, <1>5, <2>1
  <2> QED
    BY <1>1, <1>5, <2>1, <2>2, <2>3, RecordOn
<1> QED
  BY <1>4, <1>5 DEF PutLocked

LEMMA PutRollIInv ==
  ASSUME IInv, NEW t \in Threads, PutRoll(t)
  PROVE  IInv'
<1>1. /\ th[t].pc = "append" /\ lock = t /\ Roll
      /\ UNCHANGED <<rows, seq, lock, lease, th, mt, sweeps, faults>>
  BY DEF PutRoll
<1>2. /\ StoreOK /\ th \in [Threads -> ThreadRecords] /\ th[t] \in ThreadRecords
      /\ faults \in 0 .. MaxFaults
  BY TypeParts DEF IInv, StoreOK
<1>3. /\ StoreOK' /\ UNCHANGED <<index, rollover>>
      /\ \A c \in Chunks : index[c] # None => Unit(index[c])' = Unit(index[c])
  BY <1>1, <1>2, RollStore
<1>4. th' = [th EXCEPT ![t] = th[t]]
  BY <1>1, <1>2
<1>5. Recorder(t)'
  BY <1>1, <1>3 DEF IInv, Recorder, Recording
<1>6. Mutex(t)'
  BY <1>1, <1>3 DEF IInv, Mutex
<1> QED
  BY <1>1, <1>2, <1>3, <1>4, <1>5, <1>6, PutStep

\* The roll or the append fails, and the recording ends.
LEMMA PutFailsIInv ==
  ASSUME IInv, NEW t \in Threads, PutFails(t)
  PROVE  IInv'
<1>1. /\ th[t].pc = "append" /\ lock = t /\ lock' = None /\ lease' = lease \ {t}
      /\ faults < MaxFaults /\ faults' = faults + 1
      /\ th' = [th EXCEPT ![t] = IdleThread] /\ (AppendShort \/ RollUncommitted)
      /\ UNCHANGED <<rows, seq, mt, sweeps>>
  BY DEF PutFails, Set, Fault
<1>2. /\ StoreOK /\ th \in [Threads -> ThreadRecords] /\ faults \in 0 .. MaxFaults
  BY TypeParts DEF IInv, StoreOK
<1>3. faults' \in 0 .. MaxFaults
  BY <1>1, <1>2, BoundsAssumption
<1>4. /\ StoreOK' /\ UNCHANGED <<index, rollover>>
      /\ \A c \in Chunks : index[c] # None => Unit(index[c])' = Unit(index[c])
  BY <1>1, <1>2, RollStore, AppendShortStore
<1>5. th'[t] = IdleThread
  BY <1>1, <1>2
<1>6. Recorder(t)'
  BY <1>5, IdleIs DEF Recorder, Recording
<1>7. Mutex(t)'
  BY <1>1, ValuesAssumption DEF Mutex
<1> QED
  BY <1>1, <1>3, <1>4, <1>6, <1>7, IdleIs, PutStep

LEMMA PutAppendIInv ==
  ASSUME IInv, NEW t \in Threads, PutAppend(t)
  PROVE  IInv'
<1> DEFINE u == [data |-> th[t].chunk, sound |-> TRUE]
           r == [th[t] EXCEPT !.pc = "commit"]
<1>1. /\ th[t].pc = "append" /\ lock = t /\ AppendUnit(u)
      /\ th' = [th EXCEPT ![t] = r]
      /\ UNCHANGED <<rows, seq, lock, lease, mt, sweeps, faults>>
  BY DEF PutAppend, Set
<1>2. /\ StoreOK /\ th \in [Threads -> ThreadRecords] /\ th[t] \in ThreadRecords
      /\ faults \in 0 .. MaxFaults
  BY TypeParts DEF IInv, StoreOK
<1>3. /\ th[t].chunk \in Chunks /\ t \in lease /\ index[th[t].chunk] = None
      /\ \A c \in th[t].files \ th[t].todo : index[c] # None
  BY <1>1 DEF IInv, Recorder, Recording, Mutex
<1>4. u \in Units /\ u.data = th[t].chunk
  BY <1>3 DEF Units
<1>5. /\ r \in ThreadRecords /\ r.pc = "commit" /\ r.chunk = th[t].chunk
      /\ r.files = th[t].files /\ r.todo = th[t].todo
  BY <1>2 DEF ThreadRecords
<1> HIDE DEF u, r
<1>6. /\ StoreOK' /\ UNCHANGED <<index, rollover, stats>> /\ Appended'
      /\ (Aligned <=> Aligned') /\ (Aligned => Last' = u)
      /\ \A c \in Chunks : index[c] # None => Unit(index[c])' = Unit(index[c])
  BY <1>1, <1>2, <1>4, AppendStore
<1>7. th'[t] = r
  BY <1>1, <1>2
<1>8. Recorder(t)'
  BY <1>1, <1>3, <1>4, <1>5, <1>6, <1>7 DEF Recorder
<1>9. Mutex(t)'
  BY <1>3, <1>5, <1>6, <1>7 DEF Mutex
<1> QED
  BY <1>1, <1>2, <1>5, <1>6, <1>8, <1>9, PutStep

LEMMA PutCommitIInv ==
  ASSUME IInv, NEW t \in Threads, PutCommit(t)
  PROVE  IInv'
<1> DEFINE c == th[t].chunk
           r == [th[t] EXCEPT !.pc = "put", !.todo = @ \ {c}, !.chunk = None]
<1>1. /\ th[t].pc = "commit" /\ Repoint(c) /\ lock' = None /\ th' = [th EXCEPT ![t] = r]
      /\ astray' = IF Aligned THEN astray \ {c} ELSE astray \union {c}
      /\ UNCHANGED <<rows, seq, lease, mt, sweeps, faults>>
  BY DEF PutCommit, Set
<1>2. /\ StoreOK /\ th \in [Threads -> ThreadRecords] /\ th[t] \in ThreadRecords
      /\ faults \in 0 .. MaxFaults
  BY TypeParts DEF IInv, StoreOK
<1>3. /\ c \in Chunks /\ t \in lease /\ lock = t /\ Appended /\ (Aligned => Last.data = c)
      /\ \A d \in th[t].files \ th[t].todo : index[d] # None
  BY <1>1 DEF IInv, Recorder, Recording
<1>4. index[c] = None
  BY <1>3 DEF IInv, Mutex
<1>5. r \in ThreadRecords /\ r.pc = "put" /\ r.files = th[t].files /\ r.todo = th[t].todo \ {c}
  BY <1>2 DEF ThreadRecords
<1>6. th[t].files \subseteq Chunks
  BY <1>2 DEF ThreadRecords
<1> HIDE DEF r, c
<1>12. /\ astray' \subseteq Chunks /\ (c \in astray' \/ Last.data = c)
       /\ \A d \in Chunks : d # c => (d \in astray' <=> d \in astray)
  BY <1>1, <1>2, <1>3 DEF StoreOK, StoreTypes
<1>7. /\ StoreOK' /\ UNCHANGED <<packs, stats, rollover, active, behind>>
      /\ index'[c] # None /\ \A d \in Chunks : d # c => index'[d] = index[d]
      /\ \A d \in Chunks : d # c => Unit(index[d])' = Unit(index[d])
  BY <1>1, <1>2, <1>3, <1>12, RepointStore
<1>8. th'[t] = r
  BY <1>1, <1>2
<1>9. Recorder(t)'
  BY <1>1, <1>3, <1>5, <1>6, <1>7, <1>8 DEF Recorder
<1>10. Mutex(t)'
  BY <1>1, ValuesAssumption DEF Mutex
<1>11. \A d \in Chunks : index[d] # None => index'[d] = index[d] /\ Unit(index[d])' = Unit(index[d])
  BY <1>4, <1>7
<1> QED
  BY <1>1, <1>2, <1>3, <1>5, <1>7, <1>9, <1>10, <1>11, PutStep

LEMMA AbandonIInv ==
  ASSUME IInv, NEW t \in Threads, Abandon(t)
  PROVE  IInv'
<1>1. /\ th' = [th EXCEPT ![t] = IdleThread] /\ lease' = lease \ {t}
      /\ lock' = IF lock = t THEN None ELSE lock
      /\ UNCHANGED <<disk, active, mt, sweeps>>
  BY DEF Abandon, Set
<1>2. faults' \in 0 .. MaxFaults
  BY BoundsAssumption, TypeParts DEF IInv, Abandon, Fault
<1>3. th'[t] = IdleThread /\ lease \subseteq Threads
  BY <1>1, TypeParts DEF IInv
<1>4. Recorder(t)' /\ Verifier(t)'
  BY <1>3, IdleIs DEF Recorder, Verifier, Recording, Verifying
<1>5. Mutex(t)'
  BY <1>1, ValuesAssumption DEF Mutex
<1>6. /\ IdleThread.pc # "row" /\ IdleThread.pc \notin Verifying \union {"report"}
      /\ IdleThread \in ThreadRecords
  BY IdleIs DEF Verifying
<1>7. /\ lease' \subseteq Threads /\ t \notin lease'
      /\ \A u \in Threads \ {t} : u \in lease' <=> u \in lease
  BY <1>1, <1>3
<1> QED
  BY <1>1, <1>2, <1>4, <1>5, <1>6, <1>7, ThreadStep

\* allocate_snapshot_id
LEMMA AllocateIInv ==
  ASSUME IInv, NEW t \in Threads, Allocate(t)
  PROVE  IInv'
<1> DEFINE r == [th[t] EXCEPT !.pc = "row", !.id = seq]
<1>1. /\ th[t].pc = "put" /\ th[t].todo = {} /\ seq \in SnapIds /\ seq' = seq + 1
      /\ th' = [th EXCEPT ![t] = r]
      /\ UNCHANGED <<rows, index, packs, stats, rollover, active, behind, astray, lock, lease, mt, sweeps, faults>>
  BY DEF Allocate, Set, store
<1>2. /\ CatalogTypes /\ StoreTypes
      /\ lock \in Threads \union {None} /\ lease \subseteq Threads
      /\ th \in [Threads -> ThreadRecords] /\ mt \in MaintenanceRecords
      /\ sweeps \in 0 .. MaxSweeps /\ faults \in 0 .. MaxFaults
  BY TypeParts DEF IInv
<1>3. /\ r \in ThreadRecords /\ r.pc = "row" /\ r.id = seq /\ r.files = th[t].files /\ r.todo = {}
  BY <1>1, <1>2 DEF ThreadRecords
<1> HIDE DEF r
<1>4. th'[t] = r /\ th' \in [Threads -> ThreadRecords] /\ \A u \in Threads : u # t => th'[u] = th[u]
  BY <1>1, <1>2, <1>3
<1>5. seq \in Nat /\ seq < seq' /\ seq' \in 1 .. MaxSnaps + 1 /\ \A i \in SnapIds : i < seq => i < seq'
  BY <1>1, BoundsAssumption DEF SnapIds
<1>6. TypeOK'
  <2>1. CatalogTypes' /\ StoreTypes'
    BY <1>1, <1>2, <1>5, SameSets DEF CatalogTypes, StoreTypes
  <2> QED
    BY <1>1, <1>2, <1>4, <2>1, TypeParts1
<1>7. Located' /\ Heads' /\ Present'
  BY <1>1 DEF IInv, Located, Heads, Present
<1>8. Doomed'
  BY <1>1 DEF IInv, Doomed, InPack, Last, Appended, Aligned
<1>9. Leases'
  <2>1. \A u \in Threads : th'[u].pc \in Verifying => u \in lease'
    BY <1>1, <1>3, <1>4 DEF IInv, Leases, Verifying
  <2> QED
    BY <1>1, <2>1 DEF IInv, Leases, Excluded
<1>10. Numbered'
  <2>1. \A i \in SnapIds : rows'[i] # None => i < seq'
    BY <1>1, <1>5 DEF IInv, Numbered
  <2>2. rows[seq] = None
    BY <1>1, <1>5 DEF IInv, Numbered
  <2>3. \A u \in Threads : th'[u].pc = "row" => th'[u].id \in SnapIds /\ th'[u].id < seq' /\ rows'[th'[u].id] = None
    <3> SUFFICES ASSUME NEW u \in Threads, th'[u].pc = "row"
                 PROVE  th'[u].id \in SnapIds /\ th'[u].id < seq' /\ rows'[th'[u].id] = None
      OBVIOUS
    <3>1. CASE u = t
      BY <1>1, <1>3, <1>4, <1>5, <2>2, <3>1
    <3>2. CASE u # t
      <4>1. th[u].id \in SnapIds /\ th[u].id < seq /\ rows[th[u].id] = None /\ th'[u] = th[u]
        BY <1>4, <3>2 DEF IInv, Numbered
      <4> QED
        BY <1>1, <1>5, <4>1
    <3> QED
      BY <3>1, <3>2
  <2>4. \A u \in Threads : u # t /\ th[u].pc = "row" => th[u].id # seq
    BY <1>5 DEF IInv, Numbered
  <2>5. \A u, v \in Threads : th'[u].pc = "row" /\ th'[v].pc = "row" /\ u # v => th'[u].id # th'[v].id
    <3> SUFFICES ASSUME NEW u \in Threads, NEW v \in Threads,
                        th'[u].pc = "row", th'[v].pc = "row", u # v
                 PROVE  th'[u].id # th'[v].id
      OBVIOUS
    <3>1. CASE u = t
      BY <1>3, <1>4, <2>4, <3>1
    <3>2. CASE v = t
      BY <1>3, <1>4, <2>4, <3>2
    <3>3. CASE u # t /\ v # t
      BY <1>4, <3>3 DEF IInv, Numbered
    <3> QED
      BY <3>1, <3>2, <3>3
  <2>6. ASSUME NEW u \in Threads, th'[u].pc \in Verifying \union {"report"}
        PROVE  /\ th'[u].id \in SnapIds /\ th'[u].id < seq'
               /\ \A v \in Threads : th'[v].pc = "row" => th'[v].id # th'[u].id
    <3>1. u # t /\ th'[u] = th[u]
      BY <1>3, <1>4, <2>6 DEF Verifying
    <3>2. /\ th[u].id \in SnapIds /\ th[u].id < seq
          /\ \A v \in Threads : th[v].pc = "row" => th[v].id # th[u].id
      BY <2>6, <3>1 DEF IInv, Numbered
    <3>3. th[u].id # seq
      BY <1>5, <3>2
    <3> QED
      BY <1>3, <1>4, <1>5, <3>1, <3>2, <3>3
  <2> QED
    BY <2>1, <2>3, <2>5, <2>6 DEF Numbered
<1>11. Recorder(t)' /\ Mutex(t)' /\ Verifier(t)'
  <2>1. Recorder(t)'
    BY <1>1, <1>3, <1>4 DEF IInv, Recorder, Recording
  <2>2. lock # t
    BY <1>1 DEF IInv, Mutex
  <2>3. Mutex(t)'
    BY <1>1, <2>2 DEF Mutex
  <2>4. Verifier(t)'
    BY <1>3, <1>4 DEF Verifier, Verifying
  <2> QED
    BY <2>1, <2>3, <2>4
<1>12. ASSUME NEW u \in Threads, u # t
       PROVE  Recorder(u)' /\ Mutex(u)' /\ Verifier(u)'
  <2>1. th'[u] = th[u] /\ Recorder(u) /\ Mutex(u) /\ Verifier(u)
    BY <1>4, <1>12 DEF IInv
  <2>2. Recorder(u)' /\ Mutex(u)'
    BY <1>1, <2>1 DEF Recorder, Mutex, Last, Appended, Aligned
  <2>3. \A c : Damaged(c)' <=> Damaged(c)
    BY <1>1 DEF Damaged, Readable, Unit, Last
  <2>4. Verifier(u)'
    BY <1>1, <2>1, <2>3 DEF Verifier
  <2> QED
    BY <2>2, <2>4
<1> QED
  BY <1>6, <1>7, <1>8, <1>9, <1>10, <1>11, <1>12 DEF IInv

\* record_inner commits the row; the thread ends, or goes on to the next snapshot.
LEMMA RowStep ==
  ASSUME IInv, NEW t \in Threads, NEW r \in ThreadRecords, th' = [th EXCEPT ![t] = r],
         th[t].pc = "row", rows' = [rows EXCEPT ![th[t].id] = th[t].files],
         \/ r.pc = "idle" /\ lease' = lease \ {t}
         \/ r.pc = "put" /\ r.todo = r.files /\ UNCHANGED lease,
         UNCHANGED <<seq, store, lock, mt, sweeps, faults>>
  PROVE  IInv'
<1>1. UNCHANGED <<seq, index, packs, stats, rollover, active, behind, astray, lock, mt, sweeps, faults>>
  BY DEF store
<1>2. /\ CatalogTypes /\ StoreTypes
      /\ lock \in Threads \union {None} /\ lease \subseteq Threads
      /\ th \in [Threads -> ThreadRecords] /\ mt \in MaintenanceRecords
      /\ sweeps \in 0 .. MaxSweeps /\ faults \in 0 .. MaxFaults
  BY TypeParts DEF IInv
<1>3. th'[t] = r /\ th' \in [Threads -> ThreadRecords] /\ \A u \in Threads : u # t => th'[u] = th[u]
  BY <1>2
<1> DEFINE i0 == th[t].id
           S0 == th[t].files
<1>4. i0 \in SnapIds /\ i0 < seq /\ rows[i0] = None
  BY DEF IInv, Numbered
<1>5. S0 \in SUBSET Chunks /\ t \in lease /\ \A c \in S0 : index[c] # None
  <2>1. th[t] \in ThreadRecords
    BY <1>2
  <2>2. S0 \in SUBSET Chunks
    BY <2>1 DEF ThreadRecords
  <2>3. th[t].todo = {} /\ t \in lease /\ \A c \in th[t].files \ th[t].todo : index[c] # None
    BY DEF IInv, Recorder, Recording
  <2> QED
    BY <2>2, <2>3
<1>6. /\ \A u \in Threads : u # t /\ th[u].pc = "row" => th[u].id # i0
      /\ \A u \in Threads : th[u].pc \in Verifying \union {"report"} => th[u].id # i0
  BY DEF IInv, Numbered
<1> HIDE DEF i0, S0
<1>7. rows' \in [SnapIds -> (SUBSET Chunks) \union {None}] /\ rows'[i0] = S0
      /\ \A i \in SnapIds : i # i0 => rows'[i] = rows[i]
  BY <1>2, <1>4, <1>5 DEF CatalogTypes, i0, S0
<1>8. TypeOK'
  <2>1. CatalogTypes' /\ StoreTypes'
    BY <1>1, <1>2, <1>7, SameSets DEF CatalogTypes, StoreTypes
  <2>2. lease' \subseteq Threads
    BY <1>2
  <2> QED
    BY <1>1, <1>2, <1>3, <2>1, <2>2, TypeParts1
<1>9. Located' /\ Heads'
  BY <1>1 DEF IInv, Located, Heads
<1>10. Present'
  BY <1>1, <1>5, <1>7 DEF IInv, Present
<1>11. Doomed'
  BY <1>1 DEF IInv, Doomed, InPack, Last, Appended, Aligned
<1>12. Leases'
  <2>1. ~Excluded'
    BY <1>1, <1>5 DEF IInv, Leases, Excluded
  <2>2. \A u \in Threads : th'[u].pc \in Verifying => u \in lease'
    BY <1>3 DEF IInv, Leases, Verifying
  <2> QED
    BY <2>1, <2>2 DEF Leases
<1>13. Numbered'
  <2>1. \A i \in SnapIds : rows'[i] # None => i < seq'
    BY <1>1, <1>4, <1>7 DEF IInv, Numbered
  <2>2. \A u \in Threads : th'[u].pc = "row" =>
          /\ u # t /\ th'[u] = th[u]
          /\ th'[u].id \in SnapIds /\ th'[u].id < seq' /\ rows'[th'[u].id] = None
    BY <1>1, <1>3, <1>6, <1>7 DEF IInv, Numbered
  <2>3. \A u, v \in Threads : th'[u].pc = "row" /\ th'[v].pc = "row" /\ u # v => th'[u].id # th'[v].id
    BY <2>2 DEF IInv, Numbered
  <2>4. \A u \in Threads : th'[u].pc \in Verifying \union {"report"} => u # t /\ th'[u] = th[u]
    BY <1>3 DEF Verifying
  <2>5. \A u \in Threads : th'[u].pc \in Verifying \union {"report"} =>
          /\ th'[u].id \in SnapIds /\ th'[u].id < seq'
          /\ \A v \in Threads : th'[v].pc = "row" => th'[v].id # th'[u].id
    BY <1>1, <2>2, <2>4 DEF IInv, Numbered
  <2> QED
    BY <2>1, <2>2, <2>3, <2>5 DEF Numbered
<1>14. Recorder(t)' /\ Mutex(t)' /\ Verifier(t)'
  <2>1. Recorder(t)'
    BY <1>1, <1>3, <1>5 DEF Recorder, Recording
  <2>2. lock # t
    BY DEF IInv, Mutex
  <2>3. Mutex(t)'
    BY <1>1, <2>2 DEF Mutex
  <2>4. Verifier(t)'
    BY <1>3 DEF Verifier, Verifying
  <2> QED
    BY <2>1, <2>3, <2>4
<1>15. ASSUME NEW u \in Threads, u # t
       PROVE  Recorder(u)' /\ Mutex(u)' /\ Verifier(u)'
  <2>1. th'[u] = th[u] /\ Recorder(u) /\ Mutex(u) /\ Verifier(u) /\ (u \in lease => u \in lease')
    BY <1>3, <1>15 DEF IInv
  <2>2. Recorder(u)' /\ Mutex(u)'
    BY <1>1, <2>1 DEF Recorder, Mutex, Last, Appended, Aligned
  <2>3. \A c : Damaged(c)' <=> Damaged(c)
    BY <1>1 DEF Damaged, Readable, Unit, Last
  <2>4. th[u].pc \in Verifying \union {"report"} => rows'[th[u].id] = rows[th[u].id]
    BY <1>6, <1>7 DEF IInv, Numbered
  <2>5. Verifier(u)'
    BY <1>1, <2>1, <2>3, <2>4 DEF Verifier
  <2> QED
    BY <2>2, <2>5
<1> QED
  BY <1>8, <1>9, <1>10, <1>11, <1>12, <1>13, <1>14, <1>15 DEF IInv

LEMMA CommitRowIInv ==
  ASSUME IInv, NEW t \in Threads, CommitRow(t)
  PROVE  IInv'
<1>1. IdleThread \in ThreadRecords /\ IdleThread.pc = "idle"
  BY IdleIs
<1> QED
  BY <1>1, RowStep DEF CommitRow, Set

LEMMA ReplicateRowIInv ==
  ASSUME IInv, NEW t \in Threads, NEW S \in Inputs, ReplicateRow(t, S)
  PROVE  IInv'
<1> DEFINE r == [IdleThread EXCEPT !.pc = "put", !.files = S, !.todo = S]
<1>1. S \in SUBSET Chunks
  BY DEF Inputs
<1>2. r \in ThreadRecords /\ r.pc = "put" /\ r.files = S /\ r.todo = S
  BY <1>1, IdleIs DEF ThreadRecords
<1> HIDE DEF r
<1>3. th' = [th EXCEPT ![t] = r]
  BY DEF ReplicateRow, Set, r
<1> QED
  BY <1>2, <1>3, RowStep DEF ReplicateRow

-----------------------------------------------------------------------------
(* Removing snapshots.                                                     *)

\* Snapshots go, and a thread may be done with its report.
LEMMA RemoveStep ==
  ASSUME IInv, NEW ids \in SUBSET SnapIds,
         rows' = [i \in SnapIds |-> IF i \in ids THEN None ELSE rows[i]],
         th' \in [Threads -> ThreadRecords],
         \A t \in Threads : th'[t] = th[t] \/ (th'[t] = IdleThread /\ th[t].pc = "report"),
         mt.pc = "idle", mt' \in MaintenanceRecords, mt'.pc \in {"idle", "gc"},
         UNCHANGED <<seq, store, lock, lease, sweeps, faults>>
  PROVE  IInv'
<1>1. UNCHANGED <<seq, index, packs, stats, rollover, active, behind, astray, lock, lease, sweeps, faults>>
  BY DEF store
<1>2. /\ CatalogTypes /\ StoreTypes
      /\ lock \in Threads \union {None} /\ lease \subseteq Threads
      /\ th \in [Threads -> ThreadRecords]
      /\ sweeps \in 0 .. MaxSweeps /\ faults \in 0 .. MaxFaults
  BY TypeParts DEF IInv
<1>3. /\ rows' \in [SnapIds -> (SUBSET Chunks) \union {None}]
      /\ \A i \in SnapIds : rows'[i] = None \/ rows'[i] = rows[i]
  BY <1>2 DEF CatalogTypes
<1>4. \A t \in Threads : th'[t].pc # "idle" => th'[t] = th[t]
  BY IdleIs
<1>5. TypeOK'
  <2>1. CatalogTypes' /\ StoreTypes'
    BY <1>1, <1>2, <1>3, SameSets DEF CatalogTypes, StoreTypes
  <2> QED
    BY <1>1, <1>2, <2>1, TypeParts1
<1>6. Located' /\ Heads'
  BY <1>1 DEF IInv, Located, Heads
<1>7. Present'
  BY <1>1, <1>3 DEF IInv, Present
<1>8. Doomed'
  BY DEF Doomed
<1>9. Leases'
  <2>1. \A u \in Threads : th'[u].pc \in Verifying => u \in lease'
    BY <1>1, <1>4 DEF IInv, Leases, Verifying
  <2> QED
    BY <2>1 DEF Leases, Excluded
<1>10. Numbered'
  <2>1. \A i \in SnapIds : rows'[i] # None => i < seq'
    BY <1>1, <1>3 DEF IInv, Numbered
  <2>2. \A u \in Threads : th'[u].pc = "row" =>
          /\ th'[u] = th[u]
          /\ th'[u].id \in SnapIds /\ th'[u].id < seq' /\ rows'[th'[u].id] = None
    BY <1>1, <1>3, <1>4 DEF IInv, Numbered
  <2>3. \A u, v \in Threads : th'[u].pc = "row" /\ th'[v].pc = "row" /\ u # v => th'[u].id # th'[v].id
    BY <2>2 DEF IInv, Numbered
  <2>4. \A u \in Threads : th'[u].pc \in Verifying \union {"report"} => th'[u] = th[u]
    BY <1>4 DEF Verifying
  <2>5. \A u \in Threads : th'[u].pc \in Verifying \union {"report"} =>
          /\ th'[u].id \in SnapIds /\ th'[u].id < seq'
          /\ \A v \in Threads : th'[v].pc = "row" => th'[v].id # th'[u].id
    BY <1>1, <2>2, <2>4 DEF IInv, Numbered
  <2> QED
    BY <2>1, <2>2, <2>3, <2>5 DEF Numbered
<1>11. ASSUME NEW u \in Threads
       PROVE  Recorder(u)' /\ Mutex(u)' /\ Verifier(u)'
  <2>1. CASE th'[u] = th[u]
    <3>1. Recorder(u) /\ Mutex(u) /\ Verifier(u)
      BY DEF IInv
    <3>2. Recorder(u)' /\ Mutex(u)'
      BY <1>1, <2>1, <3>1 DEF Recorder, Mutex, Last, Appended, Aligned
    <3>3. \A c : Damaged(c) => Damaged(c)'
      BY <1>1 DEF Damaged, Readable, Unit, Last
    <3>4. th[u].pc \in Verifying \union {"report"} =>
             rows'[th[u].id] = None \/ rows'[th[u].id] = rows[th[u].id]
      BY <1>3 DEF IInv, Numbered
    <3>5. Verifier(u)'
      BY <1>1, <2>1, <3>1, <3>3, <3>4 DEF Verifier
    <3> QED
      BY <3>2, <3>5
  <2>2. CASE th'[u] = IdleThread /\ th[u].pc = "report"
    <3>1. lock # u
      BY <2>2 DEF IInv, Mutex
    <3> QED
      BY <1>1, <2>2, <3>1, IdleIs DEF Recorder, Mutex, Verifier, Recording, Verifying
  <2> QED
    BY <2>1, <2>2
<1> QED
  BY <1>5, <1>6, <1>7, <1>8, <1>9, <1>10, <1>11 DEF IInv

LEMMA RemoveSnapshotsIInv ==
  ASSUME IInv, NEW ids \in SUBSET SnapIds, RemoveSnapshots(ids)
  PROVE  IInv'
<1>1. PICK next \in {"idle", "gc"} : mt' = [IdleMaintenance EXCEPT !.pc = next]
  BY DEF RemoveSnapshots
<1>2. mt' \in MaintenanceRecords /\ mt'.pc \in {"idle", "gc"}
  BY <1>1, IdleIs DEF MaintenanceRecords
<1>3. th \in [Threads -> ThreadRecords]
  BY TypeParts DEF IInv
<1> QED
  BY <1>2, <1>3, RemoveStep DEF RemoveSnapshots

LEMMA RepairIInv ==
  ASSUME IInv, NEW t \in Threads, Repair(t)
  PROVE  IInv'
<1>1. mt' \in MaintenanceRecords /\ mt'.pc \in {"idle", "gc"}
  BY IdleIs DEF Repair, MaintenanceRecords
<1>2. th \in [Threads -> ThreadRecords] /\ CatalogTypes
  BY TypeParts DEF IInv
<1>3. /\ th[t].pc = "report" /\ th' = [th EXCEPT ![t] = IdleThread]
      /\ rows' = [rows EXCEPT ![th[t].id] = None] /\ mt.pc = "idle"
      /\ UNCHANGED <<seq, store, lock, lease, sweeps, faults>>
  BY DEF Repair, Set
<1>4. {th[t].id} \in SUBSET SnapIds
  BY <1>3 DEF IInv, Numbered
<1>5. rows' = [i \in SnapIds |-> IF i \in {th[t].id} THEN None ELSE rows[i]]
  BY <1>2, <1>3, <1>4 DEF CatalogTypes
<1>6. th' \in [Threads -> ThreadRecords]
  BY <1>2, <1>3, IdleIs
<1>7. \A u \in Threads : th'[u] = th[u] \/ (th'[u] = IdleThread /\ th[u].pc = "report")
  BY <1>2, <1>3
<1> QED
  BY <1>1, <1>3, <1>4, <1>5, <1>6, <1>7, RemoveStep

-----------------------------------------------------------------------------
(* Verification.                                                           *)

\* A verifying thread goes on; it keeps its lease, or drops it with its report.
LEMMA VerifyOn ==
  ASSUME IInv, NEW t \in Threads, NEW r \in ThreadRecords, th' = [th EXCEPT ![t] = r],
         UNCHANGED <<disk, active, lock, mt, sweeps>>, faults' \in 0 .. MaxFaults, lock # t,
         r.pc \in Verifying \union {"report", "idle"},
         \/ r.pc \in Verifying /\ lease' = lease \union {t} /\ ~Excluded
         \/ r.pc \in {"report", "idle"} /\ lease' = lease \ {t},
         r.pc # "idle" => /\ r.id \in SnapIds /\ r.id < seq
                          /\ \A u \in Threads : th[u].pc = "row" => th[u].id # r.id,
         Verifier(t)'
  PROVE  IInv'
<1>1. /\ th \in [Threads -> ThreadRecords] /\ lease \subseteq Threads
  BY TypeParts DEF IInv
<1>2. th'[t] = r /\ lock' = lock
  BY <1>1
<1>3. Recorder(t)' /\ Mutex(t)'
  BY <1>2 DEF Recorder, Mutex, Recording, Verifying
<1>4. /\ lease' \subseteq Threads /\ \A u \in Threads \ {t} : u \in lease' <=> u \in lease
      /\ Excluded => t \notin lease'
      /\ r.pc \in Verifying => t \in lease'
  BY <1>1 DEF Verifying
<1>5. r.pc # "row" /\ (r.pc \in Verifying \union {"report"} => r.pc # "idle")
  BY DEF Verifying
<1> QED
  BY <1>1, <1>2, <1>3, <1>4, <1>5, ThreadStep

LEMMA VerifyIInv ==
  ASSUME IInv, NEW t \in Threads, NEW i \in SnapIds, Verify(t, i)
  PROVE  IInv'
<1> DEFINE r == [IdleThread EXCEPT !.pc = "locate", !.id = i, !.todo = rows[i]]
<1>1. /\ th' = [th EXCEPT ![t] = r] /\ th[t].pc = "idle" /\ ~Excluded /\ lease' = lease \union {t}
      /\ rows[i] # None /\ UNCHANGED <<disk, active, lock, mt, sweeps, faults>>
  BY DEF Verify, Set
<1>2. rows[i] \in SUBSET Chunks /\ th \in [Threads -> ThreadRecords] /\ faults \in 0 .. MaxFaults
  BY <1>1, TypeParts DEF IInv, CatalogTypes
<1>3. r \in ThreadRecords /\ r.pc = "locate" /\ r.id = i /\ r.todo = rows[i] /\ r.bad = FALSE
  BY <1>2, IdleIs DEF ThreadRecords
<1> HIDE DEF r
<1>4. lock # t
  BY <1>1 DEF IInv, Mutex
<1>5. r.id \in SnapIds /\ r.id < seq /\ \A u \in Threads : th[u].pc = "row" => th[u].id # r.id
  BY <1>1, <1>3 DEF IInv, Numbered
<1>6. th'[t] = r /\ UNCHANGED rows
  BY <1>1, <1>2 DEF disk
<1>7. Verifier(t)'
  BY <1>3, <1>6 DEF Verifier
<1>8. r.pc \in Verifying
  BY <1>3 DEF Verifying
<1> QED
  BY <1>1, <1>2, <1>3, <1>4, <1>5, <1>7, <1>8, VerifyOn

\* What a verifying thread has.
LEMMA VerifyingHas ==
  ASSUME IInv, NEW t \in Threads, th[t].pc \in Verifying
  PROVE  /\ th[t] \in ThreadRecords /\ lock # t /\ t \in lease /\ ~Excluded
         /\ lease \union {t} = lease /\ faults \in 0 .. MaxFaults
         /\ th[t].id \in SnapIds /\ th[t].id < seq
         /\ \A u \in Threads : th[u].pc = "row" => th[u].id # th[t].id
<1>1. th[t] \in ThreadRecords /\ faults \in 0 .. MaxFaults
  BY TypeParts DEF IInv
<1>2. lock # t
  BY DEF IInv, Mutex, Verifying
<1>3. t \in lease /\ ~Excluded
  BY DEF IInv, Leases
<1>4. /\ th[t].id \in SnapIds /\ th[t].id < seq
      /\ \A u \in Threads : th[u].pc = "row" => th[u].id # th[t].id
  BY DEF IInv, Numbered
<1> QED
  BY <1>1, <1>2, <1>3, <1>4

LEMMA VerifyLocateIInv ==
  ASSUME IInv, NEW t \in Threads, VerifyLocate(t)
  PROVE  IInv'
<1>1. PICK c \in th[t].todo :
         Set(t, [th[t] EXCEPT !.pc = "read", !.todo = @ \ {c}, !.chunk = c, !.loc = index[c]])
  BY DEF VerifyLocate
<1> DEFINE r == [th[t] EXCEPT !.pc = "read", !.todo = @ \ {c}, !.chunk = c, !.loc = index[c]]
<1>2. /\ th' = [th EXCEPT ![t] = r] /\ th[t].pc = "locate" /\ th[t].pc \in Verifying
      /\ UNCHANGED <<disk, active, lock, lease, mt, sweeps, faults>>
  BY <1>1 DEF VerifyLocate, Set, Verifying
<1>3. /\ th[t] \in ThreadRecords /\ lock # t /\ ~Excluded /\ lease \union {t} = lease
      /\ faults \in 0 .. MaxFaults
      /\ th[t].id \in SnapIds /\ th[t].id < seq
      /\ \A u \in Threads : th[u].pc = "row" => th[u].id # th[t].id
  BY <1>2, VerifyingHas
<1>4. c \in Chunks /\ th[t].todo \subseteq Chunks
  BY <1>3 DEF ThreadRecords
<1>5. index[c] \in Locators \union {None}
  BY <1>4, TypeParts DEF IInv, StoreTypes
<1>6. /\ r \in ThreadRecords /\ r.pc = "read" /\ r.id = th[t].id /\ r.todo = th[t].todo \ {c}
      /\ r.chunk = c /\ r.loc = index[c] /\ r.bad = th[t].bad /\ r.unread = th[t].unread
  BY <1>3, <1>4, <1>5 DEF ThreadRecords
<1> HIDE DEF r
<1>7. th'[t] = r /\ UNCHANGED <<rows, index, packs, active, mt>>
  BY <1>2, TypeParts DEF IInv, disk
<1>8. \A d : Damaged(d)' <=> Damaged(d)
  BY <1>7 DEF Damaged, Readable, Unit, Last
<1>9. Verifier(t)
  BY DEF IInv
<1>10. Verifier(t)'
  BY <1>1, <1>2, <1>6, <1>7, <1>8, <1>9 DEF Verifier, Verifying
<1>11. r.pc \in Verifying
  BY <1>6 DEF Verifying
<1> QED
  BY <1>2, <1>3, <1>6, <1>10, <1>11, VerifyOn

LEMMA VerifyReadIInv ==
  ASSUME IInv, NEW t \in Threads, VerifyRead(t)
  PROVE  IInv'
<1> DEFINE u == Unit(th[t].loc)
           good == u # None /\ u.data = th[t].chunk /\ u.sound
           b == th[t].bad \/ ~good
           r == [th[t] EXCEPT !.pc = "locate", !.chunk = None, !.loc = None, !.bad = b]
<1>1. /\ th' = [th EXCEPT ![t] = r] /\ th[t].pc = "read" /\ th[t].pc \in Verifying
      /\ UNCHANGED <<disk, active, lock, lease, mt, sweeps, faults>>
  BY DEF VerifyRead, Set, Verifying
<1>2. /\ th[t] \in ThreadRecords /\ lock # t /\ ~Excluded /\ lease \union {t} = lease
      /\ faults \in 0 .. MaxFaults
      /\ th[t].id \in SnapIds /\ th[t].id < seq
      /\ \A v \in Threads : th[v].pc = "row" => th[v].id # th[t].id
  BY <1>1, VerifyingHas
<1>3. b \in BOOLEAN /\ (b => th[t].bad \/ ~good)
  OBVIOUS
<1> HIDE DEF b
<1>4. /\ r \in ThreadRecords /\ r.pc = "locate" /\ r.id = th[t].id /\ r.todo = th[t].todo /\ r.bad = b
      /\ r.unread = th[t].unread
  BY <1>2, <1>3 DEF ThreadRecords
<1> HIDE DEF r
<1>5. th'[t] = r /\ UNCHANGED <<rows, index, packs, active, mt>>
  BY <1>1, TypeParts DEF IInv, disk
<1>6. \A d : Damaged(d)' <=> Damaged(d)
  BY <1>5 DEF Damaged, Readable, Unit, Last
<1>7. Verifier(t)
  BY DEF IInv
<1>8. ASSUME rows[th[t].id] # None PROVE Verifier(t)'
  <2>1. /\ th[t].todo \subseteq rows[th[t].id]
        /\ th[t].chunk \in rows[th[t].id] /\ th[t].loc = index[th[t].chunk]
        /\ th[t].bad => th[t].unread \/ \E c \in rows[th[t].id] : Damaged(c)
    BY <1>1, <1>7, <1>8 DEF Verifier
  <2>2. ASSUME ~good PROVE Damaged(th[t].chunk)
    BY <1>2, <2>1, <2>2 DEF Damaged, Readable, Excluded
  <2>3. b => th[t].unread \/ \E c \in rows[th[t].id] : Damaged(c)
    BY <1>3, <2>1, <2>2
  <2> HIDE DEF good
  <2> QED
    BY <1>4, <1>5, <1>6, <2>1, <2>3 DEF Verifier
<1>9. ASSUME rows[th[t].id] = None PROVE Verifier(t)'
  BY <1>4, <1>5, <1>9 DEF Verifier
<1>10. r.pc \in Verifying
  BY <1>4 DEF Verifying
<1>11. Verifier(t)'
  BY <1>8, <1>9
<1> QED
  BY <1>1, <1>2, <1>4, <1>10, <1>11, VerifyOn

LEMMA VerifyReadFailsIInv ==
  ASSUME IInv, NEW t \in Threads, VerifyReadFails(t)
  PROVE  IInv'
<1> DEFINE r == [th[t] EXCEPT !.pc = "locate", !.chunk = None, !.loc = None, !.bad = TRUE,
                              !.unread = TRUE]
<1>1. /\ th' = [th EXCEPT ![t] = r] /\ th[t].pc = "read" /\ th[t].pc \in Verifying
      /\ faults < MaxFaults /\ faults' = faults + 1
      /\ UNCHANGED <<disk, active, lock, lease, mt, sweeps>>
  BY DEF VerifyReadFails, Set, Verifying, Fault
<1>2. /\ th[t] \in ThreadRecords /\ lock # t /\ ~Excluded /\ lease \union {t} = lease
      /\ faults \in 0 .. MaxFaults
      /\ th[t].id \in SnapIds /\ th[t].id < seq
      /\ \A v \in Threads : th[v].pc = "row" => th[v].id # th[t].id
  BY <1>1, VerifyingHas
<1>3. faults' \in 0 .. MaxFaults
  BY <1>1, <1>2, BoundsAssumption
<1>4. /\ r \in ThreadRecords /\ r.pc = "locate" /\ r.id = th[t].id /\ r.todo = th[t].todo
      /\ r.unread
  BY <1>2 DEF ThreadRecords
<1> HIDE DEF r
<1>5. th'[t] = r /\ UNCHANGED rows
  BY <1>1, TypeParts DEF IInv, disk
<1>6. Verifier(t)
  BY DEF IInv
<1>7. Verifier(t)'
  BY <1>1, <1>4, <1>5, <1>6 DEF Verifier
<1>8. r.pc \in Verifying
  BY <1>4 DEF Verifying
<1> QED
  BY <1>1, <1>2, <1>3, <1>4, <1>7, <1>8, VerifyOn

LEMMA VerifyEndsIInv ==
  ASSUME IInv, NEW t \in Threads, VerifyEnds(t)
  PROVE  IInv'
<1>1. /\ th[t].pc = "locate" /\ th[t].pc \in Verifying /\ lease' = lease \ {t}
      /\ UNCHANGED <<disk, active, lock, mt, sweeps, faults>>
  BY DEF VerifyEnds, Verifying
<1>2. /\ th[t] \in ThreadRecords /\ lock # t /\ faults \in 0 .. MaxFaults
      /\ th[t].id \in SnapIds /\ th[t].id < seq
      /\ \A v \in Threads : th[v].pc = "row" => th[v].id # th[t].id
  BY <1>1, VerifyingHas
<1>3. UNCHANGED <<rows, index, packs, active, mt>> /\ th \in [Threads -> ThreadRecords]
  BY <1>1, TypeParts DEF IInv, disk
<1>4. \A d : Damaged(d)' <=> Damaged(d)
  BY <1>3 DEF Damaged, Readable, Unit, Last
<1>5. CASE th[t].bad
  <2> DEFINE r == [IdleThread EXCEPT !.pc = "report", !.id = th[t].id, !.unread = th[t].unread]
  <2>1. r \in ThreadRecords /\ r.pc = "report" /\ r.id = th[t].id /\ r.unread = th[t].unread
    BY <1>2, IdleIs DEF ThreadRecords
  <2>2. th' = [th EXCEPT ![t] = r]
    BY <1>5 DEF VerifyEnds, Set
  <2> HIDE DEF r
  <2>3. th'[t] = r
    BY <1>3, <2>2
  <2>4. rows[th[t].id] # None => th[t].unread \/ \E c \in rows[th[t].id] : Damaged(c)
    BY <1>1, <1>5 DEF IInv, Verifier
  <2>5. Verifier(t)'
    BY <1>3, <1>4, <2>1, <2>3, <2>4 DEF Verifier, Verifying
  <2> QED
    BY <1>1, <1>2, <2>1, <2>2, <2>5, VerifyOn
<1>6. CASE ~th[t].bad
  <2>1. th' = [th EXCEPT ![t] = IdleThread]
    BY <1>6 DEF VerifyEnds, Set
  <2>2. th'[t] = IdleThread
    BY <1>3, <2>1
  <2>3. Verifier(t)'
    BY <2>2, IdleIs DEF Verifier, Verifying
  <2> QED
    BY <1>1, <1>2, <2>1, <2>3, IdleIs, VerifyOn
<1> QED
  BY <1>5, <1>6

-----------------------------------------------------------------------------
(* Maintenance.                                                            *)

\* A step that only moves maintenance on.
LEMMA MaintenanceMoves ==
  ASSUME IInv, UNCHANGED <<rows, seq, store, lock, lease, th, sweeps, faults>>,
         mt.pc \in {"unlink", "roll", "pick", "move", "repoint"},
         mt' \in MaintenanceRecords, mt'.pc # "repoint", Doomed'
  PROVE  IInv'
<1>1. UNCHANGED <<index, packs, stats, rollover, active, behind, astray>> /\ lease = {}
  BY DEF IInv, Leases, Excluded, store
<1>2. StoreOK /\ sweeps \in 0 .. MaxSweeps /\ faults \in 0 .. MaxFaults
  BY TypeParts DEF IInv, StoreOK
<1>3. StoreOK'
  BY <1>1, <1>2, SameSets DEF StoreOK, StoreTypes, Located, Heads
<1>4. Present'
  BY <1>1 DEF IInv, Present
<1>5. \A c : Damaged(c) => Damaged(c)'
  BY <1>1 DEF Damaged, Readable, Unit
<1> QED
  BY <1>1, <1>2, <1>3, <1>4, <1>5, MaintenanceStepIInv

LEMMA MaintenanceEndsIInv ==
  ASSUME IInv, MaintenanceEnds
  PROVE  IInv'
<1>1. /\ mt' = IdleMaintenance /\ mt.pc \notin {"idle", "gc"}
      /\ UNCHANGED <<rows, seq, store, lock, lease, th, sweeps, faults>>
  BY DEF MaintenanceEnds, disk, store
<1>2. mt \in MaintenanceRecords
  BY TypeParts DEF IInv
<1>3. mt.pc \in {"unlink", "roll", "pick", "move", "repoint"}
  BY <1>1, <1>2 DEF MaintenanceRecords
<1>4. Doomed'
  BY <1>1, IdleIs DEF Doomed
<1> QED
  BY <1>1, <1>3, <1>4, IdleIs, MaintenanceMoves

LEMMA GcDoneIInv ==
  ASSUME IInv, GcDone
  PROVE  IInv'
<1>1. /\ mt.pc = "unlink" /\ UNCHANGED <<rows, seq, store, lock, lease, th, sweeps, faults>>
  BY DEF GcDone, disk, store
<1>2. PICK next \in {"idle", "roll"} : mt' = [IdleMaintenance EXCEPT !.pc = next]
  BY DEF GcDone
<1>3. mt' \in MaintenanceRecords /\ mt'.pc \in {"idle", "roll"}
  BY <1>2, IdleIs DEF MaintenanceRecords
<1>4. Doomed'
  BY <1>3 DEF Doomed
<1> QED
  BY <1>1, <1>3, <1>4, MaintenanceMoves

LEMMA CompactPickIInv ==
  ASSUME IInv, NEW p \in PackIds, CompactPick(p)
  PROVE  IInv'
<1>1. /\ mt.pc = "pick" /\ p \in mt.dead /\ mt' = [mt EXCEPT !.pc = "move", !.from = p]
      /\ UNCHANGED <<rows, seq, index, packs, stats, rollover, active, behind, astray, lock, lease, th, sweeps, faults>>
      /\ UNCHANGED store
  BY DEF CompactPick, disk, store
<1>2. mt \in MaintenanceRecords
  BY TypeParts DEF IInv
<1>3. mt' \in MaintenanceRecords /\ mt'.pc = "move" /\ mt'.from = p /\ mt'.dead = mt.dead
  BY <1>1, <1>2 DEF MaintenanceRecords
<1>4. Doomed'
  BY <1>1, <1>3 DEF IInv, Doomed, Aligned
<1> QED
  BY <1>1, <1>3, <1>4, MaintenanceMoves

\* gc_locked: the chunks of every snapshot are reachable, and stay.
LEMMA GcSweepIInv ==
  ASSUME IInv, GcSweep
  PROVE  IInv'
<1> DEFINE D == {p \in PackIds \ {active.id} : InPack(p) # {} /\ InPack(p) \intersect Reachable = {}}
<1>1. /\ lease = {} /\ sweeps < MaxSweeps /\ sweeps' = sweeps + 1 /\ mt.pc \in {"idle", "gc"}
      /\ index' = [c \in Chunks |-> IF c \in Reachable THEN index[c] ELSE None]
      /\ mt' = [IdleMaintenance EXCEPT !.pc = "unlink", !.dead = D]
      /\ UNCHANGED <<rows, seq, packs, stats, rollover, active, behind, astray, lock, lease, th, faults>>
  BY DEF GcSweep
<1>2. StoreOK /\ sweeps \in 0 .. MaxSweeps /\ faults \in 0 .. MaxFaults /\ CatalogTypes
  BY TypeParts DEF IInv, StoreOK
<1>3. sweeps' \in 0 .. MaxSweeps /\ faults' \in 0 .. MaxFaults
  BY <1>1, <1>2, BoundsAssumption
<1>4. D \in SUBSET PackIds
  OBVIOUS
<1>5. \A p \in D : /\ p \in PackIds /\ p # active.id
                   /\ \A c \in InPack(p) : c \notin Reachable
                   /\ \E c \in Chunks : index[c] # None /\ index[c].pack = p
  BY DEF InPack
<1> HIDE DEF D
<1>6. mt' \in MaintenanceRecords /\ mt'.pc = "unlink" /\ mt'.dead = D
  BY <1>1, <1>4, IdleIs DEF MaintenanceRecords
<1>7. /\ StoreOK'
      /\ \A c \in Chunks : c \in Reachable => index'[c] = index[c] /\ Unit(index[c])' = Unit(index[c])
      /\ \A c \in Chunks : c \notin Reachable => index'[c] = None
  BY <1>1, <1>2, SweepStore
<1>8. \A i \in SnapIds : rows[i] # None => rows[i] \subseteq Reachable /\ rows[i] \subseteq Chunks
  BY <1>2 DEF Reachable, CatalogTypes
<1>9. Present'
  BY <1>1, <1>7, <1>8 DEF IInv, Present
<1>10. Doomed'
  <2>1. \A p \in D : packs'[p] # None /\ p # active'.id
    BY <1>1, <1>2, <1>5 DEF StoreOK, Located, Sits
  <2>2. \A p \in D : InPack(p)' = {}
    BY <1>5, <1>7 DEF InPack
  <2> QED
    BY <1>6, <2>1, <2>2 DEF Doomed
<1>11. \A i \in SnapIds : rows[i] # None => \A c \in rows[i] : Damaged(c) => Damaged(c)'
  BY <1>6, <1>7, <1>8 DEF Damaged, Readable
<1> QED
  BY <1>1, <1>3, <1>6, <1>7, <1>9, <1>10, <1>11, MaintenanceStepIInv

\* A pack without rows is deleted, by the sweep or by compaction.
LEMMA UnlinkIInv ==
  ASSUME IInv, NEW p \in PackIds, Unlink(p), InPack(p) = {}, p \in mt.dead,
         mt.pc \in {"unlink", "move"},
         mt' \in MaintenanceRecords, mt'.dead = mt.dead \ {p}, mt'.pc \in {"unlink", "pick"},
         mt'.pc = "unlink" <=> mt.pc = "unlink",
         UNCHANGED <<rows, seq, index, stats, rollover, active, behind, astray, lock, lease, th, sweeps, faults>>
  PROVE  IInv'
<1>1. /\ StoreOK /\ sweeps \in 0 .. MaxSweeps /\ faults \in 0 .. MaxFaults
      /\ CatalogTypes /\ mt \in MaintenanceRecords
  BY TypeParts DEF IInv, StoreOK
<1>2. lease = {} /\ \A q \in mt.dead : q \in PackIds /\ packs[q] # None /\ q # active.id
  BY <1>1 DEF IInv, Leases, Excluded, Doomed, MaintenanceRecords
<1>3. /\ StoreOK' /\ \A q \in PackIds : q # p => packs'[q] = packs[q]
      /\ \A c \in Chunks : index[c] # None => Unit(index[c])' = Unit(index[c])
  BY <1>1, <1>2, UnlinkStore
<1>4. Present'
  BY DEF IInv, Present
<1>5. Doomed'
  <2>1. \A q \in mt'.dead : packs'[q] # None /\ q # active'.id
    BY <1>2, <1>3
  <2>2. mt'.pc = "unlink" => \A q \in mt'.dead : InPack(q)' = {}
    BY DEF IInv, Doomed, InPack
  <2>3. mt'.pc = "pick" => packs'[active'.id] # None /\ Aligned'
    <3>1. active.id \in PackIds /\ active.id # p
      BY <1>1, <1>2 DEF StoreOK, StoreTypes
    <3>2. packs'[active.id] = packs[active.id]
      BY <1>3, <3>1
    <3> QED
      BY <3>2 DEF IInv, Doomed, Aligned
  <2> QED
    BY <2>1, <2>2, <2>3 DEF Doomed
<1>6. \A i \in SnapIds : rows[i] # None => \A c \in rows[i] : c \in Chunks /\ index[c] # None
  BY <1>1 DEF CatalogTypes, IInv, Present
<1>7. \A i \in SnapIds : rows[i] # None => \A c \in rows[i] : Damaged(c) => Damaged(c)'
  BY <1>3, <1>6 DEF Damaged, Readable
<1> QED
  BY <1>1, <1>2, <1>3, <1>4, <1>5, <1>7, MaintenanceStepIInv

LEMMA GcUnlinkIInv ==
  ASSUME IInv, NEW p \in PackIds, GcUnlink(p)
  PROVE  IInv'
<1>1. /\ mt.pc = "unlink" /\ p \in mt.dead /\ Unlink(p) /\ mt' = [mt EXCEPT !.dead = @ \ {p}]
      /\ UNCHANGED <<rows, seq, index, stats, rollover, active, behind, astray, lock, lease, th, sweeps, faults>>
  BY DEF GcUnlink
<1>2. mt \in MaintenanceRecords
  BY TypeParts DEF IInv
<1>3. mt' \in MaintenanceRecords /\ mt'.dead = mt.dead \ {p} /\ mt'.pc = "unlink"
  BY <1>1, <1>2 DEF MaintenanceRecords
<1>4. InPack(p) = {}
  BY <1>1 DEF IInv, Doomed
<1> QED
  BY <1>1, <1>3, <1>4, UnlinkIInv

LEMMA CompactUnlinkIInv ==
  ASSUME IInv, CompactUnlink
  PROVE  IInv'
<1> DEFINE p == mt.from
<1>1. /\ mt.pc = "move" /\ InPack(p) = {} /\ Unlink(p)
      /\ mt' = [mt EXCEPT !.pc = "pick", !.dead = @ \ {p}, !.from = 0]
      /\ UNCHANGED <<rows, seq, index, stats, rollover, active, behind, astray, lock, lease, th, sweeps, faults>>
  BY DEF CompactUnlink
<1>2. mt \in MaintenanceRecords /\ p \in mt.dead
  BY <1>1, TypeParts DEF IInv, Doomed
<1>3. p \in PackIds
  BY <1>2 DEF MaintenanceRecords
<1>4. mt' \in MaintenanceRecords /\ mt'.dead = mt.dead \ {p} /\ mt'.pc = "pick"
  BY <1>1, <1>2 DEF MaintenanceRecords
<1> HIDE DEF p
<1> QED
  BY <1>1, <1>2, <1>3, <1>4, UnlinkIInv

\* Compaction rolls to a new pack, so that the active one can be a target too.
LEMMA CompactRollIInv ==
  ASSUME IInv, Roll, mt.pc \in {"roll", "move"}, mt' \in MaintenanceRecords,
         \/ mt.pc = "roll" /\ mt'.pc = "pick" /\ \A p \in mt'.dead : packs[p] # None
         \/ mt.pc = "move" /\ mt' = mt,
         UNCHANGED <<rows, seq, lock, lease, th, sweeps, faults>>
  PROVE  IInv'
<1>1. /\ StoreOK /\ sweeps \in 0 .. MaxSweeps /\ faults \in 0 .. MaxFaults
      /\ CatalogTypes /\ mt \in MaintenanceRecords
  BY TypeParts DEF IInv, StoreOK
<1>2. lease = {}
  BY DEF IInv, Leases, Excluded
<1>3. /\ StoreOK' /\ UNCHANGED <<index, rollover>> /\ packs'[active'.id] # None /\ Aligned'
      /\ \A p \in PackIds : packs[p] # None => packs'[p] = packs[p] /\ p # active'.id
      /\ \A c \in Chunks : index[c] # None => Unit(index[c])' = Unit(index[c])
  BY <1>1, RollStore
<1>4. PackIds' = PackIds /\ mt'.dead \subseteq PackIds
  <2>1. PackIds' = PackIds
    BY <1>3, SameSets
  <2>2. mt'.dead \subseteq PackIds
    BY DEF MaintenanceRecords
  <2> QED
    BY <2>1, <2>2
<1>5. Present'
  BY <1>3 DEF IInv, Present
<1>6. Doomed'
  <2>1. \A p \in mt'.dead : packs[p] # None
    BY DEF IInv, Doomed
  <2>2. \A p \in mt'.dead : packs'[p] # None /\ p # active'.id
    BY <1>3, <1>4, <2>1
  <2> QED
    BY <1>3, <2>2 DEF IInv, Doomed
<1>7. \A i \in SnapIds : rows[i] # None => \A c \in rows[i] : c \in Chunks /\ index[c] # None
  BY <1>1 DEF CatalogTypes, IInv, Present
<1>8. \A i \in SnapIds : rows[i] # None => \A c \in rows[i] : Damaged(c) => Damaged(c)'
  BY <1>3, <1>7 DEF Damaged, Readable
<1> QED
  BY <1>1, <1>2, <1>3, <1>5, <1>6, <1>8, MaintenanceStepIInv

LEMMA CompactRollsIInv ==
  ASSUME IInv, CompactRoll \/ CompactMoveRoll
  PROVE  IInv'
<1>1. mt \in MaintenanceRecords
  BY TypeParts DEF IInv
<1>2. CASE CompactRoll
  <2>1. PICK half \in 0 .. 2 : mt' = [mt EXCEPT !.pc = "pick", !.dead = Targets(half)]
    BY <1>2 DEF CompactRoll
  <2>2. Targets(half) \in SUBSET PackIds /\ \A p \in Targets(half) : packs[p] # None
    BY DEF Targets
  <2>3. mt' \in MaintenanceRecords /\ mt'.pc = "pick" /\ mt'.dead = Targets(half)
    BY <1>1, <2>1, <2>2 DEF MaintenanceRecords
  <2> QED
    BY <1>2, <2>2, <2>3, CompactRollIInv DEF CompactRoll
<1>3. CASE CompactMoveRoll
  BY <1>1, <1>3, CompactRollIInv DEF CompactMoveRoll
<1> QED
  BY <1>2, <1>3

\* compact_pack copies the stored bytes, damaged ones too.
LEMMA CompactMoveIInv ==
  ASSUME IInv, NEW c \in Chunks, CompactMove(c)
  PROVE  IInv'
<1> DEFINE u == Unit(index[c])
<1>1. /\ mt.pc = "move" /\ c \in InPack(mt.from) /\ AppendUnit(u)
      /\ mt' = [mt EXCEPT !.pc = "repoint", !.chunk = c]
      /\ UNCHANGED <<rows, seq, lock, lease, th, sweeps, faults>>
  BY DEF CompactMove
<1>2. /\ StoreOK /\ sweeps \in 0 .. MaxSweeps /\ faults \in 0 .. MaxFaults
      /\ CatalogTypes /\ mt \in MaintenanceRecords
  BY TypeParts DEF IInv, StoreOK
<1>3. /\ lease = {} /\ mt.from \in mt.dead /\ Aligned
      /\ \A p \in mt.dead : p \in PackIds /\ packs[p] # None /\ p # active.id
  BY <1>1, <1>2 DEF IInv, Leases, Excluded, Doomed, MaintenanceRecords
<1>4. index[c] # None
  BY <1>1 DEF InPack
<1>5. u \in Units /\ (c \in astray \/ u.data = c) /\ (Readable(c) <=> u.data = c /\ u.sound)
  BY <1>2, <1>4, UnitOfChunk
<1> HIDE DEF u
<1>6. /\ StoreOK' /\ UNCHANGED <<index, rollover, stats, astray>>
      /\ active'.id = active.id /\ Appended' /\ Aligned' /\ Last' = u
      /\ \A p \in PackIds : packs[p] # None => packs'[p] # None
      /\ \A d \in Chunks : index[d] # None => Unit(index[d])' = Unit(index[d])
  BY <1>1, <1>2, <1>3, <1>5, AppendStore
<1>7. /\ mt' \in MaintenanceRecords /\ mt'.pc = "repoint" /\ mt'.chunk = c
      /\ mt'.dead = mt.dead /\ mt'.from = mt.from
  BY <1>1, <1>2 DEF MaintenanceRecords
<1>8. Present'
  BY <1>1, <1>6 DEF IInv, Present
<1>9. Doomed'
  <2>1. \A p \in mt'.dead : packs'[p] # None /\ p # active'.id
    BY <1>3, <1>6, <1>7
  <2> QED
    BY <1>3, <1>5, <1>6, <1>7, <2>1 DEF Doomed, Appended
<1>10. \A i \in SnapIds : rows[i] # None => \A d \in rows[i] : d \in Chunks /\ index[d] # None
  BY <1>2 DEF CatalogTypes, IInv, Present
<1>11. ASSUME NEW d \in Chunks, index[d] # None, Damaged(d) PROVE Damaged(d)'
  <2>1. ~Readable(d)'
    BY <1>6, <1>11 DEF Damaged, Readable
  <2>2. mt'.chunk = d => ~(Last'.sound /\ Last'.data = d)
    BY <1>5, <1>6, <1>7, <1>11 DEF Damaged
  <2> QED
    BY <2>1, <2>2 DEF Damaged
<1>12. \A i \in SnapIds : rows[i] # None => \A d \in rows[i] : Damaged(d) => Damaged(d)'
  BY <1>10, <1>11
<1> QED
  BY <1>1, <1>2, <1>3, <1>6, <1>7, <1>8, <1>9, <1>12, MaintenanceStepIInv

LEMMA CompactRepointIInv ==
  ASSUME IInv, CompactRepoint
  PROVE  IInv'
<1>0. PICK c \in Chunks : c = mt.chunk
  BY DEF CompactRepoint, IInv, Doomed
<1>1. /\ mt.pc = "repoint" /\ Repoint(c) /\ mt' = [mt EXCEPT !.pc = "move", !.chunk = None]
      /\ astray' = IF Aligned THEN astray ELSE astray \union {c}
      /\ UNCHANGED <<rows, seq, lock, lease, th, sweeps, faults>>
  BY <1>0 DEF CompactRepoint
<1>2. /\ StoreOK /\ sweeps \in 0 .. MaxSweeps /\ faults \in 0 .. MaxFaults
      /\ CatalogTypes /\ mt \in MaintenanceRecords
  BY TypeParts DEF IInv, StoreOK
<1>3. /\ lease = {} /\ mt.from \in mt.dead /\ c \in Chunks /\ Appended /\ Aligned
      /\ (c \in astray \/ Last.data = c)
      /\ \A p \in mt.dead : packs[p] # None /\ p # active.id
  BY <1>0, <1>1 DEF IInv, Leases, Excluded, Doomed
<1>4. mt' \in MaintenanceRecords /\ mt'.pc = "move" /\ mt'.dead = mt.dead /\ mt'.from = mt.from
  BY <1>1, <1>2 DEF MaintenanceRecords
<1>5. \A d : Damaged(d) => ~Readable(d) /\ (d = c => ~(Last.sound /\ Last.data = c))
  BY <1>0, <1>1 DEF Damaged
<1>12. UNCHANGED astray /\ astray \subseteq Chunks
  BY <1>1, <1>2, <1>3 DEF StoreOK, StoreTypes
<1>6. /\ StoreOK' /\ UNCHANGED <<packs, stats, rollover, active, behind>>
      /\ index'[c] # None /\ (\A d \in Chunks : d # c => index'[d] = index[d])
      /\ Unit(index[c])' = Last
      /\ \A d \in Chunks : d # c => Unit(index[d])' = Unit(index[d])
  BY <1>1, <1>2, <1>3, <1>12, RepointStore
<1>7. \A i \in SnapIds : rows[i] # None => \A d \in rows[i] : d \in Chunks /\ index[d] # None
  BY <1>2 DEF CatalogTypes, IInv, Present
<1>8. Present'
  BY <1>1, <1>6, <1>7 DEF Present
<1>9. Doomed'
  BY <1>3, <1>4, <1>6 DEF Doomed, Aligned, Appended
<1>10. ASSUME NEW d \in Chunks, Damaged(d) PROVE Damaged(d)'
  <2>1. CASE d = c
    BY <1>4, <1>5, <1>6, <1>10, <2>1 DEF Damaged, Readable
  <2>2. CASE d # c
    BY <1>4, <1>5, <1>6, <1>10, <2>2 DEF Damaged, Readable
  <2> QED
    BY <2>1, <2>2
<1>11. \A i \in SnapIds : rows[i] # None => \A d \in rows[i] : Damaged(d) => Damaged(d)'
  BY <1>7, <1>10
<1> QED
  BY <1>1, <1>2, <1>3, <1>4, <1>6, <1>8, <1>9, <1>11, MaintenanceStepIInv

\* A roll or an append of compaction fails, and ends it.
LEMMA CompactFailsIInv ==
  ASSUME IInv, CompactFails
  PROVE  IInv'
<1>1. /\ mt.pc \in {"roll", "move"} /\ faults < MaxFaults /\ faults' = faults + 1
      /\ (AppendShort \/ RollUncommitted) /\ mt' = IdleMaintenance
      /\ UNCHANGED <<rows, seq, lock, lease, th, sweeps>>
  BY DEF CompactFails, Fault
<1>2. StoreOK /\ sweeps \in 0 .. MaxSweeps /\ faults \in 0 .. MaxFaults /\ CatalogTypes
  BY TypeParts DEF IInv, StoreOK
<1>3. lease = {}
  BY <1>1 DEF IInv, Leases, Excluded
<1>4. faults' \in 0 .. MaxFaults
  BY <1>1, <1>2, BoundsAssumption
<1>5. /\ StoreOK' /\ UNCHANGED <<index, rollover>>
      /\ \A c \in Chunks : index[c] # None => Unit(index[c])' = Unit(index[c])
  BY <1>1, <1>2, RollStore, AppendShortStore
<1>6. Present'
  BY <1>1, <1>5 DEF IInv, Present
<1>7. mt' \in MaintenanceRecords /\ mt'.pc = "idle"
  BY <1>1, IdleIs
<1>8. Doomed'
  BY <1>7 DEF Doomed
<1>9. \A i \in SnapIds : rows[i] # None => \A c \in rows[i] : c \in Chunks /\ index[c] # None
  BY <1>2 DEF CatalogTypes, IInv, Present
<1>10. \A i \in SnapIds : rows[i] # None => \A c \in rows[i] : Damaged(c) => Damaged(c)'
  BY <1>5, <1>7, <1>9 DEF Damaged, Readable
<1> QED
  BY <1>1, <1>2, <1>3, <1>4, <1>5, <1>6, <1>7, <1>8, <1>10, MaintenanceStepIInv

-----------------------------------------------------------------------------
(* The environment, and the specification.                                 *)

LEMMA CrashIInv ==
  ASSUME IInv, Crash
  PROVE  IInv'
<1>1. /\ faults < MaxFaults /\ faults' = faults + 1 /\ lock' = None /\ lease' = {} /\ sweeps' = 0
      /\ th' = [t \in Threads |-> IdleThread] /\ mt' = IdleMaintenance
      /\ UNCHANGED <<rows, seq, index, packs, stats, rollover, astray>>
      /\ active' = [id |-> stats, size |-> IF packs[stats] = None THEN 0 ELSE Len(packs[stats])]
      /\ behind' = IF packs[stats] = None THEN behind ELSE "no"
  BY DEF Crash, Fault
<1>2. CatalogTypes /\ StoreOK /\ faults \in 0 .. MaxFaults
  BY TypeParts DEF IInv, StoreOK
<1>3. /\ stats \in PackIds /\ packs[stats] \in Seq(Units) \union {None}
      /\ behind \in {"yes", "no"} /\ (behind = "no" => packs[stats] # None)
  BY <1>2 DEF StoreOK, StoreTypes, Heads
<1>11. active' \in [id : PackIds, size : Nat] /\ active'.id = stats
  BY <1>1, <1>3
<1>12. StoreTypes'
  BY <1>1, <1>2, <1>3, <1>11, SameSets DEF StoreOK, StoreTypes
<1>13. Heads'
  <2>1. packs[stats] # None => active'.size = Len(packs[stats]) /\ Len(packs[stats]) \in Nat
    BY <1>1, <1>3
  <2>2. behind' = "no" => packs[stats] # None
    BY <1>1, <1>3
  <2> QED
    BY <1>1, <1>11, <2>1, <2>2 DEF Heads
<1>4. CatalogTypes' /\ StoreOK'
  BY <1>1, <1>2, <1>12, <1>13 DEF CatalogTypes, StoreOK, Located
<1>5. th' \in [Threads -> ThreadRecords] /\ \A t \in Threads : th'[t].pc = "idle"
  BY <1>1, IdleIs
<1>6. mt' \in MaintenanceRecords /\ mt'.pc = "idle"
  BY <1>1, IdleIs
<1>7. TypeOK'
  <2>1. faults' \in 0 .. MaxFaults /\ sweeps' \in 0 .. MaxSweeps
    BY <1>1, <1>2, BoundsAssumption
  <2> QED
    BY <1>1, <1>4, <1>5, <1>6, <2>1, TypeParts1 DEF StoreOK
<1>8. Present' /\ Leases' /\ Doomed'
  BY <1>1, <1>5, <1>6 DEF IInv, Present, Leases, Doomed, Excluded, Verifying
<1>9. Numbered'
  BY <1>1, <1>5 DEF IInv, Numbered, Verifying
<1>10. \A t \in Threads : Recorder(t)' /\ Mutex(t)' /\ Verifier(t)'
  BY <1>1, <1>5, ValuesAssumption DEF Recorder, Mutex, Verifier, Recording, Verifying
<1> QED
  BY <1>4, <1>7, <1>8, <1>9, <1>10 DEF IInv, StoreOK

LEMMA RotIInv ==
  ASSUME IInv, NEW c \in Chunks, Rot(c)
  PROVE  IInv'
<1>1. /\ faults < MaxFaults /\ faults' = faults + 1 /\ Readable(c)
      /\ packs' = [packs EXCEPT ![index[c].pack][index[c].offset + 1].sound = FALSE]
      /\ UNCHANGED <<rows, seq, index, stats, rollover, active, behind, astray, lock, lease, th, mt, sweeps>>
  BY DEF Rot, Fault
<1>2. /\ CatalogTypes /\ StoreOK
      /\ lock \in Threads \union {None} /\ lease \subseteq Threads
      /\ th \in [Threads -> ThreadRecords] /\ mt \in MaintenanceRecords
      /\ sweeps \in 0 .. MaxSweeps /\ faults \in 0 .. MaxFaults
  BY TypeParts DEF IInv, StoreOK
<1>3. /\ StoreOK'
      /\ \A p \in PackIds : packs[p] # None => packs'[p] # None /\ Len(packs'[p]) = Len(packs[p])
      /\ \A p \in PackIds : packs[p] # None => \A j \in 1 .. Len(packs[p]) :
            packs'[p][j].data = packs[p][j].data /\ (packs'[p][j].sound => packs[p][j].sound)
      /\ \A d \in Chunks : index[d] # None /\ ~Readable(d) => ~Readable(d)'
  BY <1>1, <1>2, RotStore
<1>4. Appended => /\ Appended' /\ Last'.data = Last.data /\ (Last'.sound => Last.sound)
                  /\ (Aligned' <=> Aligned)
  <2> SUFFICES ASSUME Appended
               PROVE  /\ Appended' /\ Last'.data = Last.data /\ (Last'.sound => Last.sound)
                      /\ (Aligned' <=> Aligned)
    OBVIOUS
  <2> DEFINE a == active.id
             k == active.size
  <2>1. /\ a \in PackIds /\ packs[a] # None /\ k \in Nat /\ k > 0 /\ k =< Len(packs[a])
        /\ Len(packs[a]) \in Nat
    BY <1>2 DEF StoreOK, StoreTypes, Heads, Appended
  <2>2. Last = packs[a][k] /\ Last' = packs'[a][k]
    BY <1>1 DEF Last
  <2>4. Appended' /\ (Aligned' <=> Aligned)
    BY <1>1, <1>3, <2>1 DEF Appended, Aligned
  <2> HIDE DEF a, k
  <2>3. k \in 1 .. Len(packs[a])
    BY <2>1
  <2> QED
    BY <1>3, <2>1, <2>2, <2>3, <2>4
<1>5. TypeOK'
  <2>1. faults' \in 0 .. MaxFaults /\ CatalogTypes'
    BY <1>1, <1>2, BoundsAssumption DEF CatalogTypes
  <2> QED
    BY <1>1, <1>2, <1>3, <2>1, TypeParts1 DEF StoreOK
<1>6. Present' /\ Leases' /\ Numbered'
  BY <1>1 DEF IInv, Present, Leases, Numbered, Excluded
<1>7. Doomed'
  <2>1. mt.dead \subseteq PackIds /\ active.id \in PackIds
    BY <1>2 DEF MaintenanceRecords, StoreOK, StoreTypes
  <2>2. mt.pc \in {"pick", "move", "repoint"} => packs'[active'.id] # None /\ Aligned'
    BY <1>1, <1>3, <2>1 DEF IInv, Doomed, Aligned
  <2> QED
    BY <1>1, <1>3, <1>4, <2>1, <2>2 DEF IInv, Doomed, InPack
<1>8. ASSUME NEW d \in Chunks, index[d] # None, Damaged(d) PROVE Damaged(d)'
  <2>1. ~Readable(d)'
    BY <1>3, <1>8 DEF Damaged
  <2>2. mt'.pc = "repoint" /\ mt'.chunk = d => ~(Last'.sound /\ Last'.data = d)
    BY <1>1, <1>4, <1>8 DEF Damaged, IInv, Doomed
  <2> QED
    BY <2>1, <2>2 DEF Damaged
<1>9. ASSUME NEW t \in Threads PROVE Recorder(t)' /\ Mutex(t)' /\ Verifier(t)'
  <2>1. Recorder(t)' /\ Mutex(t)'
    BY <1>1, <1>4 DEF IInv, Recorder, Mutex
  <2>2. th[t].pc \in Verifying \union {"report"} /\ rows[th[t].id] # None =>
          \A d \in rows[th[t].id] : Damaged(d) => Damaged(d)'
    BY <1>2, <1>8 DEF IInv, Numbered, Present, CatalogTypes
  <2>3. Verifier(t)'
    BY <1>1, <2>2 DEF IInv, Verifier
  <2> QED
    BY <2>1, <2>3
<1> QED
  BY <1>3, <1>5, <1>6, <1>7, <1>9 DEF IInv, StoreOK

LEMMA StutterIInv ==
  ASSUME IInv, UNCHANGED vars
  PROVE  IInv'
<1>1. UNCHANGED <<rows, seq, index, packs, stats, rollover, active, behind, astray, lock, lease, th, mt, sweeps, faults>>
  BY DEF vars
<1>2. PackIds' = PackIds /\ Locators' = Locators
  BY <1>1, SameSets
<1>3. TypeOK'
  BY <1>1, <1>2 DEF IInv, TypeOK
<1>4. Located' /\ Heads' /\ Present' /\ Leases' /\ Doomed' /\ Numbered'
  BY <1>1 DEF IInv, Located, Heads, Present, Leases, Doomed, Numbered, Excluded, InPack, Last,
             Appended, Aligned
<1>5. \A c : Damaged(c)' <=> Damaged(c)
  BY <1>1 DEF Damaged, Readable, Unit, Last
<1>6. \A t \in Threads : Recorder(t)' /\ Mutex(t)' /\ Verifier(t)'
  BY <1>1, <1>5 DEF IInv, Recorder, Mutex, Verifier, Last, Appended, Aligned
<1> QED
  BY <1>3, <1>4, <1>6 DEF IInv

LEMMA InitIInv ==
  ASSUME Init
  PROVE  IInv
<1>1. /\ rollover \in Rollovers /\ rows = [i \in SnapIds |-> None] /\ seq = 1
      /\ index = [d \in Chunks |-> None] /\ packs = [p \in PackIds |-> IF p = 1 THEN <<>> ELSE None]
      /\ stats = 1 /\ active = [id |-> 1, size |-> 0] /\ lock = None /\ lease = {}
      /\ th = [t \in Threads |-> IdleThread] /\ mt = IdleMaintenance /\ sweeps = 0 /\ faults = 0
      /\ behind = "no" /\ astray = {}
  BY DEF Init
<1>2. rollover \in Nat \ {0} /\ 1 \in PackIds /\ <<>> \in Seq(Units) /\ Len(<<>>) = 0
  BY <1>1, StoreSets
<1>3. CatalogTypes
  <2>1. 1 \in 1 .. MaxSnaps + 1
    BY BoundsAssumption
  <2> QED
    BY <1>1, <2>1 DEF CatalogTypes
<1>4. StoreTypes
  BY <1>1, <1>2 DEF StoreTypes
<1>5. packs[1] = <<>> /\ <<>> # None
  BY <1>1, <1>2, ValuesAssumption
<1>6. Located /\ Heads
  <2>1. active.id = 1 /\ active.size = 0
    BY <1>1
  <2> QED
    BY <1>1, <1>2, <1>5, <2>1 DEF Located, Heads
<1>7. th \in [Threads -> ThreadRecords] /\ (\A t \in Threads : th[t].pc = "idle")
  BY <1>1, IdleIs
<1>8. mt \in MaintenanceRecords /\ mt.pc = "idle"
  BY <1>1, IdleIs
<1>9. TypeOK
  <2>1. sweeps \in 0 .. MaxSweeps /\ faults \in 0 .. MaxFaults
    BY <1>1, BoundsAssumption
  <2> QED
    BY <1>1, <1>3, <1>4, <1>7, <1>8, <2>1
    DEF TypeOK, CatalogTypes, StoreTypes, ThreadRecords, MaintenanceRecords
<1>10. Present /\ Leases /\ Doomed /\ Numbered
  BY <1>1, <1>7, <1>8 DEF Present, Leases, Doomed, Numbered, Excluded, Verifying
<1>11. \A t \in Threads : Recorder(t) /\ Mutex(t) /\ Verifier(t)
  BY <1>1, <1>7, ValuesAssumption DEF Recorder, Mutex, Verifier, Recording, Verifying
<1> QED
  BY <1>6, <1>9, <1>10, <1>11 DEF IInv

LEMMA NextIInv ==
  ASSUME IInv, [Next]_vars
  PROVE  IInv'
<1>1. ASSUME NEW t \in Threads, RecordStep(t) PROVE IInv'
  <2>1. CASE \E S \in Inputs : Begin(t, S) \/ ReplicateRow(t, S)
    BY <2>1, BeginIInv, ReplicateRowIInv
  <2>2. CASE PutDedup(t) \/ PutMiss(t)
    BY <2>2, PutDedupIInv
  <2>3. CASE PutLocked(t) \/ PutRoll(t) \/ PutAppend(t) \/ PutCommit(t) \/ PutFails(t)
    BY <2>3, PutLockedIInv, PutRollIInv, PutAppendIInv, PutCommitIInv, PutFailsIInv
  <2>4. CASE Allocate(t) \/ CommitRow(t) \/ Abandon(t)
    BY <2>4, AllocateIInv, CommitRowIInv, AbandonIInv
  <2> QED
    BY <1>1, <2>1, <2>2, <2>3, <2>4 DEF RecordStep
<1>2. ASSUME NEW t \in Threads, VerifyStep(t) PROVE IInv'
  BY <1>2, VerifyIInv, VerifyLocateIInv, VerifyReadIInv, VerifyReadFailsIInv, VerifyEndsIInv,
     RepairIInv DEF VerifyStep
<1>3. CASE MaintenanceStep
  <2>1. CASE GcSweep \/ GcDone \/ CompactRoll \/ CompactMoveRoll \/ CompactRepoint \/ CompactUnlink
    BY <2>1, GcSweepIInv, GcDoneIInv, CompactRollsIInv, CompactRepointIInv, CompactUnlinkIInv
  <2>2. CASE \E p \in PackIds : GcUnlink(p) \/ CompactPick(p)
    BY <2>2, GcUnlinkIInv, CompactPickIInv
  <2>3. CASE MaintenanceEnds \/ \E ids \in SUBSET SnapIds : RemoveSnapshots(ids)
    BY <2>3, MaintenanceEndsIInv, RemoveSnapshotsIInv
  <2>4. CASE CompactFails \/ \E c \in Chunks : CompactMove(c)
    BY <2>4, CompactMoveIInv, CompactFailsIInv
  <2> QED
    BY <1>3, <2>1, <2>2, <2>3, <2>4 DEF MaintenanceStep
<1>4. CASE Rest \/ UNCHANGED vars
  BY <1>4, StutterIInv DEF Rest
<1> QED
  BY <1>1, <1>2, <1>3, <1>4, CrashIInv, RotIInv DEF Next

LEMMA Inductive == Spec => []IInv
BY InitIInv, NextIInv, PTL DEF Spec

\* Every variable keeps its type.
THEOREM TypeCorrect == Spec => []TypeOK
<1>1. IInv => TypeOK
  BY DEF IInv
<1> QED
  BY <1>1, Inductive, PTL

\* put_chunk's second look at the index, under the mutex, does what its comment
\* says: whatever other puts interleave, a chunk is never appended by a put while
\* the index already has it.
THEOREM ChunksAreStoredOnce == Spec => []NoDoubleStore
<1>1. IInv => NoDoubleStore
  BY DEF IInv, NoDoubleStore, Recorder, Recording, Mutex
<1> QED
  BY <1>1, Inductive, PTL

\* Neither gc nor compaction deletes the pack that puts append to, and the one
\* STATS names, which a restart opens, is there, however kills, short appends and
\* failed rolls interleave: only a roll whose own commit failed may leave STATS
\* behind, and the next roll, or a restart that finds the file, ends that.
THEOREM ActivePackIsThere == Spec => []ActivePackExists
<1>1. IInv => ActivePackExists
  BY DEF IInv, ActivePackExists, Heads
<1> QED
  BY <1>1, Inductive, PTL

-----------------------------------------------------------------------------
(* Repair.                                                                 *)

\* A report is used up, and a sweep made due, by its repair alone.
LEMMA ReportIsUsed ==
  ASSUME IInv, [Next]_vars, NEW t \in Threads,
         th[t].pc = "report", th'[t].pc = "idle", mt.pc = "idle", mt'.pc = "gc"
  PROVE  Repair(t)
<1>1. th \in [Threads -> ThreadRecords]
  BY TypeParts DEF IInv
<1>2. mt' # mt /\ th' # th
  OBVIOUS
<1>3. ~(UNCHANGED vars) /\ ~Rest
  BY <1>2 DEF vars, Rest
<1>4. ~MaintenanceStep
  <2>1. \A ids \in SUBSET SnapIds : ~RemoveSnapshots(ids)
    BY <1>2 DEF RemoveSnapshots
  <2>2. ~GcSweep /\ ~GcDone /\ ~CompactRoll /\ ~CompactMoveRoll /\ ~CompactRepoint /\ ~CompactUnlink
    BY <1>2 DEF GcSweep, GcDone, CompactRoll, CompactMoveRoll, CompactRepoint, CompactUnlink
  <2>3. \A p \in PackIds : ~GcUnlink(p) /\ ~CompactPick(p)
    BY <1>2 DEF GcUnlink, CompactPick
  <2>4. \A c \in Chunks : ~CompactMove(c)
    BY <1>2 DEF CompactMove
  <2>5. ~MaintenanceEnds /\ ~CompactFails
    BY DEF MaintenanceEnds, CompactFails
  <2> QED
    BY <2>1, <2>2, <2>3, <2>4, <2>5 DEF MaintenanceStep
<1>5. ~Crash /\ \A c \in Chunks : ~Rot(c)
  BY <1>2, IdleIs DEF Crash, Rot
<1>6. ASSUME NEW u \in Threads PROVE ~RecordStep(u)
  <2>1. \A S \in Inputs : ~Begin(u, S) /\ ~ReplicateRow(u, S)
    BY <1>2 DEF Begin, ReplicateRow
  <2>2. ~PutDedup(u) /\ ~PutMiss(u) /\ ~PutLocked(u) /\ ~PutRoll(u) /\ ~PutAppend(u) /\ ~PutCommit(u)
    BY <1>2 DEF PutDedup, PutMiss, PutLocked, PutRoll, PutAppend, PutCommit
  <2>3. ~Allocate(u) /\ ~CommitRow(u) /\ ~Abandon(u) /\ ~PutFails(u)
    BY <1>2 DEF Allocate, CommitRow, Abandon, PutFails
  <2> QED
    BY <2>1, <2>2, <2>3 DEF RecordStep
<1>7. PICK u \in Threads : VerifyStep(u)
  BY <1>3, <1>4, <1>5, <1>6 DEF Next
<1>8. Repair(u)
  <2>1. \A i \in SnapIds : ~Verify(u, i)
    BY <1>2 DEF Verify
  <2>2. ~VerifyLocate(u) /\ ~VerifyRead(u) /\ ~VerifyReadFails(u) /\ ~VerifyEnds(u)
    BY <1>2 DEF VerifyLocate, VerifyRead, VerifyReadFails, VerifyEnds
  <2> QED
    BY <1>7, <2>1, <2>2 DEF VerifyStep
<1>9. u = t
  <2>1. th' = [th EXCEPT ![u] = IdleThread]
    BY <1>8 DEF Repair, Set
  <2> QED
    BY <1>1, <2>1
<1> QED
  BY <1>8, <1>9

\* repair_remove_damaged removes only what cannot be read, though its report may
\* be older than other backups, sweeps, compactions and removals: ids are not
\* reused, and nothing mends a chunk that a row names.  The one way to lose an
\* undamaged snapshot is a read that failed while it was verified.
THEOREM RepairsRemoveOnlyDamaged == Spec => RepairRemovesOnlyDamaged
<1> DEFINE Harmless ==
      \A t \in Threads :
        th[t].pc = "report" /\ mt.pc = "idle" /\ mt'.pc = "gc" /\ th'[t].pc = "idle" =>
          \A i \in SnapIds : rows[i] # None /\ rows'[i] = None =>
            th[t].unread \/ \E c \in rows[i] : ~Readable(c)
<1>1. IInv /\ [Next]_vars => [Harmless]_vars
  <2> SUFFICES ASSUME IInv, [Next]_vars, NEW t \in Threads, NEW i \in SnapIds,
                      th[t].pc = "report", mt.pc = "idle", mt'.pc = "gc", th'[t].pc = "idle",
                      rows[i] # None, rows'[i] = None
               PROVE  th[t].unread \/ \E c \in rows[i] : ~Readable(c)
    OBVIOUS
  <2>1. Repair(t)
    BY ReportIsUsed
  <2>2. rows' = [rows EXCEPT ![th[t].id] = None] /\ CatalogTypes
    BY <2>1, TypeParts DEF Repair, IInv
  <2>3. i = th[t].id
    BY <2>2 DEF CatalogTypes
  <2>4. th[t].unread \/ \E c \in rows[i] : Damaged(c)
    BY <2>3 DEF IInv, Verifier
  <2> QED
    BY <2>4 DEF Damaged
<1> QED
  BY <1>1, Inductive, PTL DEF Spec, RepairRemovesOnlyDamaged

-----------------------------------------------------------------------------
(* The catalog.                                                            *)

\* The refinement mapping, and what it comes to.
Cat == [i \in SnapIds |-> Restored(i)]
Pending == {th[t].id : t \in {v \in Threads : th[v].pc = "row"}}
Recorded == [i \in SnapIds |-> IF rows[i] = None THEN None ELSE [c \in rows[i] |-> c]]
CatIsRecorded == Cat = Recorded

\* Every committed snapshot restores to what was recorded, but for rows gone astray.
LEMMA RestoresRecorded == IInv => CatIsRecorded
<1> SUFFICES ASSUME IInv PROVE CatIsRecorded
  OBVIOUS
<1>1. CatalogTypes /\ StoreOK
  BY TypeParts DEF IInv, StoreOK
<1>2. ASSUME NEW i \in SnapIds, rows[i] # None
      PROVE  Restored(i) = [c \in rows[i] |-> c]
  <2>1. ASSUME NEW c \in rows[i]
        PROVE  Unit(index[c]) # None /\ (c \in astray \/ Unit(index[c]).data = c)
    <3>1. c \in Chunks /\ index[c] # None
      BY <1>1, <1>2 DEF CatalogTypes, IInv, Present
    <3> QED
      BY <1>1, <3>1, UnitOfChunk
  <2> QED
    BY <1>2, <2>1 DEF Restored
<1>3. \A i \in SnapIds : Restored(i) = IF rows[i] = None THEN None ELSE [c \in rows[i] |-> c]
  BY <1>2 DEF Restored
<1> QED
  BY <1>3 DEF CatIsRecorded, Cat, Recorded

LEMMA RestoresRecorded1 == IInv' => CatIsRecorded'
BY RestoresRecorded, PTL

\* A step that commits and removes no snapshot and hands out no id.
Quiet ==
  /\ UNCHANGED <<rows, seq>>
  /\ \A u \in Threads : th'[u].pc = "row" => th[u].pc = "row" /\ th'[u].id = th[u].id

LEMMA QuietForsakes ==
  ASSUME IInv, IInv', Quiet
  PROVE  Catalog!Next
<1>1. Cat' = Cat
  BY RestoresRecorded, RestoresRecorded1 DEF CatIsRecorded, Recorded, Quiet
<1>2. Pending' \subseteq Pending /\ Pending \subseteq SnapIds
  BY DEF Pending, Quiet, IInv, Numbered
<1>3. PICK ids \in SUBSET SnapIds : ids \subseteq Pending /\ Pending' = Pending \ ids
  <2>1. /\ Pending \ Pending' \in SUBSET SnapIds /\ Pending \ Pending' \subseteq Pending
        /\ Pending' = Pending \ (Pending \ Pending')
    BY <1>2
  <2> QED
    BY <2>1
<1>4. Catalog!Forsake(ids)
  BY <1>1, <1>3 DEF Catalog!Forsake, Cat, Pending, Quiet
<1> QED
  BY <1>3, <1>4 DEF Catalog!Next, Catalog!SnapIds, SnapIds

LEMMA SetThread ==
  ASSUME IInv, NEW t \in Threads, NEW r, Set(t, r)
  PROVE  th'[t] = r /\ \A u \in Threads : u # t => th'[u] = th[u]
BY TypeParts DEF IInv, Set

LEMMA QuietThreads ==
  ASSUME IInv, NEW t \in Threads,
         \/ \E S \in Inputs : Begin(t, S)
         \/ PutDedup(t) \/ PutMiss(t) \/ PutLocked(t) \/ PutRoll(t) \/ PutAppend(t)
         \/ PutCommit(t) \/ PutFails(t) \/ Abandon(t)
         \/ \E i \in SnapIds : Verify(t, i)
         \/ VerifyLocate(t) \/ VerifyRead(t) \/ VerifyReadFails(t) \/ VerifyEnds(t)
  PROVE  Quiet
<1>1. th \in [Threads -> ThreadRecords] /\ th[t] \in ThreadRecords
  BY TypeParts DEF IInv
<1>2. UNCHANGED <<rows, seq>>
  BY DEF Begin, PutDedup, PutMiss, PutLocked, PutRoll, PutAppend, PutCommit, PutFails,
         Abandon, Verify, VerifyLocate, VerifyRead, VerifyReadFails, VerifyEnds, disk
<1>3. /\ \A S : [IdleThread EXCEPT !.pc = "put", !.files = S, !.todo = S].pc = "put"
      /\ \A i, S : [IdleThread EXCEPT !.pc = "locate", !.id = i, !.todo = S].pc = "locate"
      /\ \A i, b : [IdleThread EXCEPT !.pc = "report", !.id = i, !.unread = b].pc = "report"
      /\ IdleThread.pc = "idle"
  BY DEF IdleThread
<1>4. \A u \in Threads : u # t => th'[u] = th[u]
  BY <1>1 DEF Begin, PutDedup, PutMiss, PutLocked, PutRoll, PutAppend, PutCommit, PutFails,
              Abandon, Verify, VerifyLocate, VerifyRead, VerifyReadFails, VerifyEnds, Set
<1>5. th'[t] = th[t] \/ th'[t].pc # "row"
  <2>1. CASE \E S \in Inputs : Begin(t, S)
    <3>1. PICK S \in Inputs : th' = [th EXCEPT ![t] = [IdleThread EXCEPT !.pc = "put", !.files = S, !.todo = S]]
      BY <2>1 DEF Begin, Set
    <3> QED
      BY <1>1, <1>3, <3>1
  <2>2. CASE \E i \in SnapIds : Verify(t, i)
    <3>1. PICK i \in SnapIds :
            th' = [th EXCEPT ![t] = [IdleThread EXCEPT !.pc = "locate", !.id = i, !.todo = rows[i]]]
      BY <2>2 DEF Verify, Set
    <3> QED
      BY <1>1, <1>3, <3>1
  <2>3. CASE PutDedup(t)
    BY <1>1, <2>3 DEF PutDedup, Set, ThreadRecords
  <2>4. CASE PutMiss(t)
    BY <1>1, <2>4 DEF PutMiss, Set, ThreadRecords
  <2>5. CASE PutLocked(t)
    BY <1>1, <2>5 DEF PutLocked, Set, ThreadRecords
  <2>6. CASE PutRoll(t)
    BY <2>6 DEF PutRoll
  <2>7. CASE PutAppend(t)
    BY <1>1, <2>7 DEF PutAppend, Set, ThreadRecords
  <2>8. CASE PutCommit(t)
    BY <1>1, <2>8 DEF PutCommit, Set, ThreadRecords
  <2>9. CASE Abandon(t) \/ PutFails(t)
    BY <1>1, <1>3, <2>9 DEF Abandon, PutFails, Set
  <2>10. CASE VerifyLocate(t)
    BY <1>1, <2>10 DEF VerifyLocate, Set, ThreadRecords
  <2>11. CASE VerifyRead(t)
    BY <1>1, <2>11 DEF VerifyRead, Set, ThreadRecords
  <2>13. CASE VerifyReadFails(t)
    BY <1>1, <2>13 DEF VerifyReadFails, Set, ThreadRecords
  <2>12. CASE VerifyEnds(t)
    BY <1>1, <1>3, <2>12 DEF VerifyEnds, Set
  <2> QED
    BY <2>1, <2>2, <2>3, <2>4, <2>5, <2>6, <2>7, <2>8, <2>9, <2>10, <2>11, <2>12,
       <2>13
<1> QED
  BY <1>2, <1>4, <1>5 DEF Quiet

LEMMA QuietOthers ==
  ASSUME IInv,
         \/ GcSweep \/ GcDone \/ CompactRoll \/ CompactMoveRoll \/ CompactRepoint \/ CompactUnlink
         \/ \E p \in PackIds : GcUnlink(p) \/ CompactPick(p)
         \/ \E c \in Chunks : CompactMove(c) \/ Rot(c)
         \/ CompactFails \/ MaintenanceEnds \/ Crash \/ Rest \/ UNCHANGED vars
  PROVE  Quiet
<1>1. UNCHANGED <<rows, seq>>
  BY DEF GcSweep, GcDone, CompactRoll, CompactMoveRoll, CompactRepoint, CompactUnlink, GcUnlink,
         CompactPick, CompactMove, CompactFails, Rot, MaintenanceEnds, Crash, Rest, vars, disk
<1>2. CASE Crash
  BY <1>1, <1>2, IdleIs DEF Crash, Quiet
<1>3. CASE ~Crash
  <2>1. UNCHANGED th
    BY <1>3 DEF GcSweep, GcDone, CompactRoll, CompactMoveRoll, CompactRepoint, CompactUnlink,
                GcUnlink, CompactPick, CompactMove, CompactFails, Rot, MaintenanceEnds, Rest, vars
  <2> QED
    BY <1>1, <2>1 DEF Quiet
<1> QED
  BY <1>2, <1>3

LEMMA AllocateHandsOut ==
  ASSUME IInv, IInv', NEW t \in Threads, Allocate(t)
  PROVE  Catalog!Next
<1>1. Cat' = Cat
  BY RestoresRecorded, RestoresRecorded1 DEF CatIsRecorded, Recorded, Allocate
<1>2. /\ th'[t].pc = "row" /\ th'[t].id = seq /\ th[t].pc = "put"
      /\ \A u \in Threads : u # t => th'[u] = th[u]
  <2>1. th \in [Threads -> ThreadRecords] /\ th[t] \in ThreadRecords
    BY TypeParts DEF IInv
  <2>2. th[t].pc = "put" /\ th' = [th EXCEPT ![t] = [th[t] EXCEPT !.pc = "row", !.id = seq]]
    BY DEF Allocate, Set
  <2> QED
    BY <2>1, <2>2 DEF ThreadRecords
<1>3. Pending' = Pending \union {seq}
  BY <1>2 DEF Pending
<1>4. Catalog!HandOut
  BY <1>1, <1>3 DEF Catalog!HandOut, Catalog!SnapIds, SnapIds, Cat, Pending, Allocate
<1> QED
  BY <1>4 DEF Catalog!Next

LEMMA RowRecords ==
  ASSUME IInv, IInv', NEW t \in Threads, th[t].pc = "row",
         rows' = [rows EXCEPT ![th[t].id] = th[t].files], UNCHANGED seq,
         th'[t].pc # "row", \A u \in Threads : u # t => th'[u] = th[u]
  PROVE  Catalog!Next
<1>1. PICK i \in SnapIds : i = th[t].id /\ rows[i] = None
  BY DEF IInv, Numbered
<1>2. PICK S \in SUBSET Chunks : S = th[t].files
  BY TypeParts DEF IInv, ThreadRecords
<1>3. rows \in [SnapIds -> (SUBSET Chunks) \union {None}] /\ S # None
  BY TypeParts, ValuesAssumption DEF IInv, CatalogTypes
<1>4. rows'[i] = S /\ \A j \in SnapIds : j # i => rows'[j] = rows[j]
  BY <1>1, <1>2, <1>3
<1>5. Cat[i] = None /\ Cat' = [Cat EXCEPT ![i] = [c \in S |-> c]]
  <2>1. Cat = Recorded /\ Cat' = Recorded'
    BY RestoresRecorded, RestoresRecorded1 DEF CatIsRecorded
  <2>2. Recorded[i] = None /\ Recorded' = [Recorded EXCEPT ![i] = [c \in S |-> c]]
    BY <1>1, <1>3, <1>4 DEF Recorded
  <2> QED
    BY <2>1, <2>2
<1>6. i \in Pending /\ Pending' = Pending \ {i}
  <2>1. \A u \in Threads : u # t /\ th[u].pc = "row" => th[u].id # i
    BY <1>1 DEF IInv, Numbered
  <2> QED
    BY <1>1, <2>1 DEF Pending
<1>7. Catalog!Record(i, S)
  BY <1>5, <1>6 DEF Catalog!Record, Catalog!Faithful, Cat, Pending
<1> QED
  BY <1>7 DEF Catalog!Next, Catalog!SnapIds, SnapIds

LEMMA RemovalRemoves ==
  ASSUME IInv, IInv', NEW ids \in SUBSET SnapIds, UNCHANGED seq,
         rows' = [i \in SnapIds |-> IF i \in ids THEN None ELSE rows[i]],
         \A u \in Threads : th'[u] = th[u] \/ (th[u].pc # "row" /\ th'[u].pc # "row")
  PROVE  Catalog!Next
<1>1. Cat' = [i \in SnapIds |-> IF i \in ids THEN None ELSE Cat[i]]
  <2>1. Cat = Recorded /\ Cat' = Recorded'
    BY RestoresRecorded, RestoresRecorded1 DEF CatIsRecorded
  <2>2. Recorded' = [i \in SnapIds |-> IF i \in ids THEN None ELSE Recorded[i]]
    BY DEF Recorded
  <2> QED
    BY <2>1, <2>2
<1>2. Pending' = Pending
  BY DEF Pending
<1>3. Catalog!Remove(ids)
  BY <1>1, <1>2 DEF Catalog!Remove, Catalog!SnapIds, SnapIds, Cat, Pending
<1> QED
  BY <1>3 DEF Catalog!Next, Catalog!SnapIds, SnapIds

LEMMA InitCatalog ==
  ASSUME Init
  PROVE  Catalog!Init
<1>1. rows = [i \in SnapIds |-> None] /\ seq = 1 /\ \A t \in Threads : th[t].pc = "idle"
  BY IdleIs DEF Init
<1>2. Cat = [i \in SnapIds |-> None]
  BY <1>1 DEF Cat, Restored
<1>3. Pending = {}
  BY <1>1 DEF Pending
<1> QED
  BY <1>1, <1>2, <1>3 DEF Catalog!Init, Catalog!SnapIds, SnapIds, Cat, Pending

LEMMA NextCatalog ==
  ASSUME IInv, IInv', [Next]_vars
  PROVE  Catalog!Next
<1>1. ASSUME NEW t \in Threads, CommitRow(t) PROVE Catalog!Next
  BY <1>1, IdleIs, SetThread, RowRecords DEF CommitRow
<1>2. ASSUME NEW t \in Threads, NEW S \in Inputs, ReplicateRow(t, S) PROVE Catalog!Next
  <2>1. [IdleThread EXCEPT !.pc = "put", !.files = S, !.todo = S].pc = "put"
    BY DEF IdleThread
  <2> QED
    BY <1>2, <2>1, SetThread, RowRecords DEF ReplicateRow
<1>3. ASSUME NEW t \in Threads, Repair(t) PROVE Catalog!Next
  <2>1. /\ th[t].pc = "report" /\ th'[t].pc = "idle"
        /\ \A u \in Threads : u # t => th'[u] = th[u]
    BY <1>3, IdleIs, SetThread DEF Repair
  <2>2. th[t].id \in SnapIds /\ CatalogTypes
    BY <2>1, TypeParts DEF IInv, Numbered
  <2>3. PICK j \in SnapIds : j = th[t].id
    BY <2>2
  <2>4. rows' = [i \in SnapIds |-> IF i \in {j} THEN None ELSE rows[i]] /\ UNCHANGED seq
    BY <1>3, <2>2, <2>3 DEF Repair, CatalogTypes
  <2>5. {j} \in SUBSET SnapIds
    OBVIOUS
  <2> QED
    BY <2>1, <2>4, <2>5, RemovalRemoves
<1>4. ASSUME NEW ids \in SUBSET SnapIds, RemoveSnapshots(ids) PROVE Catalog!Next
  BY <1>4, RemovalRemoves DEF RemoveSnapshots
<1>5. ASSUME NEW t \in Threads, RecordStep(t) PROVE Catalog!Next
  <2>1. CASE \E S \in Inputs : ReplicateRow(t, S)
    BY <1>2, <2>1
  <2>2. CASE CommitRow(t) \/ Allocate(t)
    BY <1>1, <2>2, AllocateHandsOut
  <2>3. CASE ~(\E S \in Inputs : ReplicateRow(t, S)) /\ ~CommitRow(t) /\ ~Allocate(t)
    <3>1. Quiet
      BY <1>5, <2>3, QuietThreads DEF RecordStep
    <3> QED
      BY <3>1, QuietForsakes
  <2> QED
    BY <2>1, <2>2, <2>3
<1>6. ASSUME NEW t \in Threads, VerifyStep(t) PROVE Catalog!Next
  <2>1. CASE ~Repair(t)
    <3>1. Quiet
      BY <1>6, <2>1, QuietThreads DEF VerifyStep
    <3> QED
      BY <3>1, QuietForsakes
  <2> QED
    BY <1>3, <2>1
<1>7. CASE MaintenanceStep
  <2>1. CASE ~(\E ids \in SUBSET SnapIds : RemoveSnapshots(ids))
    <3>1. Quiet
      BY <1>7, <2>1, QuietOthers DEF MaintenanceStep
    <3> QED
      BY <3>1, QuietForsakes
  <2> QED
    BY <1>4, <2>1
<1>8. CASE Crash \/ (\E c \in Chunks : Rot(c)) \/ Rest \/ UNCHANGED vars
  <2>1. Quiet
    BY <1>8, QuietOthers
  <2> QED
    BY <2>1, QuietForsakes
<1> QED
  BY <1>5, <1>6, <1>7, <1>8 DEF Next

\* The repository implements the catalog: whatever other backups, gc, compaction,
\* repairs, disk damage, failed rolls and kills interleave, a committed snapshot
\* leads to the chunks that were recorded until it is removed, and no id is given
\* out twice.  Excepted are the chunks whose row a put committed to a pack that a
\* short append had made longer than active.size.
THEOREM RepositoryImplementsCatalog == Spec => ImplementsCatalog
<1>1. IInv /\ IInv' /\ [Next]_vars => [Catalog!Next]_Catalog!vars
  BY NextCatalog
<1>2. Init => Catalog!Init
  BY InitCatalog
<1> QED
  BY <1>1, <1>2, Inductive, PTL DEF Spec, ImplementsCatalog, Catalog!Spec
=============================================================================
