--------------------------- MODULE TreeCopyProofs ---------------------------
(***************************************************************************)
(* Proofs about TreeCopy: its types, the dialogue between the parked tasks *)
(* and the user, what the report counts, and what a job may never          *)
(* overwrite, for any tree, any policies, any number of concurrent tasks,  *)
(* retries and faults.                                                     *)
(***************************************************************************)
EXTENDS TreeCopy, FiniteSetTheorems, SequenceTheorems, TLAPS

Parked == {"asking", "erring"}
Targeted == {"write", "writing", "erring", "done"}
Counted == {"done", "skipped", "errored"}

TaskRecords == [at : TaskStates, target : Names \cup {Nobody}, left : 0..MaxRetries]

\* The walker passes every name once: a name ahead of it or in its channel has
\* no task yet, and is in one place.
Walks ==
    /\ \A f \in walk.ahead : At(f) = "none"
    /\ \A j \in DOMAIN walk.chan : walk.chan[j] \notin walk.ahead /\ At(walk.chan[j]) = "none"
    /\ IsInjective(walk.chan)

\* A question is asked, looked at or registered, and its task is parked.
Dialogue ==
    /\ \A j \in DOMAIN asked : At(asked[j]) \in Parked
                               /\ asked[j] # peek /\ asked[j] \notin pending
    /\ peek # Nobody => At(peek) = "asking" /\ peek \notin pending
    /\ \A f \in pending : At(f) \in Parked
    /\ \A f \in Files : At(f) \in Parked =>
         (\E j \in DOMAIN asked : asked[j] = f) \/ peek = f \/ f \in pending

\* A task settles on one name for good.
Settled ==
    \A f \in Files :
        /\ At(f) \in {"none", "queued", "asking"} => task[f].target = Nobody
        /\ At(f) \in Targeted => task[f].target \in Names

\* Under Skip and KeepBoth nobody is asked, and no task settles on a name that
\* was taken before the job.
Keeps ==
    job.policy \in {"skip", "keep"} =>
        \A f \in Files : /\ At(f) # "asking"
                         /\ task[f].target \in Names => dst[task[f].target] # Before

\* The counters count the tasks that have ended that way.
Counts ==
    tally.files + tally.skipped + tally.errored
        = Cardinality({f \in Files : At(f) \in Counted})

\* The drain loop has joined what it says, knows what became of it, and ends
\* only when every task is joined.
Verdicts ==
    /\ \A f \in verdict.joined :
          /\ At(f) \in Outcomes
          /\ At(f) = "aborted" => verdict.aborted
          /\ At(f) = "failed" => verdict.error
    /\ disp \in {"walker", "delete", "returned"} =>
          \A f \in Files : At(f) # "none" => f \in verdict.joined
    /\ disp \in {"delete", "returned"} => walk.closed
    /\ disp = "delete" => ~verdict.error /\ ~verdict.aborted
    /\ verdict.result = "ok" => disp = "returned" /\ ~verdict.error /\ ~verdict.aborted

IInv == TypeOK /\ Walks /\ Dialogue /\ Settled /\ Keeps /\ Counts /\ Verdicts

-----------------------------------------------------------------------------
(* A step of a task.                                                       *)

\* The ways a task's record may change: forwards, from one await point to the
\* next, and settling on a name only once.
Legal(old, new) ==
    /\ old.at \notin Outcomes
    /\ new.at # "none"
    /\ old.at = "none" <=> new.at = "queued"
    /\ new.at = "asking" => old.at = "queued"
    /\ new.at = "writing" => old.at = "write"
    /\ new.at = "done" => old.at = "writing"
    /\ new.at = "erring" => old.at \in {"write", "writing"}
    /\ \/ new.target = old.target /\ (new.at = "write" => old.at \in {"write", "writing", "erring"})
       \/ new.target \in Names /\ new.at = "write" /\ old.at \in {"queued", "asking"}

\* f's task takes a legal step to record t.
Moves(f, t) ==
    /\ f \in Files /\ t \in TaskRecords
    /\ task' = [task EXCEPT ![f] = t]
    /\ Legal(task[f], t)

\* What a move does to the tasks' records.
LEMMA MoveTasks ==
  ASSUME TypeOK, NEW f, NEW t, Moves(f, t)
  PROVE  /\ f \in Files /\ task'[f] = t /\ task' \in [Files -> TaskRecords]
         /\ \A g \in Files \ {f} : task'[g] = task[g]
         /\ task[f] \in TaskRecords /\ t \in TaskRecords /\ Legal(task[f], t)
BY DEF TypeOK, Moves, TaskRecords

\* A name the walker has not passed, or that is under way, is not f's.
LEMMA WalksMove ==
  ASSUME TypeOK, Walks, NEW f, NEW t, Moves(f, t), UNCHANGED walk, At(f) # "none"
  PROVE  Walks'
<1>1. \A g \in Files : At(g) = "none" => At(g)' = "none"
  BY MoveTasks DEF At
<1>2. walk.ahead \in SUBSET Files /\ \A j \in DOMAIN walk.chan : walk.chan[j] \in Files
  BY DEF TypeOK
<1> QED
  BY <1>1, <1>2 DEF Walks

\* Settled
LEMMA SettledMove ==
  ASSUME TypeOK, Settled, NEW f, NEW t, Moves(f, t)
  PROVE  Settled'
<1> SUFFICES ASSUME NEW g \in Files
             PROVE  /\ task'[g].at \in {"none", "queued", "asking"} => task'[g].target = Nobody
                    /\ task'[g].at \in Targeted => task'[g].target \in Names
  BY DEF Settled, At
<1>1. CASE g # f
  BY <1>1, MoveTasks DEF Settled, At
<1>2. CASE g = f
  <2>1. /\ task[f].at \in {"none", "queued", "asking"} => task[f].target = Nobody
        /\ task[f].at \in Targeted => task[f].target \in Names
    BY MoveTasks DEF Settled, At
  <2>2. task'[g] = t /\ Legal(task[f], t)
    BY <1>2, MoveTasks
  <2> QED
    BY <2>1, <2>2 DEF Legal, Targeted, Outcomes
<1> QED
  BY <1>1, <1>2

\* Keeps, when a move truncates nothing that was there before.
LEMMA KeepsMove ==
  ASSUME TypeOK, Keeps, NEW f, NEW t, Moves(f, t), UNCHANGED job,
         \A n \in Names : dst[n] # Before => dst'[n] # Before,
         job.policy \in {"skip", "keep"} =>
            t.at # "asking" /\ (t.target \in Names => dst'[t.target] # Before)
  PROVE  Keeps'
<1> SUFFICES ASSUME job.policy \in {"skip", "keep"}, NEW g \in Files
             PROVE  /\ task'[g].at # "asking"
                    /\ task'[g].target \in Names => dst'[task'[g].target] # Before
  BY DEF Keeps, At
<1>1. CASE g = f
  BY <1>1, MoveTasks
<1>2. CASE g # f
  BY <1>2, MoveTasks DEF Keeps, At
<1> QED
  BY <1>1, <1>2

\* What the counters add up to.
Sum(c) == c.files + c.skipped + c.errored

\* Counts, when the counters go up by one with a task that ends counted.
LEMMA CountsMove ==
  ASSUME TypeOK, Counts, NEW f, NEW t, Moves(f, t),
         Sum(tally') = Sum(tally) + IF t.at \in Counted THEN 1 ELSE 0
  PROVE  Counts'
<1> DEFINE S == {g \in Files : task[g].at \in Counted}
           T == {g \in Files : task'[g].at \in Counted}
<1>1. f \in Files /\ f \notin S
  BY MoveTasks DEF Legal, Counted, Outcomes
<1>2. IsFiniteSet(S) /\ Cardinality(S) \in Nat
  BY FilesAssumption, FS_Subset, FS_CardinalityType
<1>3. CASE t.at \in Counted
  <2>1. T = S \cup {f}
    BY <1>1, <1>3, MoveTasks
  <2>2. Cardinality(T) = Cardinality(S) + 1
    BY <1>1, <1>2, <2>1, FS_AddElement
  <2> QED
    BY <1>3, <2>2 DEF Counts, Sum, At
<1>4. CASE t.at \notin Counted
  <2>1. T = S
    BY <1>1, <1>4, MoveTasks
  <2>2. Sum(tally') = Sum(tally)
    BY <1>4 DEF TypeOK, Sum
  <2> QED
    BY <2>1, <2>2 DEF Counts, Sum, At
<1> QED
  BY <1>3, <1>4

\* Verdicts: a task that moves has not been joined.
LEMMA VerdictsMove ==
  ASSUME TypeOK, Verdicts, NEW f, NEW t, Moves(f, t), UNCHANGED <<disp, verdict>>,
         walk.closed => walk'.closed,
         At(f) # "none" \/ disp = "receive"
  PROVE  Verdicts'
<1>1. f \notin verdict.joined /\ verdict.joined \subseteq Files
  BY MoveTasks DEF Legal, Verdicts, At, TypeOK
<1>2. disp \notin {"walker", "delete", "returned"}
  BY <1>1, MoveTasks DEF Verdicts
<1>3. \A g \in verdict.joined : task'[g] = task[g]
  BY <1>1, MoveTasks
<1> QED
  BY <1>2, <1>3 DEF Verdicts, At

-----------------------------------------------------------------------------
(* The dialogue.                                                           *)

Asks == Dialogue /\ asked \in Seq(Files) /\ IsInjective(asked)

\* A task that is not asking moves.
LEMMA QuietMove ==
  ASSUME TypeOK, Dialogue, NEW f, NEW t, Moves(f, t), At(f) \notin Parked, t.at \notin Parked,
         UNCHANGED <<asked, peek, pending>>
  PROVE  Asks'
<1>1. \A g \in Files : task'[g].at \in Parked <=> task[g].at \in Parked
  BY MoveTasks DEF At
<1>2. \A g \in Files : task[g].at \in Parked => task'[g].at = task[g].at
  BY MoveTasks DEF At
<1>3. (\A j \in DOMAIN asked : asked[j] \in Files) /\ peek \in Files \cup {Nobody} /\ pending \subseteq Files
  BY DEF TypeOK
<1>4. Dialogue'
  BY <1>1, <1>2, <1>3 DEF Dialogue, At, Parked
<1> QED
  BY <1>4 DEF Asks, TypeOK

\* A task asks: its question goes to the end of the channel.
LEMMA AskMove ==
  ASSUME TypeOK, Dialogue, NEW f, NEW t, Moves(f, t), At(f) \notin Parked, t.at \in Parked,
         asked' = Append(asked, f), UNCHANGED <<peek, pending>>
  PROVE  Asks'
<1>1. /\ \A g \in Files \ {f} : task'[g] = task[g]
      /\ task'[f] = t /\ f \in Files /\ f # Nobody
  BY MoveTasks, FilesAssumption, TagsAssumption
<1>2. asked \in Seq(Files) /\ peek \in Files \cup {Nobody} /\ pending \subseteq Files /\ IsInjective(asked)
  BY DEF TypeOK
<1>3. f # peek /\ f \notin pending /\ \A j \in 1 .. Len(asked) : asked[j] # f
  BY <1>1, <1>2 DEF Dialogue, Parked
<1>4. /\ asked' \in Seq(Files) /\ Len(asked') = Len(asked) + 1 /\ asked'[Len(asked) + 1] = f
      /\ \A j \in 1 .. Len(asked) : asked'[j] = asked[j]
  BY <1>1, <1>2
<1>5. IsInjective(asked')
  BY <1>2, <1>3, <1>4 DEF IsInjective
<1>6. \A j \in DOMAIN asked' : /\ task'[asked'[j]].at \in Parked
                               /\ asked'[j] # peek /\ asked'[j] \notin pending
  <2> SUFFICES ASSUME NEW j \in 1 .. Len(asked) + 1
               PROVE  /\ task'[asked'[j]].at \in Parked
                      /\ asked'[j] # peek /\ asked'[j] \notin pending
    BY <1>4
  <2>1. CASE j = Len(asked) + 1
    BY <2>1, <1>1, <1>3, <1>4
  <2>2. CASE j \in 1 .. Len(asked)
    <3>1. asked'[j] = asked[j] /\ asked[j] \in Files \ {f} /\ j \in DOMAIN asked
      BY <2>2, <1>2, <1>3, <1>4
    <3> QED
      BY <3>1, <1>1 DEF Dialogue, At
  <2> QED
    BY <2>1, <2>2, <1>2
<1>7. peek' # Nobody => task'[peek'].at = "asking" /\ peek' \notin pending'
  BY <1>1, <1>2, <1>3 DEF Dialogue, At
<1>8. \A g \in pending' : task'[g].at \in Parked
  BY <1>1, <1>2, <1>3 DEF Dialogue, At
<1>9. \A g \in Files : task'[g].at \in Parked =>
         (\E j \in DOMAIN asked' : asked'[j] = g) \/ peek' = g \/ g \in pending'
  <2> SUFFICES ASSUME NEW g \in Files, task'[g].at \in Parked
               PROVE  (\E j \in 1 .. Len(asked) + 1 : asked'[j] = g) \/ peek = g \/ g \in pending
    BY <1>4
  <2>1. CASE g = f
    BY <2>1, <1>2, <1>4
  <2>2. CASE g # f
    <3>1. (\E j \in 1 .. Len(asked) : asked[j] = g) \/ peek = g \/ g \in pending
      BY <2>2, <1>1, <1>2 DEF Dialogue, At
    <3> QED
      BY <3>1, <1>2, <1>4
  <2> QED
    BY <2>1, <2>2
<1>10. Dialogue'
  BY <1>6, <1>7, <1>8, <1>9 DEF Dialogue, At
<1> QED
  BY <1>4, <1>5, <1>10 DEF Asks

\* A channel after its first element is taken.
LEMMA InjectiveTail ==
  ASSUME NEW S, NEW s \in Seq(S), s # <<>>, IsInjective(s)
  PROVE  /\ Head(s) \in S /\ Tail(s) \in Seq(S) /\ IsInjective(Tail(s)) /\ Len(Tail(s)) =< Len(s)
         /\ \A j \in DOMAIN Tail(s) : Tail(s)[j] # Head(s) /\ \E k \in DOMAIN s : s[k] = Tail(s)[j]
         /\ \A k \in DOMAIN s : s[k] = Head(s) \/ \E j \in DOMAIN Tail(s) : Tail(s)[j] = s[k]
         /\ \E k \in DOMAIN s : s[k] = Head(s)
<1> DEFINE r == Tail(s)
<1>1. Len(s) \in Nat \ {0} /\ DOMAIN s = 1 .. Len(s)
  BY EmptySeq
<1>2. /\ Head(s) = s[1] /\ Head(s) \in S /\ r \in Seq(S) /\ Len(r) =< Len(s)
      /\ DOMAIN r = 1 .. Len(s) - 1
      /\ \A j \in 1 .. Len(s) - 1 : r[j] = s[j + 1]
  BY <1>1
<1>3. \A a, b \in 1 .. Len(s) : s[a] = s[b] => a = b
  BY <1>1 DEF IsInjective
<1> HIDE DEF r
<1>4. IsInjective(r)
  BY <1>1, <1>2, <1>3 DEF IsInjective
<1>5. ASSUME NEW j \in DOMAIN r
      PROVE  r[j] # Head(s) /\ \E k \in DOMAIN s : s[k] = r[j]
  <2>1. j + 1 \in 1 .. Len(s) /\ j + 1 # 1 /\ 1 \in 1 .. Len(s) /\ r[j] = s[j + 1]
    BY <1>1, <1>2
  <2> QED
    BY <1>1, <1>2, <1>3, <2>1
<1>6. ASSUME NEW k \in DOMAIN s, s[k] # Head(s)
      PROVE  \E j \in DOMAIN r : r[j] = s[k]
  <2>1. k - 1 \in 1 .. Len(s) - 1 /\ (k - 1) + 1 = k
    BY <1>1, <1>2, <1>6
  <2> QED
    BY <2>1, <1>2
<1>7. \E k \in DOMAIN s : s[k] = Head(s)
  BY <1>1, <1>2
<1> QED
  BY <1>2, <1>4, <1>5, <1>6, <1>7 DEF r

\* The forwarder takes the first question.
LEMMA TailAsked ==
  ASSUME TypeOK, asked # <<>>, asked' = Tail(asked)
  PROVE  /\ Head(asked) \in Files /\ asked' \in Seq(Files) /\ IsInjective(asked')
         /\ \A j \in DOMAIN asked' : asked'[j] # Head(asked) /\ \E k \in DOMAIN asked : asked[k] = asked'[j]
         /\ \A k \in DOMAIN asked : asked[k] = Head(asked) \/ \E j \in DOMAIN asked' : asked'[j] = asked[k]
         /\ \E k \in DOMAIN asked : asked[k] = Head(asked)
<1>1. asked \in Seq(Files) /\ IsInjective(asked)
  BY DEF TypeOK
<1> QED
  BY <1>1, InjectiveTail

\* A task is answered by the forwarder that took its question.
LEMMA AnswerFromChannel ==
  ASSUME TypeOK, Dialogue, NEW f, NEW t, Moves(f, t), t.at \notin Parked,
         asked # <<>>, f = Head(asked), asked' = Tail(asked), UNCHANGED <<peek, pending>>
  PROVE  Asks'
<1>1. \A g \in Files \ {f} : task'[g] = task[g] /\ task'[f] = t
  BY MoveTasks
<1>2. /\ asked' \in Seq(Files) /\ IsInjective(asked')
      /\ \A j \in DOMAIN asked' : asked'[j] # f /\ \E k \in DOMAIN asked : asked[k] = asked'[j]
      /\ \A k \in DOMAIN asked : asked[k] = f \/ \E j \in DOMAIN asked' : asked'[j] = asked[k]
      /\ f \in Files /\ \A j \in DOMAIN asked' : asked'[j] \in Files
  BY TailAsked
<1>3. \E k \in DOMAIN asked : asked[k] = f
  <2>1. asked \in Seq(Files) /\ Len(asked) \in Nat \ {0} /\ asked[1] = f
    BY EmptySeq DEF TypeOK
  <2> QED
    BY <2>1
<1>4. f # peek /\ f \notin pending /\ peek \in Files \cup {Nobody} /\ pending \subseteq Files
  BY <1>3 DEF Dialogue, TypeOK
<1>5. \A j \in DOMAIN asked' : /\ task'[asked'[j]].at \in Parked
                               /\ asked'[j] # peek' /\ asked'[j] \notin pending'
  <2> SUFFICES ASSUME NEW j \in DOMAIN asked'
               PROVE  /\ task'[asked'[j]].at \in Parked
                      /\ asked'[j] # peek /\ asked'[j] \notin pending
    OBVIOUS
  <2>1. PICK k \in DOMAIN asked : asked[k] = asked'[j]
    BY <1>2
  <2>2. task[asked[k]].at \in Parked /\ asked[k] # peek /\ asked[k] \notin pending
    BY DEF Dialogue, At
  <2>3. task'[asked'[j]] = task[asked'[j]]
    BY <1>1, <1>2
  <2> QED
    BY <2>1, <2>2, <2>3
<1>6. peek' # Nobody => task'[peek'].at = "asking" /\ peek' \notin pending'
  BY <1>1, <1>4 DEF Dialogue, At
<1>7. \A g \in pending' : task'[g].at \in Parked
  BY <1>1, <1>4 DEF Dialogue, At
<1>8. \A g \in Files : task'[g].at \in Parked =>
         (\E j \in DOMAIN asked' : asked'[j] = g) \/ peek' = g \/ g \in pending'
  <2> SUFFICES ASSUME NEW g \in Files, task'[g].at \in Parked
               PROVE  (\E j \in DOMAIN asked' : asked'[j] = g) \/ peek = g \/ g \in pending
    OBVIOUS
  <2>1. g # f /\ task[g].at \in Parked
    BY <1>1, MoveTasks
  <2> QED
    BY <2>1, <1>2 DEF Dialogue, At
<1> QED
  BY <1>2, <1>5, <1>6, <1>7, <1>8 DEF Asks, Dialogue, At

\* A task is answered by a rule, or by the user.
LEMMA AnswerElsewhere ==
  ASSUME TypeOK, Dialogue, NEW f, NEW t, Moves(f, t), t.at \notin Parked, UNCHANGED asked,
         \/ f = peek /\ peek' = Nobody /\ UNCHANGED pending
         \/ f \in pending /\ pending' = pending \ {f} /\ UNCHANGED peek
  PROVE  Asks'
<1>1. \A g \in Files \ {f} : task'[g] = task[g] /\ task'[f] = t /\ f \in Files
  BY MoveTasks
<1>2. /\ peek \in Files \cup {Nobody} /\ pending \subseteq Files
      /\ \A j \in DOMAIN asked : asked[j] \in Files
      /\ f # Nobody /\ f \in Files /\ task'[f] = t /\ Nobody \notin Files
  BY MoveTasks, FilesAssumption, TagsAssumption DEF TypeOK
<1>3. \A j \in DOMAIN asked : asked[j] # f
  BY DEF Dialogue
<1>4. \A j \in DOMAIN asked' : /\ task'[asked'[j]].at \in Parked
                               /\ asked'[j] # peek' /\ asked'[j] \notin pending'
  BY <1>1, <1>2, <1>3 DEF Dialogue, At
<1>5. peek' # Nobody => task'[peek'].at = "asking" /\ peek' \notin pending'
  BY <1>1, <1>2 DEF Dialogue, At
<1>6. \A g \in pending' : task'[g].at \in Parked
  BY <1>1, <1>2 DEF Dialogue, At
<1>7. \A g \in Files : task'[g].at \in Parked =>
         (\E j \in DOMAIN asked' : asked'[j] = g) \/ peek' = g \/ g \in pending'
  <2> SUFFICES ASSUME NEW g \in Files, task'[g].at \in Parked
               PROVE  (\E j \in DOMAIN asked : asked[j] = g) \/ peek' = g \/ g \in pending'
    OBVIOUS
  <2>1. g # f /\ task[g].at \in Parked
    BY <1>1, <1>2
  <2> QED
    BY <2>1 DEF Dialogue, At
<1> QED
  BY <1>4, <1>5, <1>6, <1>7 DEF Asks, Dialogue, At, TypeOK

\* A question is handed on: from the channel to the forwarder, or from either to
\* the registry.
LEMMA HandOn ==
  ASSUME TypeOK, Dialogue, UNCHANGED task,
         \/ /\ asked # <<>> /\ asked' = Tail(asked) /\ peek = Nobody
            /\ \/ At(Head(asked)) = "asking" /\ peek' = Head(asked) /\ UNCHANGED pending
               \/ pending' = pending \cup {Head(asked)} /\ UNCHANGED peek
         \/ /\ peek # Nobody /\ peek' = Nobody /\ pending' = pending \cup {peek}
            /\ UNCHANGED asked
  PROVE  Asks'
<1>1. /\ peek \in Files \cup {Nobody} /\ pending \subseteq Files
      /\ \A j \in DOMAIN asked : asked[j] \in Files /\ asked[j] # Nobody
      /\ Nobody \notin Files
  BY FilesAssumption, TagsAssumption DEF TypeOK
<1>2. CASE asked # <<>> /\ asked' = Tail(asked) /\ peek = Nobody
  <2> DEFINE f == Head(asked)
  <2>1. /\ asked' \in Seq(Files) /\ IsInjective(asked')
        /\ \A j \in DOMAIN asked' : asked'[j] # f /\ \E k \in DOMAIN asked : asked[k] = asked'[j]
        /\ \A k \in DOMAIN asked : asked[k] = f \/ \E j \in DOMAIN asked' : asked'[j] = asked[k]
        /\ f \in Files
    BY <1>2, TailAsked
  <2>2. \E k \in DOMAIN asked : asked[k] = f
    <3>1. asked \in Seq(Files) /\ Len(asked) \in Nat \ {0} /\ asked[1] = f
      BY <1>2, EmptySeq DEF TypeOK
    <3> QED
      BY <3>1
  <2>3. At(f) \in Parked /\ f \notin pending /\ f # Nobody
    BY <2>2, <2>1, <1>1 DEF Dialogue
  <2> HIDE DEF f
  <2>4. ASSUME NEW j \in DOMAIN asked'
        PROVE  task[asked'[j]].at \in Parked /\ asked'[j] # peek /\ asked'[j] \notin pending
    <3>1. PICK k \in DOMAIN asked : asked[k] = asked'[j]
      BY <2>1
    <3>2. task[asked[k]].at \in Parked /\ asked[k] # peek /\ asked[k] \notin pending
      BY DEF Dialogue, At
    <3> QED
      BY <3>1, <3>2
  <2>5. ASSUME NEW g \in Files, task[g].at \in Parked, g # f, g \notin pending
        PROVE  \E j \in DOMAIN asked' : asked'[j] = g
    <3>1. PICK k \in DOMAIN asked : asked[k] = g
      BY <2>5, <1>1, <1>2 DEF Dialogue, At
    <3> QED
      BY <3>1, <2>1, <2>5
  <2>6. CASE At(f) = "asking" /\ peek' = f /\ UNCHANGED pending
    <3>1. \A j \in DOMAIN asked' : /\ task'[asked'[j]].at \in Parked
                                   /\ asked'[j] # peek' /\ asked'[j] \notin pending'
      BY <2>1, <2>6, <2>4
    <3>2. /\ peek' # Nobody => task'[peek'].at = "asking" /\ peek' \notin pending'
          /\ \A g \in pending' : task'[g].at \in Parked
      BY <2>3, <2>6 DEF Dialogue, At
    <3>3. \A g \in Files : task'[g].at \in Parked =>
             (\E j \in DOMAIN asked' : asked'[j] = g) \/ peek' = g \/ g \in pending'
      BY <2>6, <2>5
    <3>4. Dialogue'
      BY <3>1, <3>2, <3>3 DEF Dialogue, At
    <3> QED
      BY <2>1, <3>4 DEF Asks
  <2>7. CASE pending' = pending \cup {f} /\ UNCHANGED peek
    <3>1. \A j \in DOMAIN asked' : /\ task'[asked'[j]].at \in Parked
                                   /\ asked'[j] # peek' /\ asked'[j] \notin pending'
      BY <2>1, <2>7, <2>4
    <3>2. /\ peek' # Nobody => task'[peek'].at = "asking" /\ peek' \notin pending'
          /\ \A g \in pending' : task'[g].at \in Parked
      BY <1>2, <2>3, <2>7 DEF Dialogue, At
    <3>3. \A g \in Files : task'[g].at \in Parked =>
             (\E j \in DOMAIN asked' : asked'[j] = g) \/ peek' = g \/ g \in pending'
      BY <2>7, <2>5
    <3>4. Dialogue'
      BY <3>1, <3>2, <3>3 DEF Dialogue, At
    <3> QED
      BY <2>1, <3>4 DEF Asks
  <2> QED
    BY <1>2, <2>6, <2>7 DEF f
<1>3. CASE peek # Nobody /\ peek' = Nobody /\ pending' = pending \cup {peek} /\ UNCHANGED asked
  <2>1. Dialogue'
    BY <1>1, <1>3 DEF Dialogue, At, Parked
  <2> QED
    BY <1>3, <2>1 DEF Asks, TypeOK
<1> QED
  BY <1>2, <1>3

-----------------------------------------------------------------------------
(* The two shapes of a step.                                               *)

\* A step of f's task.
LEMMA TaskStep ==
  ASSUME IInv, NEW f, NEW t, Moves(f, t), At(f) # "none",
         UNCHANGED <<job, src, walk, disp, ctrl, verdict>>,
         dst' \in [Names -> Contents],
         tally' \in [files : Nat, skipped : Nat, errored : Nat],
         peek' \in Files \cup {Nobody}, pending' \subseteq Files,
         decided' \in [all : Resolutions \cup {Unset}, errors : BOOLEAN,
                       rule : RuleResolutions \cup {Unset}],
         faults' \in 0..MaxFaults,
         Asks',
         \A n \in Names : dst[n] # Before => dst'[n] # Before,
         job.policy \in {"skip", "keep"} =>
            t.at # "asking" /\ (t.target \in Names => dst'[t.target] # Before),
         Sum(tally') = Sum(tally) + IF t.at \in Counted THEN 1 ELSE 0
  PROVE  IInv'
<1> USE DEF IInv
<1>1. task' \in [Files -> TaskRecords]
  BY MoveTasks
<1>2. TypeOK'
  BY <1>1 DEF TypeOK, Asks, TaskRecords
<1>3. Walks'
  BY WalksMove
<1>4. Dialogue'
  BY DEF Asks
<1>5. Settled'
  BY SettledMove
<1>7. Keeps'
  BY KeepsMove
<1>8. Counts'
  BY CountsMove
<1>9. Verdicts'
  BY VerdictsMove
<1> QED
  BY <1>2, <1>3, <1>4, <1>5, <1>7, <1>8, <1>9

\* A step no task takes.
LEMMA OtherStep ==
  ASSUME IInv, UNCHANGED <<job, dst, task, tally>>, TypeOK', Walks', Dialogue', Verdicts'
  PROVE  IInv'
BY DEF IInv, Settled, Keeps, Counts, At

\* A parked task is answered.
LEMMA AnswerStep ==
  ASSUME IInv, NEW f, NEW t, Moves(f, t), At(f) \in Parked,
         t.at \in {"write", "skipped", "errored", "aborted", "failed"},
         UNCHANGED <<job, src, dst, walk, disp, ctrl, verdict, faults>>,
         tally' \in [files : Nat, skipped : Nat, errored : Nat],
         Sum(tally') = Sum(tally) + IF t.at \in Counted THEN 1 ELSE 0,
         peek' \in Files \cup {Nobody}, pending' \subseteq Files,
         decided' \in [all : Resolutions \cup {Unset}, errors : BOOLEAN,
                       rule : RuleResolutions \cup {Unset}],
         Asks'
  PROVE  IInv'
<1>1. TypeOK /\ Keeps /\ f \in Files
  BY MoveTasks DEF IInv
<1>2. job.policy \in {"skip", "keep"} =>
         t.at # "asking" /\ (t.target \in Names => dst'[t.target] # Before)
  <2> SUFFICES ASSUME job.policy \in {"skip", "keep"} PROVE t.target \in Names => dst[t.target] # Before
    OBVIOUS
  <2>1. At(f) = "erring"
    BY <1>1 DEF Keeps, Parked
  <2>2. t.target = task[f].target
    BY <1>1, <2>1, MoveTasks DEF Legal, At
  <2> QED
    BY <1>1, <2>2 DEF Keeps
<1>3. dst' \in [Names -> Contents] /\ faults' \in 0..MaxFaults /\ At(f) # "none"
  BY <1>1 DEF TypeOK, Parked
<1> QED
  BY <1>2, <1>3, TaskStep

-----------------------------------------------------------------------------
(* What the steps of a task do to its record and to the counters.          *)

\* A task goes to another await point.
LEMMA BecomesMoves ==
  ASSUME TypeOK, NEW f \in Files, NEW p \in TaskStates, Becomes(f, p)
  PROVE  \E t \in TaskRecords : /\ task' = [task EXCEPT ![f] = t]
                                /\ t.at = p /\ t.target = task[f].target
<1> DEFINE t == [task[f] EXCEPT !.at = p]
<1>1. task[f] \in TaskRecords
  BY DEF TypeOK, TaskRecords
<1>2. t \in TaskRecords /\ t.at = p /\ t.target = task[f].target
  BY <1>1 DEF TaskRecords
<1>3. task' = [task EXCEPT ![f] = t]
  BY DEF Becomes, TypeOK
<1> QED
  BY <1>2, <1>3

\* A task settles on a name.
LEMMA WriteToMoves ==
  ASSUME TypeOK, NEW f \in Files, NEW n \in Names, WriteTo(f, n)
  PROVE  \E t \in TaskRecords : /\ task' = [task EXCEPT ![f] = t]
                                /\ t.at = "write" /\ t.target = n
<1> DEFINE t == [task[f] EXCEPT !.at = "write", !.target = n]
<1>1. task[f] \in TaskRecords
  BY DEF TypeOK, TaskRecords
<1>2. t \in TaskRecords /\ t.at = "write" /\ t.target = n
  BY <1>1 DEF TaskRecords, TaskStates, Working
<1>3. task' = [task EXCEPT ![f] = t]
  BY DEF WriteTo, TypeOK
<1> QED
  BY <1>2, <1>3

\* The counters: untouched, or one of them one higher.
LEMMA TallyCounts ==
  ASSUME TypeOK,
         \/ tally' = [tally EXCEPT !.files = @ + 1]
         \/ tally' = [tally EXCEPT !.skipped = @ + 1]
         \/ tally' = [tally EXCEPT !.errored = @ + 1]
  PROVE  /\ tally' \in [files : Nat, skipped : Nat, errored : Nat]
         /\ Sum(tally') = Sum(tally) + 1
<1>1. tally \in [files : Nat, skipped : Nat, errored : Nat]
  BY DEF TypeOK
<1>2. tally' \in [files : Nat, skipped : Nat, errored : Nat]
  BY <1>1
<1> DEFINE a == tally.files   b == tally.skipped  c == tally.errored
<1>3. a \in Nat /\ b \in Nat /\ c \in Nat
  BY <1>1
<1>4. \/ tally'.files = a + 1 /\ tally'.skipped = b /\ tally'.errored = c
      \/ tally'.files = a /\ tally'.skipped = b + 1 /\ tally'.errored = c
      \/ tally'.files = a /\ tally'.skipped = b /\ tally'.errored = c + 1
  BY <1>1
<1>5. Sum(tally) = a + b + c /\ Sum(tally') = tally'.files + tally'.skipped + tally'.errored
  BY DEF Sum
<1> HIDE DEF a, b, c
<1>6. Sum(tally') = Sum(tally) + 1
  BY <1>3, <1>4, <1>5
<1> QED
  BY <1>2, <1>6

LEMMA TallyStays ==
  ASSUME TypeOK, UNCHANGED tally
  PROVE  tally' \in [files : Nat, skipped : Nat, errored : Nat] /\ Sum(tally') = Sum(tally) + 0
<1>1. tally \in [files : Nat, skipped : Nat, errored : Nat]
  BY DEF TypeOK
<1> DEFINE a == tally.files   b == tally.skipped  c == tally.errored
<1>2. a \in Nat /\ b \in Nat /\ c \in Nat /\ Sum(tally) = a + b + c /\ Sum(tally') = a + b + c
  BY <1>1 DEF Sum
<1> HIDE DEF a, b, c
<1>3. Sum(tally') = Sum(tally) + 0
  BY <1>2
<1> QED
  BY <1>1, <1>3

\* Where a task can go from a collision, and from an error.
LEMMA CollisionMoves ==
  ASSUME IInv, NEW f \in Files, At(f) = "asking", NEW r \in Resolutions, AnswerCollision(f, r)
  PROVE  /\ tally' \in [files : Nat, skipped : Nat, errored : Nat]
         /\ \E t \in TaskRecords :
               /\ Moves(f, t) /\ t.at \in {"write", "skipped", "errored", "aborted", "failed"}
               /\ Sum(tally') = Sum(tally) + IF t.at \in Counted THEN 1 ELSE 0
<1>1. TypeOK /\ f \in Names
  BY FilesAssumption DEF IInv
<1>2. CASE \E n \in Names : WriteTo(f, n) /\ UNCHANGED tally
  <2>1. PICK t \in TaskRecords : task' = [task EXCEPT ![f] = t] /\ t.at = "write" /\ t.target \in Names
    BY <1>1, <1>2, WriteToMoves
  <2>2. Moves(f, t)
    BY <2>1 DEF Moves, Legal, At, Outcomes
  <2>3. t.at \notin Counted
    BY <2>1 DEF Counted
  <2> QED
    BY <1>1, <1>2, <2>1, <2>2, <2>3, TallyStays
<1>3. CASE Becomes(f, "skipped") /\ tally' = [tally EXCEPT !.skipped = @ + 1]
  <2>1. PICK t \in TaskRecords : task' = [task EXCEPT ![f] = t] /\ t.at = "skipped" /\ t.target = task[f].target
    BY <1>1, <1>3, BecomesMoves DEF TaskStates, Outcomes
  <2>2. Moves(f, t)
    BY <2>1 DEF Moves, Legal, At, Outcomes
  <2>3. t.at \in Counted
    BY <2>1 DEF Counted
  <2> QED
    BY <1>1, <1>3, <2>1, <2>2, <2>3, TallyCounts
<1>4. CASE Becomes(f, "aborted") /\ UNCHANGED tally
  <2>1. PICK t \in TaskRecords : task' = [task EXCEPT ![f] = t] /\ t.at = "aborted" /\ t.target = task[f].target
    BY <1>1, <1>4, BecomesMoves DEF TaskStates, Outcomes
  <2>2. Moves(f, t)
    BY <2>1 DEF Moves, Legal, At, Outcomes
  <2>3. t.at \notin Counted
    BY <2>1 DEF Counted
  <2> QED
    BY <1>1, <1>4, <2>1, <2>2, <2>3, TallyStays
<1> QED
  BY <1>1, <1>2, <1>3, <1>4 DEF AnswerCollision, Skip

LEMMA ErrorMoves ==
  ASSUME IInv, NEW f \in Files, At(f) = "erring", NEW r, AnswerError(f, r)
  PROVE  /\ tally' \in [files : Nat, skipped : Nat, errored : Nat]
         /\ \E t \in TaskRecords :
               /\ Moves(f, t) /\ t.at \in {"write", "skipped", "errored", "aborted", "failed"}
               /\ Sum(tally') = Sum(tally) + IF t.at \in Counted THEN 1 ELSE 0
<1>1. TypeOK
  BY DEF IInv
<1>2. CASE Becomes(f, "write") /\ UNCHANGED tally
  <2>1. PICK t \in TaskRecords : task' = [task EXCEPT ![f] = t] /\ t.at = "write" /\ t.target = task[f].target
    BY <1>1, <1>2, BecomesMoves DEF TaskStates, Working
  <2>2. Moves(f, t)
    BY <2>1 DEF Moves, Legal, At, Outcomes
  <2>3. t.at \notin Counted
    BY <2>1 DEF Counted
  <2> QED
    BY <1>1, <1>2, <2>1, <2>2, <2>3, TallyStays
<1>3. CASE Becomes(f, "errored") /\ tally' = [tally EXCEPT !.errored = @ + 1]
  <2>1. PICK t \in TaskRecords : task' = [task EXCEPT ![f] = t] /\ t.at = "errored" /\ t.target = task[f].target
    BY <1>1, <1>3, BecomesMoves DEF TaskStates, Outcomes
  <2>2. Moves(f, t)
    BY <2>1 DEF Moves, Legal, At, Outcomes
  <2>3. t.at \in Counted
    BY <2>1 DEF Counted
  <2> QED
    BY <1>1, <1>3, <2>1, <2>2, <2>3, TallyCounts
<1>4. CASE Becomes(f, "failed") /\ UNCHANGED tally
  <2>1. PICK t \in TaskRecords : task' = [task EXCEPT ![f] = t] /\ t.at = "failed" /\ t.target = task[f].target
    BY <1>1, <1>4, BecomesMoves DEF TaskStates, Outcomes
  <2>2. Moves(f, t)
    BY <2>1 DEF Moves, Legal, At, Outcomes
  <2>3. t.at \notin Counted
    BY <2>1 DEF Counted
  <2> QED
    BY <1>1, <1>4, <2>1, <2>2, <2>3, TallyStays
<1> QED
  BY <1>2, <1>3, <1>4 DEF AnswerError, Absorb

-----------------------------------------------------------------------------
(* The forwarder and the user.                                             *)

\* The names keep_both_path probes are names.
LEMMA FreeNames ==
  ASSUME NEW f \in Files
  PROVE  Free(f) \subseteq Names
<1>1. Suffixed[f] \in Seq(Names)
  BY SuffixedAssumption
<1>2. \A i \in DOMAIN Suffixed[f] : Suffixed[f][i] \in Names
  BY <1>1
<1> QED
  BY <1>2 DEF Free

\* keep_both_path probes the name it returns.
LEMMA FreeIsFree ==
  ASSUME NEW f \in Files, NEW n \in Free(f)
  PROVE  ~Exists(n)
BY DEF Free

\* A rule's answers are resolutions.
LEMMA RuleAnswersResolve ==
  ASSUME TypeOK, NEW f \in Files
  PROVE  RuleAnswers(f) \subseteq Resolutions
<1>1. decided.rule \in RuleResolutions \cup {Unset}
  BY DEF TypeOK
<1>2. Free(f) \subseteq Resolutions
  BY FreeNames DEF Resolutions
<1>3. CASE decided.rule = "newer"
  BY <1>3 DEF RuleAnswers, Resolutions
<1>4. CASE decided.rule = "keep"
  BY <1>2, <1>4 DEF RuleAnswers
<1>5. CASE decided.rule = Unset
  BY <1>5 DEF RuleAnswers, Unset
<1>6. CASE decided.rule \in {"skip", "overwrite"}
  BY <1>6 DEF RuleAnswers, Resolutions, Unset
<1> QED
  BY <1>1, <1>3, <1>4, <1>5, <1>6 DEF RuleResolutions

LEMMA ForwardIInv ==
  ASSUME IInv, Forward
  PROVE  IInv'
<1> DEFINE f == Head(asked)
<1>1. /\ TypeOK /\ Dialogue /\ asked # <<>> /\ peek = Nobody /\ asked' = Tail(asked)
      /\ UNCHANGED <<job, src, dst, walk, disp, ctrl, verdict, decided, faults>>
  BY DEF IInv, Forward
<1>2. f \in Files
  BY <1>1, TailAsked
<1>3. /\ decided \in [all : Resolutions \cup {Unset}, errors : BOOLEAN,
                      rule : RuleResolutions \cup {Unset}]
      /\ peek \in Files \cup {Nobody} /\ pending \subseteq Files
  BY <1>1 DEF TypeOK
<1>4. \/ At(f) = "asking" /\ decided.all # Unset /\ AnswerCollision(f, decided.all) /\ UNCHANGED <<peek, pending>>
      \/ At(f) = "asking" /\ peek' = f /\ UNCHANGED <<task, tally, pending>>
      \/ At(f) = "erring" /\ AnswerError(f, "skip") /\ UNCHANGED <<peek, pending>>
      \/ At(f) = "erring" /\ pending' = pending \cup {f} /\ UNCHANGED <<task, tally, peek>>
  BY DEF Forward
<1>5. CASE At(f) = "asking" /\ decided.all # Unset /\ AnswerCollision(f, decided.all) /\ UNCHANGED <<peek, pending>>
  <2>1. decided.all \in Resolutions
    BY <1>3, <1>5
  <2>2. PICK t \in TaskRecords :
            /\ Moves(f, t) /\ t.at \in {"write", "skipped", "errored", "aborted", "failed"}
            /\ Sum(tally') = Sum(tally) + IF t.at \in Counted THEN 1 ELSE 0
    BY <1>2, <1>5, <2>1, CollisionMoves
  <2>3. tally' \in [files : Nat, skipped : Nat, errored : Nat]
    BY <1>2, <1>5, <2>1, CollisionMoves
  <2>4. Asks'
    <3>1. t.at \notin Parked
      BY <2>2 DEF Parked
    <3> QED
      BY <1>1, <1>5, <2>2, <3>1, AnswerFromChannel
  <2>5. At(f) \in Parked
    BY <1>5 DEF Parked
  <2> HIDE DEF f
  <2>6. peek' \in Files \cup {Nobody} /\ pending' \subseteq Files
    BY <1>3, <1>5
  <2>7. decided' \in [all : Resolutions \cup {Unset}, errors : BOOLEAN, rule : RuleResolutions \cup {Unset}]
    BY <1>1, <1>3
  <2> QED
    BY <1>1, <2>2, <2>3, <2>4, <2>5, <2>6, <2>7, AnswerStep
<1>6. CASE At(f) = "erring" /\ AnswerError(f, "skip") /\ UNCHANGED <<peek, pending>>
  <2>2. PICK t \in TaskRecords :
            /\ Moves(f, t) /\ t.at \in {"write", "skipped", "errored", "aborted", "failed"}
            /\ Sum(tally') = Sum(tally) + IF t.at \in Counted THEN 1 ELSE 0
    BY <1>2, <1>6, ErrorMoves
  <2>3. tally' \in [files : Nat, skipped : Nat, errored : Nat]
    BY <1>2, <1>6, ErrorMoves
  <2>4. Asks'
    <3>1. t.at \notin Parked
      BY <2>2 DEF Parked
    <3> QED
      BY <1>1, <1>6, <2>2, <3>1, AnswerFromChannel
  <2>5. At(f) \in Parked
    BY <1>6 DEF Parked
  <2> HIDE DEF f
  <2>6. peek' \in Files \cup {Nobody} /\ pending' \subseteq Files
    BY <1>3, <1>6
  <2>7. decided' \in [all : Resolutions \cup {Unset}, errors : BOOLEAN, rule : RuleResolutions \cup {Unset}]
    BY <1>1, <1>3
  <2> QED
    BY <1>1, <2>2, <2>3, <2>4, <2>5, <2>6, <2>7, AnswerStep
<1>7. CASE \/ At(f) = "asking" /\ peek' = f /\ UNCHANGED <<task, tally, pending>>
           \/ At(f) = "erring" /\ pending' = pending \cup {f} /\ UNCHANGED <<task, tally, peek>>
  <2>1. Asks'
    BY <1>1, <1>7, HandOn
  <2>2. peek' \in Files \cup {Nobody} /\ pending' \subseteq Files
    BY <1>2, <1>3, <1>7
  <2> HIDE DEF f
  <2>3. TypeOK'
    BY <1>1, <1>7, <2>1, <2>2 DEF TypeOK, Asks
  <2>4. Walks' /\ Verdicts'
    BY <1>1, <1>7 DEF IInv, Walks, Verdicts, At
  <2> QED
    BY <1>1, <1>7, <2>1, <2>3, <2>4, OtherStep DEF Asks
<1> QED
  BY <1>4, <1>5, <1>6, <1>7

LEMMA RegisterIInv ==
  ASSUME IInv, Register
  PROVE  IInv'
<1>1. /\ TypeOK /\ Dialogue /\ peek # Nobody /\ peek' = Nobody
      /\ UNCHANGED <<job, src, dst, walk, disp, ctrl, verdict, asked, decided, faults>>
  BY DEF IInv, Register
<1>2. /\ decided \in [all : Resolutions \cup {Unset}, errors : BOOLEAN,
                      rule : RuleResolutions \cup {Unset}]
      /\ peek \in Files /\ pending \subseteq Files /\ At(peek) = "asking"
  BY <1>1 DEF TypeOK, Dialogue
<1>3. CASE \E r \in RuleAnswers(peek) : AnswerCollision(peek, r) /\ UNCHANGED pending
  <2>1. PICK r \in Resolutions : AnswerCollision(peek, r) /\ UNCHANGED pending
    BY <1>1, <1>2, <1>3, RuleAnswersResolve
  <2>2. PICK t \in TaskRecords :
            /\ Moves(peek, t) /\ t.at \in {"write", "skipped", "errored", "aborted", "failed"}
            /\ Sum(tally') = Sum(tally) + IF t.at \in Counted THEN 1 ELSE 0
    BY <1>2, <2>1, CollisionMoves
  <2>3. tally' \in [files : Nat, skipped : Nat, errored : Nat]
    BY <1>2, <2>1, CollisionMoves
  <2>4. Asks'
    <3>1. t.at \notin Parked
      BY <2>2 DEF Parked
    <3> QED
      BY <1>1, <2>1, <2>2, <3>1, AnswerElsewhere
  <2>5. At(peek) \in Parked
    BY <1>2 DEF Parked
  <2>6. peek' \in Files \cup {Nobody} /\ pending' \subseteq Files
    BY <1>1, <1>2, <2>1
  <2>7. decided' \in [all : Resolutions \cup {Unset}, errors : BOOLEAN, rule : RuleResolutions \cup {Unset}]
    BY <1>1, <1>2
  <2> QED
    BY <1>1, <2>2, <2>3, <2>4, <2>5, <2>6, <2>7, AnswerStep
<1>4. CASE pending' = pending \cup {peek} /\ UNCHANGED <<task, tally>>
  <2>1. Asks'
    BY <1>1, <1>4, HandOn
  <2>2. peek' \in Files \cup {Nobody} /\ pending' \subseteq Files
    BY <1>1, <1>2, <1>4
  <2>3. TypeOK'
    BY <1>1, <1>4, <2>1, <2>2 DEF TypeOK, Asks
  <2>4. Walks' /\ Verdicts'
    BY <1>1, <1>4 DEF IInv, Walks, Verdicts, At
  <2> QED
    BY <1>1, <1>4, <2>1, <2>3, <2>4, OtherStep DEF Asks
<1> QED
  BY <1>3, <1>4 DEF Register

LEMMA UserResolvesIInv ==
  ASSUME IInv, NEW f \in Files, UserResolves(f)
  PROVE  IInv'
<1>1. /\ TypeOK /\ Dialogue /\ f \in pending /\ At(f) = "asking" /\ pending' = pending \ {f}
      /\ UNCHANGED <<job, src, dst, walk, disp, ctrl, verdict, asked, peek, faults>>
  BY DEF IInv, UserResolves
<1>2. PICK r \in Resolutions, all \in BOOLEAN :
          /\ AnswerCollision(f, r)
          /\ decided' = IF all /\ r # "abort" THEN [decided EXCEPT !.all = r] ELSE decided
  BY DEF UserResolves
<1>3. decided \in [all : Resolutions \cup {Unset}, errors : BOOLEAN, rule : RuleResolutions \cup {Unset}]
  BY <1>1 DEF TypeOK
<1>4. decided' \in [all : Resolutions \cup {Unset}, errors : BOOLEAN, rule : RuleResolutions \cup {Unset}]
  BY <1>2, <1>3
<1>5. PICK t \in TaskRecords :
          /\ Moves(f, t) /\ t.at \in {"write", "skipped", "errored", "aborted", "failed"}
          /\ Sum(tally') = Sum(tally) + IF t.at \in Counted THEN 1 ELSE 0
  BY <1>1, <1>2, CollisionMoves
<1>6. tally' \in [files : Nat, skipped : Nat, errored : Nat]
  BY <1>1, <1>2, CollisionMoves
<1>7. Asks'
  <2>1. t.at \notin Parked
    BY <1>5 DEF Parked
  <2> QED
    BY <1>1, <1>5, <2>1, AnswerElsewhere
<1>8. At(f) \in Parked
  BY <1>1 DEF Parked
<1>9. peek' \in Files \cup {Nobody} /\ pending' \subseteq Files
  BY <1>1 DEF TypeOK
<1> QED
  BY <1>1, <1>4, <1>5, <1>6, <1>7, <1>8, <1>9, AnswerStep

LEMMA UserSettlesIInv ==
  ASSUME IInv, NEW f \in Files, UserSettles(f)
  PROVE  IInv'
<1>1. /\ TypeOK /\ Dialogue /\ f \in pending /\ At(f) = "erring" /\ pending' = pending \ {f}
      /\ UNCHANGED <<job, src, dst, walk, disp, ctrl, verdict, asked, peek, faults>>
  BY DEF IInv, UserSettles
<1>2. PICK r \in {"retry", "skip", "abort"}, all \in BOOLEAN :
          /\ AnswerError(f, r)
          /\ decided' = [decided EXCEPT !.errors = @ \/ (all /\ r = "skip")]
  BY DEF UserSettles
<1>3. decided \in [all : Resolutions \cup {Unset}, errors : BOOLEAN, rule : RuleResolutions \cup {Unset}]
  BY <1>1 DEF TypeOK
<1>4. decided' \in [all : Resolutions \cup {Unset}, errors : BOOLEAN, rule : RuleResolutions \cup {Unset}]
  <2> DEFINE e == decided.errors \/ (all /\ r = "skip")
  <2>1. e \in BOOLEAN
    OBVIOUS
  <2>2. decided' = [decided EXCEPT !.errors = e]
    BY <1>2
  <2> HIDE DEF e
  <2> QED
    BY <1>3, <2>1, <2>2
<1>5. PICK t \in TaskRecords :
          /\ Moves(f, t) /\ t.at \in {"write", "skipped", "errored", "aborted", "failed"}
          /\ Sum(tally') = Sum(tally) + IF t.at \in Counted THEN 1 ELSE 0
  BY <1>1, <1>2, ErrorMoves
<1>6. tally' \in [files : Nat, skipped : Nat, errored : Nat]
  BY <1>1, <1>2, ErrorMoves
<1>7. Asks'
  <2>1. t.at \notin Parked
    BY <1>5 DEF Parked
  <2> QED
    BY <1>1, <1>5, <2>1, AnswerElsewhere
<1>8. At(f) \in Parked
  BY <1>1 DEF Parked
<1>9. peek' \in Files \cup {Nobody} /\ pending' \subseteq Files
  BY <1>1 DEF TypeOK
<1> QED
  BY <1>1, <1>4, <1>5, <1>6, <1>7, <1>8, <1>9, AnswerStep

-----------------------------------------------------------------------------
(* The task of a file.                                                     *)

\* What a copy writes is not what was there before.
LEMMA NotBefore ==
  /\ Nothing # Before /\ Mixed # Before
  /\ \A f : Partial(f) # Before /\ Whole(f) # Before /\ Partial(f) # Whole(f)
<1>1. Nothing.is = "nothing" /\ Mixed.is = "mixed" /\ Before.is = "before"
  BY DEF Nothing, Mixed, Before
<1>2. \A f : Partial(f).is = "partial" /\ Whole(f).is = "whole"
  BY DEF Partial, Whole
<1> QED
  BY <1>1, <1>2

\* The task leaves its queue: nothing is written yet.
LEMMA ResolveStep ==
  ASSUME IInv, NEW f \in Files, At(f) = "queued", NEW t \in TaskRecords,
         task' = [task EXCEPT ![f] = t],
         \/ t.at = "write" /\ t.target \in Names
            /\ (job.policy \in {"skip", "keep"} => dst[t.target] # Before)
            /\ UNCHANGED <<tally, asked>>
         \/ t.at = "skipped" /\ t.target = task[f].target
            /\ tally' = [tally EXCEPT !.skipped = @ + 1] /\ UNCHANGED asked
         \/ t.at = "asking" /\ t.target = task[f].target /\ job.policy = "prompt"
            /\ asked' = Append(asked, f) /\ UNCHANGED tally,
         UNCHANGED <<job, src, dst, walk, disp, ctrl, verdict, peek, pending, decided, faults>>
  PROVE  IInv'
<1>1. TypeOK /\ Dialogue /\ Settled
  BY DEF IInv
<1>2. task[f].target = Nobody /\ Nobody \notin Names /\ task[f].at = "queued"
  BY <1>1, TagsAssumption DEF Settled, At
<1>3. Moves(f, t)
  BY <1>2 DEF Moves, Legal, Outcomes
<1>4. At(f) \notin Parked /\ At(f) # "none"
  BY DEF Parked
<1>5. Asks'
  <2>1. CASE t.at \in Parked
    <3>1. asked' = Append(asked, f)
      BY <2>1 DEF Parked
    <3> QED
      BY <1>1, <1>3, <1>4, <2>1, <3>1, AskMove
  <2>2. CASE t.at \notin Parked
    <3>1. UNCHANGED asked
      BY <2>2 DEF Parked
    <3> QED
      BY <1>1, <1>3, <1>4, <2>2, <3>1, QuietMove
  <2> QED
    BY <2>1, <2>2
<1>6. /\ tally' \in [files : Nat, skipped : Nat, errored : Nat]
      /\ Sum(tally') = Sum(tally) + IF t.at \in Counted THEN 1 ELSE 0
  <2>1. CASE t.at = "skipped"
    <3>1. tally' = [tally EXCEPT !.skipped = @ + 1]
      BY <2>1
    <3>2. t.at \in Counted
      BY <2>1 DEF Counted
    <3> QED
      BY <1>1, <3>1, <3>2, TallyCounts
  <2>2. CASE t.at # "skipped"
    <3>1. UNCHANGED tally
      BY <2>2
    <3>2. t.at \notin Counted
      BY <2>2 DEF Counted
    <3> QED
      BY <1>1, <3>1, <3>2, TallyStays
  <2> QED
    BY <2>1, <2>2
<1>7. job.policy \in {"skip", "keep"} =>
         t.at # "asking" /\ (t.target \in Names => dst'[t.target] # Before)
  BY <1>2
<1>8. /\ dst' \in [Names -> Contents] /\ peek' \in Files \cup {Nobody} /\ pending' \subseteq Files
      /\ decided' \in [all : Resolutions \cup {Unset}, errors : BOOLEAN,
                       rule : RuleResolutions \cup {Unset}]
      /\ faults' \in 0..MaxFaults
  BY <1>1 DEF TypeOK
<1> QED
  BY <1>3, <1>4, <1>5, <1>6, <1>7, <1>8, TaskStep

LEMMA ResolveIInv ==
  ASSUME IInv, NEW f \in Files, Resolve(f)
  PROVE  IInv'
<1>1. /\ TypeOK /\ At(f) = "queued" /\ f \in Names
      /\ UNCHANGED <<job, src, dst, walk, disp, ctrl, verdict, peek, pending, decided, faults>>
  BY FilesAssumption DEF IInv, Resolve
<1>2. CASE \E n \in Names : /\ WriteTo(f, n) /\ UNCHANGED <<tally, asked>>
                            /\ job.policy \in {"skip", "keep"} => ~Exists(n)
  <2>1. PICK n \in Names : /\ WriteTo(f, n) /\ UNCHANGED <<tally, asked>>
                           /\ job.policy \in {"skip", "keep"} => ~Exists(n)
    BY <1>2
  <2>2. PICK t \in TaskRecords : task' = [task EXCEPT ![f] = t] /\ t.at = "write" /\ t.target = n
    BY <1>1, <2>1, WriteToMoves
  <2>3. job.policy \in {"skip", "keep"} => dst[t.target] # Before
    BY <2>1, <2>2, NotBefore DEF Exists
  <2> QED
    BY <1>1, <2>1, <2>2, <2>3, ResolveStep
<1>3. CASE Skip(f) /\ UNCHANGED asked
  <2>1. PICK t \in TaskRecords : task' = [task EXCEPT ![f] = t] /\ t.at = "skipped" /\ t.target = task[f].target
    BY <1>1, <1>3, BecomesMoves DEF Skip, TaskStates, Outcomes
  <2>2. tally' = [tally EXCEPT !.skipped = @ + 1]
    BY <1>3 DEF Skip
  <2> QED
    BY <1>1, <1>3, <2>1, <2>2, ResolveStep
<1>4. CASE job.policy = "prompt" /\ Becomes(f, "asking") /\ asked' = Append(asked, f) /\ UNCHANGED tally
  <2>1. PICK t \in TaskRecords : task' = [task EXCEPT ![f] = t] /\ t.at = "asking" /\ t.target = task[f].target
    BY <1>1, <1>4, BecomesMoves DEF TaskStates, Working
  <2> QED
    BY <1>1, <1>4, <2>1, ResolveStep
<1>5. \A n \in Free(f) : n \in Names /\ ~Exists(n)
  BY FreeNames, FreeIsFree
<1>6. job.policy \in Names => job.policy \notin {"skip", "keep"}
  BY TagsAssumption
<1> QED
  BY <1>1, <1>2, <1>3, <1>4, <1>5, <1>6 DEF Resolve

\* The copy works at the name its task settled on, and never puts back what was
\* there before.
LEMMA CopyStep ==
  ASSUME IInv, NEW f \in Files, At(f) \in {"write", "writing"}, NEW t \in TaskRecords,
         task' = [task EXCEPT ![f] = t], t.target = task[f].target,
         NEW v \in Contents \ {Before},
         \/ dst' = dst
         \/ dst' = [dst EXCEPT ![task[f].target] = v],
         t.at \in {"write", "writing", "erring", "done", "errored", "aborted", "failed"},
         t.at = "writing" => At(f) = "write",
         t.at = "done" => At(f) = "writing",
         tally' \in [files : Nat, skipped : Nat, errored : Nat],
         Sum(tally') = Sum(tally) + IF t.at \in Counted THEN 1 ELSE 0,
         asked' = IF t.at = "erring" THEN Append(asked, f) ELSE asked,
         UNCHANGED <<job, src, walk, disp, ctrl, verdict, peek, pending, decided>>,
         faults' \in 0..MaxFaults
  PROVE  IInv'
<1>1. TypeOK /\ Dialogue /\ Settled /\ Keeps
  BY DEF IInv
<1>2. task[f].target \in Names /\ task[f].at \in {"write", "writing"}
  BY <1>1 DEF Settled, At, Targeted
<1>3. Moves(f, t)
  BY <1>2 DEF Moves, Legal, Outcomes, At
<1>4. At(f) \notin Parked /\ At(f) # "none"
  BY DEF Parked
<1>5. Asks'
  <2>1. CASE t.at = "erring"
    <3>1. asked' = Append(asked, f) /\ t.at \in Parked
      BY <2>1 DEF Parked
    <3> QED
      BY <1>1, <1>3, <1>4, <3>1, AskMove
  <2>2. CASE t.at # "erring"
    <3>1. UNCHANGED asked /\ t.at \notin Parked
      BY <2>2 DEF Parked
    <3> QED
      BY <1>1, <1>3, <1>4, <3>1, QuietMove
  <2> QED
    BY <2>1, <2>2
<1>6. dst' \in [Names -> Contents] /\ \A n \in Names : dst[n] # Before => dst'[n] # Before
  <2>1. dst \in [Names -> Contents] /\ v \in Contents /\ v # Before
    BY <1>1 DEF TypeOK
  <2>2. CASE dst' = dst
    BY <2>1, <2>2
  <2>3. CASE dst' = [dst EXCEPT ![task[f].target] = v]
    BY <1>2, <2>1, <2>3
  <2> QED
    BY <2>2, <2>3
<1>7. job.policy \in {"skip", "keep"} =>
         t.at # "asking" /\ (t.target \in Names => dst'[t.target] # Before)
  BY <1>1, <1>2, <1>6 DEF Keeps
<1>8. /\ peek' \in Files \cup {Nobody} /\ pending' \subseteq Files
      /\ decided' \in [all : Resolutions \cup {Unset}, errors : BOOLEAN,
                       rule : RuleResolutions \cup {Unset}]
  BY <1>1 DEF TypeOK
<1> QED
  BY <1>3, <1>4, <1>5, <1>6, <1>7, <1>8, TaskStep

LEMMA OpenIInv ==
  ASSUME IInv, NEW f \in Files, Open(f)
  PROVE  IInv'
<1> DEFINE shared == \E g \in Files \ {f} : At(g) = "writing" /\ task[g].target = task[f].target
           v == IF shared THEN Mixed ELSE Partial(f)
<1>1. /\ TypeOK /\ At(f) = "write" /\ Becomes(f, "writing")
      /\ dst' = [dst EXCEPT ![task[f].target] = v]
      /\ UNCHANGED <<job, src, walk, disp, tally, ctrl, verdict, faults, asked, peek, pending, decided>>
  BY DEF IInv, Open, dialogue
<1>2. PICK t \in TaskRecords : task' = [task EXCEPT ![f] = t] /\ t.at = "writing" /\ t.target = task[f].target
  BY <1>1, BecomesMoves DEF TaskStates, Working
<1>3. v \in Contents \ {Before}
  BY NotBefore DEF Contents
<1>6. t.at \notin Counted
  BY <1>2 DEF Counted
<1>7. faults' \in 0..MaxFaults
  BY <1>1 DEF TypeOK
<1> HIDE DEF v
<1> QED
  BY <1>1, <1>2, <1>3, <1>6, <1>7, TallyStays, CopyStep

LEMMA FinishIInv ==
  ASSUME IInv, NEW f \in Files, Finish(f)
  PROVE  IInv'
<1> DEFINE v == IF dst[task[f].target] = Partial(f) THEN Whole(f) ELSE dst[task[f].target]
<1>1. /\ TypeOK /\ At(f) = "writing" /\ Becomes(f, "done")
      /\ dst' = [dst EXCEPT ![task[f].target] = v]
      /\ tally' = [tally EXCEPT !.files = @ + 1]
      /\ UNCHANGED <<job, src, walk, disp, ctrl, verdict, faults, asked, peek, pending, decided>>
  BY DEF IInv, Finish, dialogue
<1>2. PICK t \in TaskRecords : task' = [task EXCEPT ![f] = t] /\ t.at = "done" /\ t.target = task[f].target
  BY <1>1, BecomesMoves DEF TaskStates, Outcomes
<1>3. task[f].target \in Names /\ dst[task[f].target] \in Contents
  BY <1>1 DEF IInv, Settled, Targeted, TypeOK
<1>6. t.at \in Counted
  BY <1>2 DEF Counted
<1>7. faults' \in 0..MaxFaults
  BY <1>1 DEF TypeOK
<1>8. CASE v \in Contents \ {Before}
  <2> HIDE DEF v
  <2> QED
    BY <1>1, <1>2, <1>6, <1>7, <1>8, TallyCounts, CopyStep
<1>9. CASE v = Before
  <2>1. dst' = dst
    BY <1>1, <1>3, <1>9, NotBefore DEF TypeOK
  <2>2. Nothing \in Contents \ {Before}
    BY NotBefore DEF Contents
  <2> HIDE DEF v
  <2> QED
    BY <1>1, <1>2, <1>6, <1>7, <2>1, <2>2, TallyCounts, CopyStep
<1>10. v \in Contents
  BY <1>3 DEF Contents
<1> QED
  BY <1>8, <1>9, <1>10

LEMMA StopIInv ==
  ASSUME IInv, NEW f \in Files, Stop(f)
  PROVE  IInv'
<1>1. /\ TypeOK /\ At(f) = "writing" /\ Becomes(f, "aborted")
      /\ dst' = [dst EXCEPT ![task[f].target] = Nothing]
      /\ UNCHANGED <<job, src, walk, disp, tally, ctrl, verdict, faults, asked, peek, pending, decided>>
  BY DEF IInv, Stop, dialogue
<1>2. PICK t \in TaskRecords : task' = [task EXCEPT ![f] = t] /\ t.at = "aborted" /\ t.target = task[f].target
  BY <1>1, BecomesMoves DEF TaskStates, Outcomes
<1>3. Nothing \in Contents \ {Before}
  BY NotBefore DEF Contents
<1>4. t.at \notin Counted
  BY <1>2 DEF Counted
<1>5. faults' \in 0..MaxFaults
  BY <1>1 DEF TypeOK
<1> QED
  BY <1>1, <1>2, <1>3, <1>4, <1>5, TallyStays, CopyStep

\* RetryN: the copy is tried again, with one retry less.
LEMMA RetryMoves ==
  ASSUME TypeOK, NEW f \in Files, task[f].left > 0,
         task' = [task EXCEPT ![f].at = "write", ![f].left = @ - 1]
  PROVE  \E t \in TaskRecords : /\ task' = [task EXCEPT ![f] = t]
                                /\ t.at = "write" /\ t.target = task[f].target
<1> DEFINE l == task[f].left
           t == [task[f] EXCEPT !.at = "write", !.left = l - 1]
<1>1. task[f] \in TaskRecords /\ l \in 0..MaxRetries /\ l > 0 /\ MaxRetries \in Nat
  BY BoundsAssumption DEF TypeOK, TaskRecords
<1>2. task' = [task EXCEPT ![f] = t]
  BY DEF TypeOK
<1>3. l - 1 \in 0..MaxRetries
  <2> HIDE DEF l
  <2> QED
    BY <1>1
<1>4. t \in TaskRecords /\ t.at = "write" /\ t.target = task[f].target
  <2> HIDE DEF l
  <2> QED
    BY <1>1, <1>3 DEF TaskRecords, TaskStates, Working
<1> QED
  BY <1>2, <1>4

LEMMA FailIInv ==
  ASSUME IInv, NEW f \in Files, Fail(f)
  PROVE  IInv'
<1>1. /\ TypeOK /\ At(f) \in {"write", "writing"}
      /\ dst' = dst \/ dst' = [dst EXCEPT ![task[f].target] = Nothing]
      /\ UNCHANGED <<job, src, walk, disp, ctrl, verdict, peek, pending, decided>>
  BY DEF IInv, Fail
<1>2. Nothing \in Contents \ {Before}
  BY NotBefore DEF Contents
<1>3. faults' \in 0..MaxFaults
  BY <1>1, BoundsAssumption DEF TypeOK, Fail
<1>4. CASE Becomes(f, "failed") /\ UNCHANGED <<tally, asked>>
  <2>1. PICK t \in TaskRecords : task' = [task EXCEPT ![f] = t] /\ t.at = "failed" /\ t.target = task[f].target
    BY <1>1, <1>4, BecomesMoves DEF TaskStates, Outcomes
  <2>2. t.at \notin Counted
    BY <2>1 DEF Counted
  <2> QED
    BY <1>1, <1>2, <1>3, <1>4, <2>1, <2>2, TallyStays, CopyStep
<1>5. CASE Absorb(f) /\ UNCHANGED asked
  <2>1. PICK t \in TaskRecords : task' = [task EXCEPT ![f] = t] /\ t.at = "errored" /\ t.target = task[f].target
    BY <1>1, <1>5, BecomesMoves DEF Absorb, TaskStates, Outcomes
  <2>2. t.at \in Counted /\ tally' = [tally EXCEPT !.errored = @ + 1]
    BY <1>5, <2>1 DEF Counted, Absorb
  <2> QED
    BY <1>1, <1>2, <1>3, <1>5, <2>1, <2>2, TallyCounts, CopyStep
<1>6. CASE /\ task[f].left > 0 /\ task' = [task EXCEPT ![f].at = "write", ![f].left = @ - 1]
           /\ UNCHANGED <<tally, asked>>
  <2>1. PICK t \in TaskRecords : task' = [task EXCEPT ![f] = t] /\ t.at = "write" /\ t.target = task[f].target
    BY <1>1, <1>6, RetryMoves
  <2>2. t.at \notin Counted
    BY <2>1 DEF Counted
  <2> QED
    BY <1>1, <1>2, <1>3, <1>6, <2>1, <2>2, TallyStays, CopyStep
<1>7. CASE Becomes(f, "erring") /\ asked' = Append(asked, f) /\ UNCHANGED tally
  <2>1. PICK t \in TaskRecords : task' = [task EXCEPT ![f] = t] /\ t.at = "erring" /\ t.target = task[f].target
    BY <1>1, <1>7, BecomesMoves DEF TaskStates, Working
  <2>2. t.at \notin Counted
    BY <2>1 DEF Counted
  <2> QED
    BY <1>1, <1>2, <1>3, <1>7, <2>1, <2>2, TallyStays, CopyStep
<1> QED
  BY <1>4, <1>5, <1>6, <1>7 DEF Fail

-----------------------------------------------------------------------------
(* The walker and the dispatcher.                                          *)

\* A step of the walker or of the drain loop alone.
LEMMA QuietStep ==
  ASSUME IInv, UNCHANGED <<job, src, dst, task, tally, asked, peek, pending>>,
         walk' \in [ahead : SUBSET Files, chan : Seq(Files), closed : BOOLEAN],
         Len(walk'.chan) =< Capacity, Walks',
         disp' \in DispatcherStates, ctrl' \in BOOLEAN,
         verdict' \in [joined : SUBSET Files, aborted : BOOLEAN, error : BOOLEAN, result : Results],
         decided' \in [all : Resolutions \cup {Unset}, errors : BOOLEAN,
                       rule : RuleResolutions \cup {Unset}],
         faults' \in 0..MaxFaults, Verdicts'
  PROVE  IInv'
<1>1. TypeOK'
  BY DEF IInv, TypeOK
<1>2. Dialogue'
  BY DEF IInv, Dialogue, At
<1> QED
  BY <1>1, <1>2, OtherStep

\* The walker's own steps leave the rest alone.
LEMMA WalkStep ==
  ASSUME IInv, UNCHANGED engine,
         walk' \in [ahead : SUBSET Files, chan : Seq(Files), closed : BOOLEAN],
         Len(walk'.chan) =< Capacity, walk.closed => walk'.closed, Walks'
  PROVE  IInv'
<1>1. TypeOK /\ UNCHANGED <<job, src, dst, disp, task, tally, ctrl, verdict, asked, peek, pending, decided, faults>>
  BY DEF IInv, engine
<1>2. Verdicts'
  BY <1>1 DEF IInv, Verdicts, At
<1>3. /\ disp' \in DispatcherStates /\ ctrl' \in BOOLEAN /\ faults' \in 0..MaxFaults
      /\ verdict' \in [joined : SUBSET Files, aborted : BOOLEAN, error : BOOLEAN, result : Results]
      /\ decided' \in [all : Resolutions \cup {Unset}, errors : BOOLEAN,
                       rule : RuleResolutions \cup {Unset}]
  BY <1>1 DEF TypeOK
<1> QED
  BY <1>1, <1>2, <1>3, QuietStep

LEMMA WalkSendIInv ==
  ASSUME IInv, WalkSend
  PROVE  IInv'
<1>1. /\ TypeOK /\ Walks /\ ~walk.closed /\ UNCHANGED engine
      /\ UNCHANGED task
  BY DEF IInv, WalkSend, engine
<1>2. PICK f \in walk.ahead \cap src :
        /\ Len(walk.chan) < Capacity
        /\ walk' = [walk EXCEPT !.ahead = @ \ {f}, !.chan = Append(@, f)]
  BY DEF WalkSend
<1> DEFINE s == walk.chan
           n == Len(walk.chan)
<1>3. walk.ahead \in SUBSET Files /\ s \in Seq(Files) /\ walk.closed \in BOOLEAN /\ f \in Files
  BY <1>1, <1>2 DEF TypeOK
<1>4. /\ walk'.ahead = walk.ahead \ {f} /\ walk'.chan = Append(s, f) /\ walk'.closed = walk.closed
      /\ walk' \in [ahead : SUBSET Files, chan : Seq(Files), closed : BOOLEAN]
  <2> DEFINE r == Append(s, f)
             a == walk.ahead \ {f}
  <2>1. r \in Seq(Files) /\ a \in SUBSET Files
    BY <1>3
  <2>2. /\ walk \in [ahead : SUBSET Files, chan : Seq(Files), closed : BOOLEAN]
        /\ walk' = [walk EXCEPT !.ahead = a, !.chan = r]
    BY <1>1, <1>2 DEF TypeOK
  <2> HIDE DEF r, a
  <2>3. /\ walk'.ahead = a /\ walk'.chan = r /\ walk'.closed = walk.closed
        /\ walk' \in [ahead : SUBSET Files, chan : Seq(Files), closed : BOOLEAN]
    BY <2>1, <2>2
  <2> QED
    BY <2>3 DEF r, a
<1>5. n \in Nat /\ n < Capacity /\ DOMAIN s = 1 .. n
  BY <1>2, <1>3
<1>6. \A j \in 1 .. n : s[j] \in Files /\ s[j] \notin walk.ahead /\ task[s[j]].at = "none"
  BY <1>1, <1>3, <1>5 DEF Walks, At
<1>7. f \in walk.ahead /\ \A g \in walk.ahead : task[g].at = "none"
  BY <1>1, <1>2 DEF Walks, At
<1>8. \A a, b \in 1 .. n : s[a] = s[b] => a = b
  BY <1>1, <1>5 DEF Walks, IsInjective
<1> DEFINE r == walk'.chan
<1>9. /\ Len(r) = n + 1 /\ DOMAIN r = 1 .. n + 1 /\ r[n + 1] = f /\ \A j \in 1 .. n : r[j] = s[j]
  BY <1>3, <1>4
<1>10. Len(walk'.chan) =< Capacity
  BY <1>5, <1>9, BoundsAssumption
<1> HIDE DEF r, s, n
<1>11. \A j \in 1 .. n + 1 : r[j] \notin walk'.ahead /\ task[r[j]].at = "none"
  BY <1>4, <1>5, <1>6, <1>7, <1>9
<1>12. IsInjective(r)
  BY <1>5, <1>6, <1>7, <1>8, <1>9 DEF IsInjective
<1>13. Walks'
  BY <1>1, <1>4, <1>7, <1>9, <1>11, <1>12 DEF Walks, At, r
<1> QED
  BY <1>1, <1>4, <1>10, <1>13, WalkStep

LEMMA WalkPassIInv ==
  ASSUME IInv, WalkPass \/ WalkClose
  PROVE  IInv'
<1>1. TypeOK /\ Walks /\ UNCHANGED engine /\ UNCHANGED task
  BY DEF IInv, WalkPass, WalkClose, engine
<1>2. /\ walk' \in [ahead : SUBSET Files, chan : Seq(Files), closed : BOOLEAN]
      /\ walk'.chan = walk.chan /\ walk'.ahead \subseteq walk.ahead
      /\ walk.closed => walk'.closed
  <2>1. walk \in [ahead : SUBSET Files, chan : Seq(Files), closed : BOOLEAN]
    BY <1>1 DEF TypeOK
  <2>2. CASE WalkPass
    BY <2>1, <2>2 DEF WalkPass
  <2>3. CASE WalkClose
    BY <2>1, <2>3 DEF WalkClose
  <2> QED
    BY <2>2, <2>3
<1>3. Walks'
  BY <1>1, <1>2 DEF Walks, At
<1>4. Len(walk'.chan) =< Capacity
  BY <1>1, <1>2 DEF TypeOK
<1> QED
  BY <1>1, <1>2, <1>3, <1>4, WalkStep

\* The walk ends with an error.
LEMMA WalkFailsIInv ==
  ASSUME IInv, WalkFails
  PROVE  IInv'
<1>1. /\ TypeOK /\ Walks /\ Verdicts /\ ~walk.closed
      /\ UNCHANGED <<job, src, dst, disp, task, tally, ctrl, asked, peek, pending, decided>>
  BY DEF IInv, WalkFails
<1>2. /\ walk' \in [ahead : SUBSET Files, chan : Seq(Files), closed : BOOLEAN]
      /\ walk'.chan = walk.chan /\ walk'.ahead = walk.ahead
  BY <1>1 DEF TypeOK, WalkFails
<1>3. Walks' /\ Len(walk'.chan) =< Capacity
  BY <1>1, <1>2 DEF Walks, At, TypeOK
<1>4. /\ verdict' \in [joined : SUBSET Files, aborted : BOOLEAN, error : BOOLEAN, result : Results]
      /\ verdict'.joined = verdict.joined /\ verdict'.aborted = verdict.aborted
      /\ verdict'.error /\ verdict'.result = verdict.result
  BY <1>1 DEF TypeOK, WalkFails
<1>5. disp \notin {"delete", "returned"} /\ verdict.result # "ok"
  BY <1>1 DEF Verdicts
<1>6. Verdicts'
  BY <1>1, <1>4, <1>5 DEF Verdicts, At
<1>7. faults' \in 0..MaxFaults
  BY <1>1, BoundsAssumption DEF TypeOK, WalkFails
<1>8. /\ disp' \in DispatcherStates /\ ctrl' \in BOOLEAN
      /\ decided' \in [all : Resolutions \cup {Unset}, errors : BOOLEAN,
                       rule : RuleResolutions \cup {Unset}]
  BY <1>1 DEF TypeOK
<1> QED
  BY <1>1, <1>2, <1>3, <1>4, <1>6, <1>7, <1>8, QuietStep

\* The chunk the dispatcher takes: a name without a task, in the channel no more.
LEMMA TailChan ==
  ASSUME TypeOK, Walks, walk.chan # <<>>, walk' = [walk EXCEPT !.chan = Tail(@)]
  PROVE  /\ Head(walk.chan) \in Files /\ At(Head(walk.chan)) = "none"
         /\ walk' \in [ahead : SUBSET Files, chan : Seq(Files), closed : BOOLEAN]
         /\ walk'.closed = walk.closed /\ Len(walk'.chan) =< Capacity
         /\ IsInjective(walk'.chan)
         /\ \A f \in walk'.ahead : f # Head(walk.chan) /\ f \in Files /\ At(f) = "none"
         /\ \A j \in DOMAIN walk'.chan : /\ walk'.chan[j] # Head(walk.chan)
                                         /\ walk'.chan[j] \in Files
                                         /\ walk'.chan[j] \notin walk'.ahead
                                         /\ At(walk'.chan[j]) = "none"
<1> DEFINE s == walk.chan
           r == Tail(s)
<1>1. s \in Seq(Files) /\ IsInjective(s) /\ walk.ahead \in SUBSET Files /\ Len(s) =< Capacity
  BY DEF TypeOK, Walks
<1>2. /\ walk'.chan = r /\ walk'.ahead = walk.ahead /\ walk'.closed = walk.closed
      /\ (r \in Seq(Files) => walk' \in [ahead : SUBSET Files, chan : Seq(Files), closed : BOOLEAN])
  BY DEF TypeOK
<1>3. /\ Head(s) \in Files /\ r \in Seq(Files) /\ IsInjective(r) /\ Len(r) =< Len(s)
      /\ \A j \in DOMAIN r : r[j] # Head(s) /\ \E k \in DOMAIN s : s[k] = r[j]
      /\ \E k \in DOMAIN s : s[k] = Head(s)
  BY <1>1, InjectiveTail
<1>4. \A k \in DOMAIN s : s[k] \in Files /\ s[k] \notin walk.ahead /\ At(s[k]) = "none"
  BY <1>1 DEF Walks
<1>5. \A f \in walk.ahead : At(f) = "none"
  BY DEF Walks
<1>6. Len(r) =< Capacity
  <2>1. Len(r) \in Nat /\ Len(s) \in Nat
    BY <1>1, <1>3
  <2> QED
    BY <1>1, <1>3, <2>1, BoundsAssumption
<1>7. Head(s) \notin walk.ahead /\ At(Head(s)) = "none"
  BY <1>3, <1>4
<1> HIDE DEF s, r
<1>8. \A j \in DOMAIN r : r[j] \in Files /\ r[j] \notin walk.ahead /\ At(r[j]) = "none"
  BY <1>3, <1>4
<1>9. \A f \in walk.ahead : f # Head(s) /\ f \in Files
  BY <1>1, <1>7
<1> QED
  BY <1>2, <1>3, <1>5, <1>6, <1>7, <1>8, <1>9 DEF s

LEMMA DispatchIInv ==
  ASSUME IInv, Dispatch
  PROVE  IInv'
<1> DEFINE f == Head(walk.chan)
<1>1. /\ TypeOK /\ Walks /\ Dialogue /\ Verdicts /\ disp = "receive" /\ walk.chan # <<>>
      /\ walk' = [walk EXCEPT !.chan = Tail(@)]
      /\ UNCHANGED <<job, src, dst, tally, asked, peek, pending, decided>>
  BY DEF IInv, Dispatch, dialogue
<1>2. /\ f \in Files /\ At(f) = "none"
      /\ walk' \in [ahead : SUBSET Files, chan : Seq(Files), closed : BOOLEAN]
      /\ walk'.closed = walk.closed /\ Len(walk'.chan) =< Capacity
      /\ IsInjective(walk'.chan)
      /\ \A g \in walk'.ahead : g # f /\ g \in Files /\ At(g) = "none"
      /\ \A j \in DOMAIN walk'.chan : /\ walk'.chan[j] # f
                                      /\ walk'.chan[j] \in Files
                                      /\ walk'.chan[j] \notin walk'.ahead
                                      /\ At(walk'.chan[j]) = "none"
  BY <1>1, TailChan
<1>3. /\ disp \in DispatcherStates /\ ctrl \in BOOLEAN /\ faults \in 0..MaxFaults
      /\ verdict \in [joined : SUBSET Files, aborted : BOOLEAN, error : BOOLEAN, result : Results]
      /\ decided' \in [all : Resolutions \cup {Unset}, errors : BOOLEAN,
                       rule : RuleResolutions \cup {Unset}]
  BY <1>1 DEF TypeOK
<1>4. \/ disp' = "drain" /\ UNCHANGED <<task, ctrl, verdict, faults>>
      \/ /\ task' = [task EXCEPT ![f] = [Idle EXCEPT !.at = "queued", !.left = Retries]]
         /\ UNCHANGED <<disp, ctrl, verdict, faults>>
      \/ /\ faults < MaxFaults /\ faults' = faults + 1
         /\ verdict' = [verdict EXCEPT !.error = TRUE]
         /\ ctrl' = TRUE /\ UNCHANGED <<disp, task>>
  BY DEF Dispatch
<1> HIDE DEF f
<1>5. CASE disp' = "drain" /\ UNCHANGED <<task, ctrl, verdict, faults>>
  <2>1. Walks'
    BY <1>2, <1>5 DEF Walks, At
  <2>2. Verdicts'
    BY <1>1, <1>2, <1>5 DEF Verdicts, At
  <2>3. disp' \in DispatcherStates
    BY <1>5 DEF DispatcherStates
  <2> QED
    BY <1>1, <1>2, <1>3, <1>5, <2>1, <2>2, <2>3, QuietStep
<1>6. CASE /\ faults < MaxFaults /\ faults' = faults + 1
           /\ verdict' = [verdict EXCEPT !.error = TRUE]
           /\ ctrl' = TRUE /\ UNCHANGED <<disp, task>>
  <2>1. Walks'
    BY <1>2, <1>6 DEF Walks, At
  <2>2. /\ verdict' \in [joined : SUBSET Files, aborted : BOOLEAN, error : BOOLEAN, result : Results]
        /\ verdict'.joined = verdict.joined /\ verdict'.aborted = verdict.aborted
        /\ verdict'.error /\ verdict'.result = verdict.result
    BY <1>3, <1>6
  <2>3. Verdicts'
    BY <1>1, <1>2, <1>6, <2>2 DEF Verdicts, At
  <2>4. faults' \in 0..MaxFaults
    BY <1>3, <1>6, BoundsAssumption
  <2> QED
    BY <1>1, <1>2, <1>3, <1>6, <2>1, <2>2, <2>3, <2>4, QuietStep
<1>7. CASE /\ task' = [task EXCEPT ![f] = [Idle EXCEPT !.at = "queued", !.left = Retries]]
           /\ UNCHANGED <<disp, ctrl, verdict, faults>>
  <2> DEFINE t == [Idle EXCEPT !.at = "queued", !.left = Retries]
  <2>1. Idle \in TaskRecords /\ Idle.target = Nobody
    BY BoundsAssumption DEF Idle, TaskRecords, TaskStates
  <2>2. task' = [task EXCEPT ![f] = t]
    BY <1>7
  <2>3. Retries \in 0..MaxRetries
    BY BoundsAssumption DEF Retries
  <2>4. t \in TaskRecords /\ t.at = "queued" /\ t.target = Nobody
    BY <2>1, <2>3 DEF TaskRecords, TaskStates
  <2> HIDE DEF t
  <2>5. task[f].at = "none" /\ task[f].target = Nobody
    BY <1>2 DEF IInv, Settled, At
  <2>6. Moves(f, t)
    BY <1>2, <2>2, <2>4, <2>5 DEF Moves, Legal, Outcomes
  <2>7. task' \in [Files -> TaskRecords] /\ \A g \in Files \ {f} : task'[g] = task[g]
    BY <1>1, <2>6, MoveTasks
  <2>8. Walks'
    BY <1>2, <2>7 DEF Walks, At
  <2>9. Asks'
    <3>1. At(f) \notin Parked /\ t.at \notin Parked
      BY <1>2, <2>4 DEF Parked
    <3> QED
      BY <1>1, <2>6, <3>1, QuietMove
  <2>10. TypeOK'
    BY <1>1, <1>2, <1>7, <2>7, <2>9 DEF TypeOK, TaskRecords, Asks
  <2>11. Settled' /\ Keeps' /\ Counts' /\ Verdicts'
    <3>1. Settled'
      BY <1>1, <2>6, SettledMove DEF IInv
    <3>3. Keeps'
      <4>1. job.policy \in {"skip", "keep"} =>
               t.at # "asking" /\ (t.target \in Names => dst'[t.target] # Before)
        BY <2>4, TagsAssumption
      <4> QED
        BY <1>1, <2>6, <4>1, KeepsMove DEF IInv
    <3>4. Counts'
      <4>1. t.at \notin Counted
        BY <2>4 DEF Counted
      <4> QED
        BY <1>1, <2>6, <4>1, TallyStays, CountsMove DEF IInv
    <3>5. Verdicts'
      BY <1>1, <1>2, <1>7, <2>6, VerdictsMove
    <3> QED
      BY <3>1, <3>3, <3>4, <3>5
  <2> QED
    BY <2>8, <2>9, <2>10, <2>11 DEF IInv, Asks
<1> QED
  BY <1>4, <1>5, <1>6, <1>7

\* The drain loop: a task is joined when it has ended.
LEMMA JoinIInv ==
  ASSUME IInv, NEW f \in Files, Join(f)
  PROVE  IInv'
<1>1. /\ TypeOK /\ Verdicts /\ disp = "drain" /\ Finished(f)
      /\ UNCHANGED <<job, src, dst, walk, disp, task, tally, faults, asked, peek, pending, decided>>
  BY DEF IInv, Join, dialogue
<1> DEFINE j == verdict.joined \cup {f}
           a == verdict.aborted \/ At(f) = "aborted"
           e == verdict.error \/ At(f) = "failed"
<1>2. /\ verdict \in [joined : SUBSET Files, aborted : BOOLEAN, error : BOOLEAN, result : Results]
      /\ verdict' = [verdict EXCEPT !.joined = j, !.aborted = a, !.error = e]
  BY <1>1 DEF Join, TypeOK
<1>3. j \in SUBSET Files /\ a \in BOOLEAN /\ e \in BOOLEAN
  BY <1>2
<1>4. /\ verdict.aborted => a
      /\ At(f) = "aborted" => a
      /\ verdict.error => e
      /\ At(f) = "failed" => e
      /\ \A g \in j : g = f \/ g \in verdict.joined
      /\ verdict.joined \subseteq j
  OBVIOUS
<1> HIDE DEF j, a, e
<1>5. /\ verdict' \in [joined : SUBSET Files, aborted : BOOLEAN, error : BOOLEAN, result : Results]
      /\ verdict'.joined = j /\ verdict'.aborted = a /\ verdict'.error = e
      /\ verdict'.result = verdict.result
  BY <1>2, <1>3
<1>6. \A g \in verdict'.joined :
         /\ task'[g].at \in Outcomes
         /\ task'[g].at = "aborted" => verdict'.aborted
         /\ task'[g].at = "failed" => verdict'.error
  BY <1>1, <1>4, <1>5 DEF Verdicts, At, Finished
<1>7. verdict'.result # "ok" /\ disp' = "drain"
  BY <1>1, <1>5 DEF Verdicts
<1>8. Verdicts'
  BY <1>6, <1>7 DEF Verdicts, At
<1>9. ctrl' \in BOOLEAN
  BY DEF Join
<1>10. /\ walk' \in [ahead : SUBSET Files, chan : Seq(Files), closed : BOOLEAN]
       /\ Len(walk'.chan) =< Capacity /\ Walks'
       /\ disp' \in DispatcherStates /\ faults' \in 0..MaxFaults
       /\ decided' \in [all : Resolutions \cup {Unset}, errors : BOOLEAN,
                        rule : RuleResolutions \cup {Unset}]
  BY <1>1 DEF IInv, TypeOK, Walks, At
<1> QED
  BY <1>1, <1>5, <1>8, <1>9, <1>10, QuietStep

\* The dispatcher goes on: the walk has ended, or every task is joined.
LEMMA GoesOnIInv ==
  ASSUME IInv, WalkEnded \/ Drained
  PROVE  IInv'
<1>1. /\ TypeOK /\ Verdicts
      /\ UNCHANGED <<job, src, dst, walk, task, tally, ctrl, verdict, faults, asked, peek, pending, decided>>
      /\ \/ disp = "receive" /\ disp' = "drain"
         \/ /\ disp = "drain" /\ disp' = "walker"
            /\ \A f \in Files : At(f) # "none" => f \in verdict.joined
  BY DEF IInv, WalkEnded, Drained, dialogue
<1>2. Verdicts'
  BY <1>1 DEF Verdicts, At
<1>3. disp' \in DispatcherStates
  BY <1>1 DEF DispatcherStates
<1>4. /\ walk' \in [ahead : SUBSET Files, chan : Seq(Files), closed : BOOLEAN]
      /\ Len(walk'.chan) =< Capacity /\ Walks' /\ ctrl' \in BOOLEAN
      /\ verdict' \in [joined : SUBSET Files, aborted : BOOLEAN, error : BOOLEAN, result : Results]
      /\ faults' \in 0..MaxFaults
      /\ decided' \in [all : Resolutions \cup {Unset}, errors : BOOLEAN,
                       rule : RuleResolutions \cup {Unset}]
  BY <1>1 DEF IInv, TypeOK, Walks, At
<1> QED
  BY <1>1, <1>2, <1>3, <1>4, QuietStep

LEMMA ConcludeIInv ==
  ASSUME IInv, Conclude
  PROVE  IInv'
<1> DEFINE result == IF verdict.error THEN "failed"
                     ELSE IF verdict.aborted \/ ctrl THEN "cancelled" ELSE "ok"
           deletes == result = "ok" /\ job.kind = "move"
<1>1. /\ TypeOK /\ Verdicts /\ disp = "walker" /\ walk.closed
      /\ UNCHANGED <<job, src, dst, walk, task, tally, ctrl, faults, asked, peek, pending>>
      /\ disp' = IF deletes THEN "delete" ELSE "returned"
      /\ verdict' = [verdict EXCEPT !.result = IF deletes THEN @ ELSE result]
      /\ decided' = IF deletes THEN decided
                    ELSE [decided EXCEPT !.all = Unset, !.rule = Unset]
  BY DEF IInv, Conclude
<1>2. /\ verdict \in [joined : SUBSET Files, aborted : BOOLEAN, error : BOOLEAN, result : Results]
      /\ decided \in [all : Resolutions \cup {Unset}, errors : BOOLEAN,
                      rule : RuleResolutions \cup {Unset}]
  BY <1>1 DEF TypeOK
<1>3. result \in Results /\ (result = "ok" => ~verdict.error /\ ~verdict.aborted)
  BY DEF Results
<1>4. verdict.result # "ok" /\ \A f \in Files : At(f) # "none" => f \in verdict.joined
  BY <1>1 DEF Verdicts
<1>5. deletes => result = "ok"
  OBVIOUS
<1> HIDE DEF result, deletes
<1>6. /\ verdict' \in [joined : SUBSET Files, aborted : BOOLEAN, error : BOOLEAN, result : Results]
      /\ verdict'.joined = verdict.joined /\ verdict'.aborted = verdict.aborted
      /\ verdict'.error = verdict.error
      /\ verdict'.result = IF deletes THEN verdict.result ELSE result
  BY <1>1, <1>2, <1>3
<1>7. decided' \in [all : Resolutions \cup {Unset}, errors : BOOLEAN,
                    rule : RuleResolutions \cup {Unset}]
  BY <1>1, <1>2
<1>8. disp' \in DispatcherStates /\ disp' \in {"delete", "returned"}
  BY <1>1 DEF DispatcherStates
<1>9. /\ disp' = "delete" => ~verdict'.error /\ ~verdict'.aborted
      /\ verdict'.result = "ok" => disp' = "returned" /\ ~verdict'.error /\ ~verdict'.aborted
  BY <1>1, <1>3, <1>4, <1>5, <1>6
<1>10. Verdicts'
  BY <1>1, <1>4, <1>6, <1>9 DEF Verdicts, At
<1>11. /\ walk' \in [ahead : SUBSET Files, chan : Seq(Files), closed : BOOLEAN]
       /\ Len(walk'.chan) =< Capacity /\ Walks' /\ ctrl' \in BOOLEAN /\ faults' \in 0..MaxFaults
  BY <1>1 DEF IInv, TypeOK, Walks, At
<1> QED
  BY <1>1, <1>6, <1>7, <1>8, <1>10, <1>11, QuietStep

\* The deletion ends, whole or on its first error.
LEMMA DeleteEndsIInv ==
  ASSUME IInv, DeleteEnds
  PROVE  IInv'
<1>1. /\ TypeOK /\ Verdicts /\ disp = "delete" /\ disp' = "returned"
      /\ UNCHANGED <<job, src, dst, walk, task, tally, ctrl, asked, peek, pending>>
      /\ decided' = [decided EXCEPT !.all = Unset, !.rule = Unset]
      /\ \/ verdict' = [verdict EXCEPT !.result = "ok"] /\ UNCHANGED faults
         \/ /\ faults < MaxFaults /\ faults' = faults + 1
            /\ verdict' = [verdict EXCEPT !.result = "failed"]
  BY DEF IInv, DeleteEnds
<1>2. verdict \in [joined : SUBSET Files, aborted : BOOLEAN, error : BOOLEAN, result : Results]
  BY <1>1 DEF TypeOK
<1>3. /\ verdict' \in [joined : SUBSET Files, aborted : BOOLEAN, error : BOOLEAN, result : Results]
      /\ verdict'.joined = verdict.joined /\ verdict'.aborted = verdict.aborted
      /\ verdict'.error = verdict.error
  <2>1. CASE verdict' = [verdict EXCEPT !.result = "ok"]
    BY <1>2, <2>1 DEF Results
  <2>2. CASE verdict' = [verdict EXCEPT !.result = "failed"]
    BY <1>2, <2>2 DEF Results
  <2> QED
    BY <1>1, <2>1, <2>2
<1>4. decided' \in [all : Resolutions \cup {Unset}, errors : BOOLEAN,
                    rule : RuleResolutions \cup {Unset}]
  BY <1>1 DEF TypeOK
<1>5. faults' \in 0..MaxFaults
  BY <1>1, BoundsAssumption DEF TypeOK
<1>6. Verdicts'
  BY <1>1, <1>3 DEF Verdicts, At
<1>7. /\ walk' \in [ahead : SUBSET Files, chan : Seq(Files), closed : BOOLEAN]
      /\ Len(walk'.chan) =< Capacity /\ Walks' /\ ctrl' \in BOOLEAN
      /\ disp' \in DispatcherStates
  BY <1>1 DEF IInv, TypeOK, Walks, At, DispatcherStates
<1> QED
  BY <1>1, <1>3, <1>4, <1>5, <1>6, <1>7, QuietStep

\* The source, the control and the rules: nothing the invariant relates.
LEMMA AroundIInv ==
  ASSUME IInv, Unlink \/ Appear \/ AddRule \/ Cancel \/ UNCHANGED vars
  PROVE  IInv'
<1>1. /\ TypeOK
      /\ UNCHANGED <<job, dst, walk, disp, task, tally, verdict, faults, asked, peek, pending>>
  BY DEF IInv, Unlink, Appear, AddRule, Cancel, vars, dialogue
<1>2. src' \subseteq Files
  BY <1>1 DEF TypeOK, Unlink, Appear, AddRule, Cancel, vars
<1>3. ctrl' \in BOOLEAN
  BY <1>1 DEF TypeOK, Unlink, Appear, AddRule, Cancel, vars
<1>4. decided' \in [all : Resolutions \cup {Unset}, errors : BOOLEAN,
                    rule : RuleResolutions \cup {Unset}]
  <2>1. decided \in [all : Resolutions \cup {Unset}, errors : BOOLEAN,
                     rule : RuleResolutions \cup {Unset}]
    BY <1>1 DEF TypeOK
  <2>2. CASE AddRule
    BY <2>1, <2>2 DEF AddRule
  <2>3. CASE UNCHANGED decided
    BY <2>1, <2>3
  <2> QED
    BY <2>2, <2>3 DEF Unlink, Appear, Cancel, vars, dialogue
<1>5. TypeOK'
  BY <1>1, <1>2, <1>3, <1>4 DEF TypeOK
<1>6. Walks' /\ Dialogue' /\ Verdicts'
  BY <1>1 DEF IInv, Walks, Dialogue, Verdicts, At
<1> QED
  BY <1>1, <1>5, <1>6, OtherStep

-----------------------------------------------------------------------------
(* The invariant and the theorems.                                         *)

LEMMA InitIInv ==
  ASSUME Init
  PROVE  IInv
<1>1. /\ src \subseteq Files /\ dst \in [Names -> {Nothing, Before}] /\ disp = "receive"
      /\ walk = [ahead |-> Files, chan |-> <<>>, closed |-> FALSE]
      /\ task = [f \in Files |-> Idle] /\ tally = [files |-> 0, skipped |-> 0, errored |-> 0]
      /\ ctrl = FALSE /\ asked = <<>> /\ peek = Nobody /\ pending = {} /\ faults = 0
      /\ verdict = [joined |-> {}, aborted |-> FALSE, error |-> FALSE, result |-> "none"]
      /\ decided = [all |-> Unset, errors |-> FALSE, rule |-> Unset]
  BY DEF Init
<1>2. \A f \in Files : At(f) = "none" /\ task[f].target = Nobody
  BY <1>1 DEF At, Idle
<1>3. TypeOK
  <2>1. job \in [kind : Kinds, policy : Policies, onError : ErrorPolicies]
    BY DEF Init
  <2>2. dst \in [Names -> Contents]
    BY <1>1 DEF Contents
  <2>3. /\ walk \in [ahead : SUBSET Files, chan : Seq(Files), closed : BOOLEAN]
        /\ Len(walk.chan) =< Capacity
    BY <1>1, BoundsAssumption
  <2>4. task \in [Files -> [at : TaskStates, target : Names \cup {Nobody}, left : 0..MaxRetries]]
    BY <1>1, BoundsAssumption DEF Idle, TaskStates
  <2>5. tally \in [files : Nat, skipped : Nat, errored : Nat] /\ faults \in 0..MaxFaults
    BY <1>1, BoundsAssumption
  <2>6. verdict \in [joined : SUBSET Files, aborted : BOOLEAN, error : BOOLEAN, result : Results]
    BY <1>1 DEF Results
  <2>7. asked \in Seq(Files) /\ IsInjective(asked)
    BY <1>1 DEF IsInjective
  <2>8. decided \in [all : Resolutions \cup {Unset}, errors : BOOLEAN,
                     rule : RuleResolutions \cup {Unset}]
    BY <1>1
  <2> QED
    BY <1>1, <2>1, <2>2, <2>3, <2>4, <2>5, <2>6, <2>7, <2>8 DEF TypeOK, DispatcherStates
<1>4. Walks
  BY <1>1, <1>2 DEF Walks, IsInjective
<1>5. Dialogue
  BY <1>1, <1>2 DEF Dialogue, Parked
<1>6. Settled
  BY <1>2 DEF Settled, Targeted
<1>8. Keeps
  BY <1>2, TagsAssumption DEF Keeps
<1>9. Counts
  <2>1. {f \in Files : At(f) \in Counted} = {}
    BY <1>2 DEF Counted
  <2>2. tally.files + tally.skipped + tally.errored = 0
    BY <1>1
  <2> QED
    BY <2>1, <2>2, FS_EmptySet DEF Counts
<1>10. Verdicts
  BY <1>1, <1>2 DEF Verdicts
<1> QED
  BY <1>3, <1>4, <1>5, <1>6, <1>8, <1>9, <1>10 DEF IInv

LEMMA NextIInv ==
  ASSUME IInv, [Next]_vars
  PROVE  IInv'
<1>1. CASE WalkSend \/ WalkPass \/ WalkClose \/ WalkFails
  BY <1>1, WalkSendIInv, WalkPassIInv, WalkFailsIInv
<1>2. CASE Dispatch \/ WalkEnded \/ Drained \/ Conclude
  BY <1>2, DispatchIInv, GoesOnIInv, ConcludeIInv
<1>3. ASSUME NEW f \in Files, Task(f) PROVE IInv'
  BY <1>3, ResolveIInv, OpenIInv, FinishIInv, StopIInv, FailIInv DEF Task
<1>4. ASSUME NEW f \in Files, Join(f) \/ UserResolves(f) \/ UserSettles(f) PROVE IInv'
  BY <1>4, JoinIInv, UserResolvesIInv, UserSettlesIInv
<1>5. CASE Forward \/ Register
  BY <1>5, ForwardIInv, RegisterIInv
<1>6. CASE DeleteEnds
  BY <1>6, DeleteEndsIInv
<1>7. CASE Unlink \/ Appear \/ AddRule \/ Cancel \/ UNCHANGED vars
  BY <1>7, AroundIInv
<1> QED
  BY <1>1, <1>2, <1>3, <1>4, <1>5, <1>6, <1>7 DEF Next, Rest

\* IInv implies what the report says.
LEMMA IInvReportAddsUp ==
  ASSUME IInv
  PROVE  ReportAddsUp
<1> SUFFICES ASSUME verdict.result = "ok"
             PROVE  LET spawned == {f \in Files : At(f) # "none"} IN
                      /\ \A f \in spawned : At(f) \in {"done", "skipped", "errored"}
                      /\ tally.files + tally.skipped + tally.errored = Cardinality(spawned)
  BY DEF ReportAddsUp
<1>1. /\ disp = "returned" /\ ~verdict.error /\ ~verdict.aborted
      /\ \A f \in Files : At(f) # "none" => f \in verdict.joined
  BY DEF IInv, Verdicts
<1>2. \A f \in Files : At(f) # "none" => At(f) \in Counted
  BY <1>1 DEF IInv, Verdicts, Outcomes, Counted
<1>3. {f \in Files : At(f) # "none"} = {f \in Files : At(f) \in Counted}
  BY <1>2 DEF Counted
<1>4. tally.files + tally.skipped + tally.errored = Cardinality({f \in Files : At(f) \in Counted})
  BY DEF IInv, Counts
<1> QED
  BY <1>2, <1>3, <1>4 DEF Counted

\* IInv puts every parked task in one place.
LEMMA IInvParked ==
  ASSUME IInv
  PROVE  ParkedIsAnswerable
<1> SUFFICES ASSUME NEW f \in Files
             PROVE  Cardinality({<<"asked", i>> : i \in {j \in DOMAIN asked : asked[j] = f}}
                                \cup (IF peek = f THEN {<<"peek">>} ELSE {})
                                \cup (IF f \in pending THEN {<<"pending">>} ELSE {}))
                      = IF At(f) \in {"asking", "erring"} THEN 1 ELSE 0
  BY DEF ParkedIsAnswerable
<1> DEFINE chan == {<<"asked", i>> : i \in {j \in DOMAIN asked : asked[j] = f}}
           places == chan \cup (IF peek = f THEN {<<"peek">>} ELSE {})
                          \cup (IF f \in pending THEN {<<"pending">>} ELSE {})
<1>1. TypeOK /\ Dialogue /\ Parked = {"asking", "erring"} /\ f # Nobody
  BY FilesAssumption, TagsAssumption DEF IInv, Parked
<1>2. CASE \E j \in DOMAIN asked : asked[j] = f
  <2>1. PICK k \in DOMAIN asked : asked[k] = f
    BY <1>2
  <2>2. At(f) \in Parked /\ f # peek /\ f \notin pending
    BY <1>1, <2>1 DEF Dialogue
  <2>3. {j \in DOMAIN asked : asked[j] = f} = {k}
    BY <1>1, <2>1 DEF TypeOK, IsInjective
  <2>4. places = {<<"asked", k>>}
    BY <2>2, <2>3
  <2> QED
    BY <1>1, <2>2, <2>4, FS_Singleton
<1>3. CASE ~\E j \in DOMAIN asked : asked[j] = f
  <2>1. chan = {}
    BY <1>3
  <2>2. CASE peek = f
    <3>1. At(f) \in Parked /\ f \notin pending
      BY <1>1, <2>2 DEF Dialogue
    <3>2. places = {<<"peek">>}
      BY <2>1, <2>2, <3>1
    <3> QED
      BY <1>1, <3>1, <3>2, FS_Singleton
  <2>3. CASE f \in pending
    <3>1. At(f) \in Parked /\ f # peek
      BY <1>1, <2>3 DEF Dialogue
    <3>2. places = {<<"pending">>}
      BY <2>1, <2>3, <3>1
    <3> QED
      BY <1>1, <3>1, <3>2, FS_Singleton
  <2>4. CASE peek # f /\ f \notin pending
    <3>1. At(f) \notin Parked
      BY <1>1, <1>3, <2>4 DEF Dialogue
    <3>2. places = {}
      BY <2>1, <2>4
    <3> QED
      BY <1>1, <3>1, <3>2, FS_EmptySet
  <2> QED
    BY <2>2, <2>3, <2>4
<1> QED
  BY <1>2, <1>3

\* The variables of a tree copy keep their types, and the retries of a task
\* never run below zero.
THEOREM TypeCorrect == Spec => []TypeOK
<1>1. IInv => TypeOK
  BY DEF IInv
<1> QED
  BY <1>1, InitIInv, NextIInv, PTL DEF Spec

\* A job that reports success has joined every task it spawned, and counts each
\* exactly once, for any number of files and concurrent tasks.
THEOREM ReportsAddUp == Spec => []ReportAddsUp
<1> QED
  BY IInvReportAddsUp, InitIInv, NextIInv, PTL DEF Spec

\* The forwarder loses no question and answers none twice: every parked task is
\* in exactly one of the channel, the forwarder's hands and the registry.
THEOREM ParkedTasksAreAnswerable == Spec => []ParkedIsAnswerable
<1> QED
  BY IInvParked, InitIInv, NextIInv, PTL DEF Spec

\* Under Skip and KeepBoth no step touches a file that was there before the job.
THEOREM FilesBeforeAreKept == Spec => BeforeIsKept
<1>1. ASSUME IInv, [Next]_vars
      PROVE  job.policy \in {"skip", "keep"} =>
                \A n \in Names : dst[n] = Before => dst'[n] = Before
  <2> SUFFICES ASSUME job.policy \in {"skip", "keep"}, NEW n \in Names, dst[n] = Before
               PROVE  dst'[n] = Before
    OBVIOUS
  <2>1. TypeOK /\ Keeps /\ Settled
    BY <1>1 DEF IInv
  <2>2. ASSUME NEW f \in Files, At(f) \in {"write", "writing"}
        PROVE  task[f].target \in Names /\ task[f].target # n
    BY <2>1, <2>2 DEF Settled, Keeps, Targeted
  <2>3. ASSUME NEW f \in Files, Task(f) PROVE dst'[n] = dst[n]
    <3>1. CASE Resolve(f)
      BY <3>1 DEF Resolve
    <3>2. CASE Open(f)
      BY <2>1, <2>2, <3>2 DEF Open, TypeOK
    <3>3. CASE Finish(f)
      BY <2>1, <2>2, <3>3 DEF Finish, TypeOK
    <3>4. CASE Stop(f)
      BY <2>1, <2>2, <3>4 DEF Stop, TypeOK
    <3>5. CASE Fail(f)
      BY <2>1, <2>2, <3>5 DEF Fail, TypeOK
    <3> QED
      BY <2>3, <3>1, <3>2, <3>3, <3>4, <3>5 DEF Task
  <2>4. ASSUME NEW f \in Files, Join(f) \/ UserResolves(f) \/ UserSettles(f) PROVE dst' = dst
    BY <2>4 DEF Join, UserResolves, UserSettles
  <2>5. CASE \/ WalkSend \/ WalkPass \/ WalkClose \/ WalkFails
             \/ Dispatch \/ WalkEnded \/ Drained \/ Conclude \/ Unlink \/ DeleteEnds
    BY <2>5 DEF WalkSend, WalkPass, WalkClose, WalkFails, Dispatch, WalkEnded, Drained,
                Conclude, Unlink, DeleteEnds, engine
  <2>6. CASE Forward \/ Register \/ AddRule \/ Cancel \/ Appear \/ Rest \/ UNCHANGED vars
    BY <2>6 DEF Forward, Register, AddRule, Cancel, Appear, Rest, vars
  <2> QED
    BY <1>1, <2>3, <2>4, <2>5, <2>6 DEF Next
<1> QED
  BY <1>1, InitIInv, NextIInv, PTL DEF Spec, BeforeIsKept
=============================================================================
