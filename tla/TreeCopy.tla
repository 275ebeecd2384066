------------------------------- MODULE TreeCopy -------------------------------
(*****************************************************************************)
(* A tree copy or move of freally-core (tree.rs, collision.rs) as the        *)
(* desktop runner drives it (runner.rs, collisions.rs, errors.rs).           *)
(*                                                                           *)
(* A walker streams the files of the source through a bounded channel; a     *)
(* dispatcher spawns one task per file; at most Concurrency tasks hold a     *)
(* permit.  A task settles a collision with an existing destination, then    *)
(* copies, and may park on a question to the user.  The questions of all     *)
(* the tasks go through one forwarder, which answers from what the user      *)
(* already decided or registers a prompt.  A move that could not rename      *)
(* deletes the source once the copy has returned.                            *)
(*                                                                           *)
(* A file is its name, and a chunk of the walk is one file: the directories  *)
(* of a chunk are what Dispatch may fail to create.  Symlinks, directory     *)
(* times and pausing are left out (CopyControl models pausing).              *)
(*****************************************************************************)
EXTENDS Naturals, Sequences, FiniteSets, Functions

CONSTANTS
    Names,          \* file names of the destination directory
    Files,          \* the names the source may hold
    Suffixed,       \* Suffixed[f]: the names keep_both_path probes, in order
    Policies,       \* the collision policies a job may run under; a name n is Rename(n)
    ErrorPolicies,  \* the error policies a job may run under
    Kinds,          \* the kinds of job: "copy", "move"
    Concurrency,    \* TreeOptions::clamped_concurrency
    Capacity,       \* of the walker's channel: 2 chunks, or 1024 scan items
    MaxRetries,     \* RetryN's max_attempts
    MaxFaults       \* bound on the copies that fail

ASSUME FilesAssumption == Files \subseteq Names /\ IsFiniteSet(Files)
ASSUME SuffixedAssumption == Suffixed \in [Files -> Seq(Names)]
ASSUME PoliciesAssumption ==
    /\ Policies \subseteq {"skip", "overwrite", "newer", "keep", "prompt"} \cup Names
    /\ ErrorPolicies \subseteq {"abort", "skip", "retry", "ask"}
    /\ Kinds \subseteq {"copy", "move"}
ASSUME BoundsAssumption ==
    /\ Concurrency \in Nat \ {0} /\ Capacity \in Nat \ {0}
    /\ MaxRetries \in Nat /\ MaxFaults \in Nat

VARIABLES
    job,      \* the job's options: kind, collision policy, error policy
    src,      \* the files the source holds
    dst,      \* what each name of the destination holds
    walk,     \* the walker: the names ahead of it, its channel, has it closed
    disp,     \* the dispatcher's place in copy_tree_inner
    task,     \* per file: where its task is, where it writes, what it has left
    tally,    \* files, skipped, errored: the report's counters
    ctrl,     \* has the job's CopyControl been cancelled
    verdict,  \* the drain loop: tasks joined, aborted, first_error; the result
    asked,    \* the events the forwarder has not yet handled, in order
    peek,     \* the collision the forwarder is reading the metadata of, or Nobody
    pending,  \* the registered prompts: files whose task waits for the user
    decided,  \* what the user said of every collision, every error, by rule
    faults    \* copies that failed so far

vars == <<job, src, dst, walk, disp, task, tally, ctrl, verdict, asked, peek,
          pending, decided, faults>>

-------------------------------------------------------------------------------
(*****************************************************************************)
(* What a destination name holds: nothing, the file that was there before,   *)
(* a file being written, a whole copy, or the interleaved writes of two.     *)
(*****************************************************************************)
Nothing == [is |-> "nothing", of |-> {}]
Before  == [is |-> "before", of |-> {}]
Partial(f) == [is |-> "partial", of |-> {f}]
Whole(f)   == [is |-> "whole", of |-> {f}]
Mixed      == [is |-> "mixed", of |-> {}]

Contents == {Nothing, Before, Mixed} \cup
            {Partial(f) : f \in Files} \cup {Whole(f) : f \in Files}

Nobody == "nobody"
Exists(n) == dst[n] # Nothing           \* collision.rs path_exists

\* The task's record; `at` is its await point.
Idle == [at |-> "none", target |-> Nobody, left |-> 0]
At(f) == task[f].at

\* Await points that hold a permit of the semaphore.
Working == {"write", "writing", "asking", "erring"}
Permits == Cardinality({f \in Files : At(f) \in Working})

\* The outcomes the JoinSet hands to the drain loop.
Outcomes == {"done", "skipped", "errored", "aborted", "failed"}
Finished(f) == At(f) \in Outcomes

TaskStates == {"none", "queued"} \cup Working \cup Outcomes
DispatcherStates == {"receive", "drain", "walker", "delete", "returned"}
Results == {"none", "ok", "failed", "cancelled"}

Resolutions == {"overwrite", "skip", "abort"} \cup Names   \* a name is Rename(name)
RuleResolutions == {"skip", "overwrite", "newer", "keep"}
Unset == "unset"

\* The tags are no file names.
ASSUME TagsAssumption ==
    Names \cap {Nobody, Unset, "overwrite", "skip", "abort", "newer", "keep", "prompt"} = {}

TypeOK ==
    /\ job \in [kind : Kinds, policy : Policies, onError : ErrorPolicies]
    /\ src \subseteq Files
    /\ dst \in [Names -> Contents]
    /\ walk \in [ahead : SUBSET Files, chan : Seq(Files), closed : BOOLEAN]
    /\ Len(walk.chan) =< Capacity
    /\ disp \in DispatcherStates
    /\ task \in [Files -> [at : TaskStates, target : Names \cup {Nobody},
                           left : 0..MaxRetries]]
    /\ tally \in [files : Nat, skipped : Nat, errored : Nat]
    /\ ctrl \in BOOLEAN
    /\ verdict \in [joined : SUBSET Files, aborted : BOOLEAN, error : BOOLEAN,
                     result : Results]
    /\ asked \in Seq(Files) /\ IsInjective(asked)
    /\ peek \in Files \cup {Nobody}
    /\ pending \subseteq Files
    /\ decided \in [all : Resolutions \cup {Unset}, errors : BOOLEAN,
                    rule : RuleResolutions \cup {Unset}]
    /\ faults \in 0..MaxFaults

\* A tree job starts with any files in the source and any files in the way.
\* move_tree runs its copy under the default options.
Init ==
    /\ \E k \in Kinds, p \in Policies, e \in ErrorPolicies :
          /\ job = [kind |-> k, policy |-> p, onError |-> e]
          /\ k = "move" => p = "skip" /\ e = "abort"
    /\ src \in SUBSET Files
    /\ dst \in [Names -> {Nothing, Before}]
    /\ walk = [ahead |-> Files, chan |-> <<>>, closed |-> FALSE]
    /\ disp = "receive"
    /\ task = [f \in Files |-> Idle]
    /\ tally = [files |-> 0, skipped |-> 0, errored |-> 0]
    /\ ctrl = FALSE
    /\ verdict = [joined |-> {}, aborted |-> FALSE, error |-> FALSE,
                  result |-> "none"]
    /\ asked = <<>> /\ peek = Nobody /\ pending = {}
    /\ decided = [all |-> Unset, errors |-> FALSE, rule |-> Unset]
    /\ faults = 0

-------------------------------------------------------------------------------
(*****************************************************************************)
(* The walker (enumerate_streaming; the scan cursor of copy_tree_from_scan). *)
(*****************************************************************************)
engine == <<job, src, dst, disp, task, tally, ctrl, verdict, asked, peek,
            pending, decided, faults>>

\* The walker passes a name: a file that is there and passes the filters is
\* sent, which blocks while the channel is full.
WalkSend ==
    /\ ~walk.closed
    /\ \E f \in walk.ahead \cap src :
          /\ Len(walk.chan) < Capacity
          /\ walk' = [walk EXCEPT !.ahead = @ \ {f}, !.chan = Append(@, f)]
    /\ UNCHANGED engine

\* Mutant: an unreadable name is tried again.
WalkPassAgain ==
    /\ ~walk.closed
    /\ walk.ahead \ src # {}
    /\ UNCHANGED walk
    /\ UNCHANGED engine

\* A name that is not there, cannot be read, or that the filters omit.
WalkPass ==
    /\ ~walk.closed
    /\ \E f \in walk.ahead \ src : walk' = [walk EXCEPT !.ahead = @ \ {f}]
    /\ UNCHANGED engine

\* The walk is over: dropping chunk_tx closes the channel.
WalkClose ==
    /\ ~walk.closed /\ walk.ahead = {}
    /\ walk' = [walk EXCEPT !.closed = TRUE]
    /\ UNCHANGED engine

\* An error other than a denied entry ends the walk; the dispatcher learns of it
\* when it joins the walker.
WalkFails ==
    /\ ~walk.closed /\ faults < MaxFaults
    /\ faults' = faults + 1
    /\ walk' = [walk EXCEPT !.closed = TRUE]
    /\ verdict' = [verdict EXCEPT !.error = TRUE]
    /\ UNCHANGED <<job, src, dst, disp, task, tally, ctrl, asked, peek, pending, decided>>

-------------------------------------------------------------------------------
(*****************************************************************************)
(* The dispatcher (copy_tree_inner).                                         *)
(*****************************************************************************)
dialogue == <<asked, peek, pending, decided>>

\* ErrorPolicy::RetryN gives every task its own retries.
Retries == IF job.onError = "retry" THEN MaxRetries ELSE 0

\* A chunk arrives.  A cancelled job drops it and leaves the loop, and the
\* receiver stays open; otherwise its directories are made, its file spawned.
Dispatch ==
    /\ disp = "receive" /\ walk.chan # <<>>
    /\ walk' = [walk EXCEPT !.chan = Tail(@)]
    /\ LET f == Head(walk.chan) IN
       \/ /\ ctrl
          /\ disp' = "drain"
          /\ UNCHANGED <<task, ctrl, verdict, faults>>
       \/ /\ ~ctrl
          /\ task' = [task EXCEPT ![f] = [Idle EXCEPT !.at = "queued", !.left = Retries]]
          /\ UNCHANGED <<disp, ctrl, verdict, faults>>
       \/ /\ ~ctrl /\ faults < MaxFaults        \* create_dir_all fails
          /\ faults' = faults + 1
          /\ verdict' = [verdict EXCEPT !.error = TRUE]
          /\ ctrl' = TRUE
          /\ UNCHANGED <<disp, task>>
    /\ UNCHANGED <<job, src, dst, tally, dialogue>>

WalkEnded ==
    /\ disp = "receive" /\ walk.chan = <<>> /\ walk.closed
    /\ disp' = "drain"
    /\ UNCHANGED <<job, src, dst, walk, task, tally, ctrl, verdict, faults, dialogue>>

\* set.join_next: an aborted or failed task cancels the rest.
Join(f) ==
    /\ disp = "drain" /\ Finished(f) /\ f \notin verdict.joined
    /\ verdict' = [verdict EXCEPT !.joined = @ \cup {f},
                                  !.aborted = @ \/ At(f) = "aborted",
                                  !.error = @ \/ At(f) = "failed"]
    /\ ctrl' = (ctrl \/ At(f) \in {"aborted", "failed"})
    /\ UNCHANGED <<job, src, dst, walk, disp, task, tally, faults, dialogue>>

\* Mutant: the tasks that still run are not waited for.
DrainedEarly ==
    /\ disp = "drain"
    /\ \A f \in Files : Finished(f) => f \in verdict.joined
    /\ disp' = "walker"
    /\ UNCHANGED <<job, src, dst, walk, task, tally, ctrl, verdict, faults, dialogue>>

Drained ==
    /\ disp = "drain"
    /\ \A f \in Files : At(f) # "none" => f \in verdict.joined
    /\ disp' = "walker"
    /\ UNCHANGED <<job, src, dst, walk, task, tally, ctrl, verdict, faults, dialogue>>

\* The walker is joined and the verdict given.  A move goes on to delete its
\* source; the runner then forgets what the user decided for the job.
Conclude ==
    /\ disp = "walker" /\ walk.closed
    /\ LET result == IF verdict.error THEN "failed"
                     ELSE IF verdict.aborted \/ ctrl THEN "cancelled" ELSE "ok"
           deletes == result = "ok" /\ job.kind = "move"
       IN /\ disp' = IF deletes THEN "delete" ELSE "returned"
          /\ verdict' = [verdict EXCEPT !.result = IF deletes THEN @ ELSE result]
          /\ decided' = IF deletes THEN decided
                        ELSE [decided EXCEPT !.all = Unset, !.rule = Unset]
    /\ UNCHANGED <<job, src, dst, walk, task, tally, ctrl, faults, asked, peek, pending>>

-------------------------------------------------------------------------------
(*****************************************************************************)
(* The deletion of move_tree: whatever the source holds by now.              *)
(*****************************************************************************)
Unlink ==
    /\ disp = "delete"
    /\ \E f \in src : src' = src \ {f}
    /\ UNCHANGED <<job, dst, walk, disp, task, tally, ctrl, verdict, faults, dialogue>>

DeleteEnds ==
    /\ disp = "delete"
    /\ \/ src = {} /\ verdict' = [verdict EXCEPT !.result = "ok"] /\ UNCHANGED faults
       \/ /\ faults < MaxFaults
          /\ faults' = faults + 1
          /\ verdict' = [verdict EXCEPT !.result = "failed"]
    /\ disp' = "returned"
    /\ decided' = [decided EXCEPT !.all = Unset, !.rule = Unset]
    /\ UNCHANGED <<job, src, dst, walk, task, tally, ctrl, asked, peek, pending>>

-------------------------------------------------------------------------------
(*****************************************************************************)
(* The task of a file: collision::resolve, then attempt_copy_with_policy.    *)
(*****************************************************************************)
Becomes(f, point) == task' = [task EXCEPT ![f].at = point]
WriteTo(f, n) == task' = [task EXCEPT ![f].at = "write", ![f].target = n]

\* Mutant: the candidates are not probed.
FreeUnprobed(f) == {Suffixed[f][i] : i \in DOMAIN Suffixed[f] \cap {1}}

\* The first name keep_both_path finds free, if any is left.
Free(f) ==
    LET s == Suffixed[f]
    IN {s[i] : i \in {j \in DOMAIN s : ~Exists(s[j]) /\ \A k \in 1 .. j - 1 : Exists(s[k])}}

Skip(f) == /\ Becomes(f, "skipped")
           /\ tally' = [tally EXCEPT !.skipped = @ + 1]

\* The task gets its permit and looks at the destination.
Resolve(f) ==
    /\ At(f) = "queued" /\ Permits < Concurrency
    /\ \/ /\ ~Exists(f) \/ job.policy = "overwrite"
          /\ WriteTo(f, f) /\ UNCHANGED <<tally, asked>>
       \/ /\ Exists(f) /\ job.policy = "skip"
          /\ Skip(f) /\ UNCHANGED asked
       \/ /\ Exists(f) /\ job.policy = "newer"          \* by the two mtimes
          /\ (WriteTo(f, f) /\ UNCHANGED tally) \/ Skip(f)
          /\ UNCHANGED asked
       \/ /\ Exists(f) /\ job.policy = "keep"
          /\ \/ Free(f) = {} /\ Skip(f)
             \/ (\E n \in Free(f) : WriteTo(f, n)) /\ UNCHANGED tally
          /\ UNCHANGED asked
       \/ /\ Exists(f) /\ job.policy \in Names           \* without a probe
          /\ WriteTo(f, job.policy) /\ UNCHANGED <<tally, asked>>
       \/ /\ Exists(f) /\ job.policy = "prompt"
          /\ Becomes(f, "asking")
          /\ asked' = Append(asked, f)
          /\ UNCHANGED tally
    /\ UNCHANGED <<job, src, dst, walk, disp, ctrl, verdict, peek, pending, decided, faults>>

\* copy_file opens the destination, truncating what is there, before it first
\* looks at its control.
Open(f) ==
    /\ At(f) = "write"
    /\ Becomes(f, "writing")
    /\ LET shared == \E g \in Files \ {f} : At(g) = "writing" /\ task[g].target = task[f].target
       IN dst' = [dst EXCEPT ![task[f].target] = IF shared THEN Mixed ELSE Partial(f)]
    /\ UNCHANGED <<job, src, walk, disp, tally, ctrl, verdict, faults, dialogue>>

\* The last buffer is written.
Finish(f) ==
    /\ At(f) = "writing"
    /\ Becomes(f, "done")
    /\ dst' = [dst EXCEPT ![task[f].target] = IF @ = Partial(f) THEN Whole(f) ELSE @]
    /\ tally' = [tally EXCEPT !.files = @ + 1]
    /\ UNCHANGED <<job, src, walk, disp, ctrl, verdict, faults, dialogue>>

\* The copy sees the cancel between two buffers and removes the destination.
Stop(f) ==
    /\ At(f) = "writing" /\ ctrl
    /\ Becomes(f, "aborted")
    /\ dst' = [dst EXCEPT ![task[f].target] = Nothing]
    /\ UNCHANGED <<job, src, walk, disp, tally, ctrl, verdict, faults, dialogue>>

\* record_file_error
Absorb(f) == /\ Becomes(f, "errored")
             /\ tally' = [tally EXCEPT !.errored = @ + 1]

\* Mutant: RetryN does not look at the retries left.
FailUncounted(f) ==
    /\ At(f) \in {"write", "writing"} /\ faults < MaxFaults
    /\ job.onError = "retry"
    /\ faults' = faults + 1
    /\ dst' = [dst EXCEPT ![task[f].target] = Nothing]
    /\ task' = [task EXCEPT ![f].at = "write", ![f].left = @ - 1]
    /\ UNCHANGED <<job, src, walk, disp, tally, ctrl, verdict, dialogue>>

\* The copy fails, at its opening or half way (what it wrote is removed), and
\* the error policy says what becomes of the file.
Fail(f) ==
    /\ At(f) \in {"write", "writing"} /\ faults < MaxFaults
    /\ faults' = faults + 1
    /\ dst' = IF At(f) = "write" THEN dst
              ELSE [dst EXCEPT ![task[f].target] = Nothing]
    /\ \/ /\ job.onError = "abort"
          /\ Becomes(f, "failed") /\ UNCHANGED <<tally, asked>>
       \/ /\ \/ job.onError = "skip"
             \/ job.onError = "retry" /\ task[f].left = 0
          /\ Absorb(f) /\ UNCHANGED asked
       \/ /\ job.onError = "retry" /\ task[f].left > 0
          /\ task' = [task EXCEPT ![f].at = "write", ![f].left = @ - 1]
          /\ UNCHANGED <<tally, asked>>
       \/ /\ job.onError = "ask"
          /\ Becomes(f, "erring")
          /\ asked' = Append(asked, f) /\ UNCHANGED tally
    /\ UNCHANGED <<job, src, walk, disp, ctrl, verdict, peek, pending, decided>>

-------------------------------------------------------------------------------
(*****************************************************************************)
(* Answers: what the parked task makes of the reply it receives.             *)
(*****************************************************************************)
\* collision.rs prompt
AnswerCollision(f, r) ==
    \/ r = "overwrite" /\ WriteTo(f, f) /\ UNCHANGED tally
    \/ r \in Names /\ WriteTo(f, r) /\ UNCHANGED tally
    \/ r = "skip" /\ Skip(f)
    \/ r = "abort" /\ Becomes(f, "aborted") /\ UNCHANGED tally

\* tree.rs attempt_copy_with_policy, ErrorPolicy::Ask
AnswerError(f, r) ==
    \/ r = "retry" /\ Becomes(f, "write") /\ UNCHANGED tally
    \/ r = "skip" /\ Absorb(f)
    \/ r = "abort" /\ Becomes(f, "failed") /\ UNCHANGED tally

\* The forwarder takes the next question and answers it from what the user
\* decided for the whole job, or goes on to read the metadata (a collision)
\* or register a prompt (an error).
Forward ==
    /\ asked # <<>> /\ peek = Nobody
    /\ asked' = Tail(asked)
    /\ LET f == Head(asked) IN
       \/ /\ At(f) = "asking" /\ decided.all # Unset
          /\ AnswerCollision(f, decided.all) /\ UNCHANGED <<peek, pending>>
       \/ /\ At(f) = "asking" /\ decided.all = Unset
          /\ peek' = f /\ UNCHANGED <<task, tally, pending>>
       \/ /\ At(f) = "erring" /\ decided.errors
          /\ AnswerError(f, "skip") /\ UNCHANGED <<peek, pending>>
       \/ /\ At(f) = "erring" /\ ~decided.errors
          /\ pending' = pending \cup {f} /\ UNCHANGED <<task, tally, peek>>
    /\ UNCHANGED <<job, src, dst, walk, disp, ctrl, verdict, decided, faults>>

\* apply_rule_resolution: the rule's resolutions of a collision of f; none
\* when KeepBoth finds no free name.
RuleAnswers(f) ==
    CASE decided.rule = "newer" -> {"overwrite", "skip"}      \* by mtime or size
      [] decided.rule = "keep"  -> Free(f)
      [] decided.rule = Unset   -> {}
      [] OTHER -> {decided.rule}

\* Mutant: a rule without an answer drops the question.
RegisterUnlessRuled ==
    /\ peek # Nobody
    /\ peek' = Nobody
    /\ \/ \E r \in RuleAnswers(peek) : AnswerCollision(peek, r) /\ UNCHANGED pending
       \/ /\ RuleAnswers(peek) = {}
          /\ pending' = IF decided.rule = Unset THEN pending \cup {peek} ELSE pending
          /\ UNCHANGED <<task, tally>>
    /\ UNCHANGED <<job, src, dst, walk, disp, ctrl, verdict, asked, decided, faults>>

\* The metadata is read: a rule answers, or the prompt is registered.
Register ==
    /\ peek # Nobody
    /\ peek' = Nobody
    /\ \/ \E r \in RuleAnswers(peek) : AnswerCollision(peek, r) /\ UNCHANGED pending
       \/ /\ RuleAnswers(peek) = {}
          /\ pending' = pending \cup {peek} /\ UNCHANGED <<task, tally>>
    /\ UNCHANGED <<job, src, dst, walk, disp, ctrl, verdict, asked, decided, faults>>

-------------------------------------------------------------------------------
(*****************************************************************************)
(* The user and the programs beside this one.                                *)
(*****************************************************************************)
\* resolve_collision: "apply to all" keeps every answer but Abort.
UserResolves(f) ==
    /\ f \in pending /\ At(f) = "asking"
    /\ pending' = pending \ {f}
    /\ \E r \in Resolutions, all \in BOOLEAN :
          /\ AnswerCollision(f, r)
          /\ decided' = IF all /\ r # "abort" THEN [decided EXCEPT !.all = r] ELSE decided
    /\ UNCHANGED <<job, src, dst, walk, disp, ctrl, verdict, asked, peek, faults>>

\* resolve_error: "apply to all" keeps only Skip.
UserSettles(f) ==
    /\ f \in pending /\ At(f) = "erring"
    /\ pending' = pending \ {f}
    /\ \E r \in {"retry", "skip", "abort"}, all \in BOOLEAN :
          /\ AnswerError(f, r)
          /\ decided' = [decided EXCEPT !.errors = @ \/ (all /\ r = "skip")]
    /\ UNCHANGED <<job, src, dst, walk, disp, ctrl, verdict, asked, peek, faults>>

\* add_conflict_rule with a pattern every file matches: the first one wins.  (It
\* is read when a collision has been looked at, and may as well be added then.)
AddRule ==
    /\ peek # Nobody
    /\ decided.rule = Unset
    /\ \E r \in RuleResolutions : decided' = [decided EXCEPT !.rule = r]
    /\ UNCHANGED <<job, src, dst, walk, disp, task, tally, ctrl, verdict, asked, peek, pending, faults>>

Cancel ==
    /\ ~ctrl /\ disp # "returned"
    /\ ctrl' = TRUE
    /\ UNCHANGED <<job, src, dst, walk, disp, task, tally, verdict, faults, dialogue>>

\* Another program saves a file in the source while the job runs.  (For a copy
\* the walk finds it as if it had always been there, or nobody looks at it.)
Appear ==
    /\ job.kind = "move" /\ disp \notin {"delete", "returned"}
    /\ \E f \in Files \ src : src' = src \cup {f}
    /\ UNCHANGED <<job, dst, walk, disp, task, tally, ctrl, verdict, faults, dialogue>>

\* The job is over.
Rest == disp = "returned" /\ UNCHANGED vars

-------------------------------------------------------------------------------
Task(f) == Resolve(f) \/ Open(f) \/ Finish(f) \/ Stop(f) \/ Fail(f)

Next ==
    \/ WalkSend \/ WalkPass \/ WalkClose \/ WalkFails
    \/ Dispatch \/ WalkEnded \/ Drained \/ Conclude
    \/ Unlink \/ DeleteEnds
    \/ \E f \in Files : Task(f) \/ Join(f) \/ UserResolves(f) \/ UserSettles(f)
    \/ Forward \/ Register
    \/ AddRule \/ Cancel \/ Appear \/ Rest

\* Tokio polls every task that can run, the walker has its own thread, and the
\* user answers every prompt in the end.
Fairness ==
    /\ WF_vars(WalkSend \/ WalkPass \/ WalkClose)
    /\ WF_vars(Dispatch \/ WalkEnded \/ Drained \/ Conclude)
    /\ WF_vars(Unlink \/ DeleteEnds)
    /\ WF_vars(Forward \/ Register)
    /\ \A f \in Files :
          /\ WF_vars(Task(f))
          /\ WF_vars(Join(f))
          /\ WF_vars(UserResolves(f) \/ UserSettles(f))

Spec == Init /\ [][Next]_vars /\ Fairness

-------------------------------------------------------------------------------
(*****************************************************************************)
(* Properties.                                                               *)
(*****************************************************************************)
\* A job that reports success has waited for every file it dispatched, none of
\* them failed or was aborted, and its report counts each exactly once: the
\* counters are bumped by the tasks, the verdict is reached by joining them.
ReportAddsUp ==
    verdict.result = "ok" =>
        LET spawned == {f \in Files : At(f) # "none"} IN
        /\ \A f \in spawned : At(f) \in {"done", "skipped", "errored"}
        /\ tally.files + tally.skipped + tally.errored = Cardinality(spawned)

\* A parked task is in exactly one of the places an answer can come from: the
\* event channel, the forwarder's hands, the registry.  A question dropped on
\* the way would park its task, and the job, for ever.
ParkedIsAnswerable ==
    \A f \in Files :
        LET places == {<<"asked", i>> : i \in {j \in DOMAIN asked : asked[j] = f}}
                      \cup (IF peek = f THEN {<<"peek">>} ELSE {})
                      \cup (IF f \in pending THEN {<<"pending">>} ELSE {})
        IN Cardinality(places) = IF At(f) \in {"asking", "erring"} THEN 1 ELSE 0

\* Under Skip and KeepBoth a file that was at the destination before the job is
\* never truncated, replaced or removed, whatever fails or is cancelled.
BeforeIsKept ==
    [][job.policy \in {"skip", "keep"} =>
         \A n \in Names : dst[n] = Before => dst'[n] = Before]_vars

\* Every job returns, unless it was cancelled while the walk was still on: a failed
\* or aborted task, a cancel after the walk or prompts that hold every permit leave
\* it waiting only for the user.
TreeEnds == <>(verdict.result # "none") \/ <>[](ctrl /\ ~walk.closed)

\* "Receiver dropped - dispatcher cancelled mid-walk": a job returns whenever it is
\* cancelled.
JobReturns == <>(verdict.result # "none")

\* move_tree deletes a file it dispatched only when the file's copy is at the
\* destination: a move is a copy, then a deletion.
MoveLosesNothing ==
    [][\A f \in src \ src' :
         At(f) # "none" => \E n \in Names : dst[n] = Whole(f)]_vars
===============================================================================
