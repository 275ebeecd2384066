------------------------------ MODULE LiveMirror ------------------------------
(*****************************************************************************)
(* Live mirroring of one sync pair: the filesystem watch of freally-watch    *)
(* (watcher.rs, debounce.rs, filter.rs) and the loop of the desktop          *)
(* application that re-syncs the pair when the watch pulses                  *)
(* (live_mirror.rs).                                                         *)
(*                                                                           *)
(* The operating system queues raw events; the pump thread filters them,     *)
(* recognises editors' save dances and debounces what is left per path; ripe *)
(* entries go to the output channel, which the loop reads.  Time is the      *)
(* choice of when a debounce window or an atomic-save window has elapsed.    *)
(* A sync round is what it does to the set of paths that differ (FolderSync  *)
(* models the round itself).  Two sets keep the history the properties need: *)
(* `owed`, the changes somebody should hear of, and `silent`, those nobody   *)
(* will hear of, each put there by the step of the code that loses it.       *)
(*****************************************************************************)
EXTENDS Naturals, Sequences, FiniteSets

CONSTANTS
    Regular,     \* paths of ordinary files            (PathFilter::Passthrough)
    Temps,       \* paths of editors' staging files    (PathFilter::KnownTemp)
    Dropped,     \* swap and lock files                (VimSwap, EmacsLock, OfficeLock)
    Mode,        \* of the pair: "two-way", or "one-way" (the mirrors and contribute)
    MaxChanges,  \* bound on the changes other programs make
    MaxFaults    \* bound on overflows of the OS queue and rounds that fail

ASSUME PathsAssumption ==
    /\ Regular \cap Temps = {} /\ Regular \cap Dropped = {} /\ Temps \cap Dropped = {}
ASSUME ModeAssumption == Mode \in {"two-way", "one-way"}
ASSUME BoundsAssumption == MaxChanges \in Nat /\ MaxFaults \in Nat

Paths == Regular \cup Temps \cup Dropped

VARIABLES
    disk,     \* the paths that exist on the left side
    raw,      \* notify's queue of raw events
    queue,    \* DebounceQueue.pending: the event kept for each path
    temps,    \* AtomicSaveTracker.recent_temps
    gone,     \* the length of recent_temp_removals
    out,      \* the watcher's output channel
    loop,     \* the place of run_loop
    drain,    \* is a coalescing drain holding the watcher's lock
    stop,     \* the mirror's stop flag
    listed,   \* is the pair in the LiveMirrorRegistry
    dirty,    \* regular paths changed on a side and not brought over since
    walked,   \* of those, the ones the round under way found as they are now
    owed,     \* regular paths changed since an event was last taken off `out`
    silent,   \* regular paths whose last change no event on its way is about
    changes, faults

watch == <<raw, queue, temps, gone>>
vars == <<disk, watch, out, loop, drain, stop, listed, dirty, walked, owed,
          silent, changes, faults>>

-------------------------------------------------------------------------------
\* FsEvent, and the raw events notify reports; `from` is set for a rename, and
\* "rescan" stands for an error that says the queue has overflowed and for an
\* event that only names a directory.
Kinds == {"created", "modified", "renamed", "removed"}
RawKinds == {"create", "modify", "remove", "from", "to", "any"}
Nowhere == "nowhere"
ASSUME NowhereAssumption == Nowhere \notin Paths
Event(k, p) == [kind |-> k, path |-> p, from |-> Nowhere]
Rename(p, q) == [kind |-> "renamed", path |-> q, from |-> p]
Raw(k, p) == [kind |-> k, path |-> p, from |-> Nowhere]
Both(p, q) == [kind |-> "both", path |-> q, from |-> p]
Anywhere == Raw("rescan", Nowhere)

\* EventPriority
Priority == [k \in Kinds |-> CASE k = "created" -> 0 [] k = "modified" -> 1
                               [] k = "renamed" -> 2 [] k = "removed" -> 3]

LoopStates == {"idle", "opening", "round", "syncing", "check", "wait", "coalesce",
               "window", "ended"}

Events == [kind : Kinds, path : Paths, from : Paths \cup {Nowhere}]
RawEvents == [kind : RawKinds, path : Paths, from : {Nowhere}] \cup
             [kind : {"both"}, path : Paths, from : Paths] \cup {Anywhere}

TypeOK ==
    /\ disk \subseteq Paths
    /\ raw \in Seq(RawEvents)
    /\ \A p \in DOMAIN queue : p \in Paths /\ queue[p] \in Events /\ queue[p].path = p
    /\ temps \subseteq Temps /\ gone \in Nat
    /\ out \in Seq(Events)
    /\ loop \in LoopStates /\ drain \in BOOLEAN /\ stop \in BOOLEAN /\ listed \in BOOLEAN
    /\ dirty \subseteq Regular /\ walked \subseteq dirty
    /\ owed \subseteq Regular /\ silent \subseteq Regular
    /\ changes \in 0..MaxChanges /\ faults \in 0..MaxFaults

Init ==
    /\ disk \in SUBSET Regular /\ dirty \in SUBSET Regular
    /\ raw = <<>> /\ queue = <<>> /\ temps = {} /\ gone = 0 /\ out = <<>>
    /\ loop = "idle" /\ drain = FALSE /\ stop = FALSE /\ listed = FALSE
    /\ walked = {} /\ owed = {} /\ silent = {} /\ changes = 0 /\ faults = 0

-------------------------------------------------------------------------------
(*****************************************************************************)
(* Other programs change the two sides, and notify reports the changes of    *)
(* the left side once the watcher is open.  (The conflict file a round       *)
(* leaves is such a change, too.)                                            *)
(*****************************************************************************)
\* Mutant: the watcher is opened after the first round.
WatchingLate == loop \notin {"idle", "opening", "round", "syncing"} /\ (loop # "ended" \/ drain)

\* The watcher lives until the loop drops it; a drain keeps it alive.
Watching == loop \notin {"idle", "opening"} /\ (loop # "ended" \/ drain)

\* The paths ps differ now, and the round under way has not seen them so.
\* (Changes after the loop has ended concern nobody.)
Differ(ps) ==
    /\ changes < MaxChanges /\ loop # "ended"
    /\ changes' = changes + 1
    /\ dirty' = dirty \cup (ps \cap Regular)
    /\ walked' = walked \ ps
    /\ UNCHANGED <<queue, temps, gone, out, loop, drain, stop, listed, faults>>

\* A change of the paths ps on the left is reported by the raw events es.
Change(ps, es) ==
    /\ Differ(ps)
    /\ raw' = IF Watching THEN raw \o es ELSE raw
    /\ owed' = IF Watching THEN owed \cup (ps \cap Regular) ELSE owed
    /\ silent' = silent \ ps

\* A change of one path is reported by itself or, coalesced, by its directory.
Save ==
    \E p \in Paths :
        /\ disk' = disk \cup {p}
        /\ \E e \in {Raw(IF p \in disk THEN "modify" ELSE "create", p), Anywhere} :
              Change({p}, <<e>>)

Delete ==
    \E p \in disk :
        /\ disk' = disk \ {p}
        /\ \E e \in {Raw("remove", p), Anywhere} : Change({p}, <<e>>)

\* A rename arrives whole, in halves, or as ambiguous single-path events.
Move ==
    \E p \in disk : \E q \in Paths \ {p} :
        /\ disk' = (disk \ {p}) \cup {q}
        /\ \E es \in {<<Both(p, q)>>,
                      <<Raw("from", p), Raw("to", q)>>,
                      <<Raw("remove", p), Raw("create", q)>>,
                      <<Raw("any", p), Raw("any", q)>>} : Change({p, q}, es)

\* The right side is not watched.
ChangeRight ==
    \E p \in Regular :
        /\ Differ({p})
        /\ silent' = silent \cup ({p} \ owed)
        /\ UNCHANGED <<disk, raw, owed>>

\* The OS queue overflows: what it held is lost, one error stands for it.
Overflow ==
    /\ Watching /\ raw # <<>> /\ faults < MaxFaults
    /\ faults' = faults + 1
    /\ raw' = <<Anywhere>>
    /\ UNCHANGED <<disk, queue, temps, gone, out, loop, drain, stop, listed,
                   dirty, walked, owed, silent, changes>>

-------------------------------------------------------------------------------
(*****************************************************************************)
(* The pump: handle_raw_event, handle_rename, the debounce queue.            *)
(*****************************************************************************)
\* Mutant: an event of a known path replaces what is kept for another.
PushUnkeyed(q, e) ==
    IF DOMAIN q = {} THEN [x \in {e.path} |-> e] ELSE [x \in DOMAIN q |-> e]

\* DebounceQueue::push: the first event of a path opens its window, and the
\* event of the highest priority is kept.
Push(q, e) ==
    LET stays(x) == x \in DOMAIN q /\ (x = e.path => Priority[e.kind] =< Priority[q[x].kind])
    IN [x \in DOMAIN q \cup {e.path} |-> IF stays(x) THEN q[x] ELSE e]

\* rescan_into, enumerate_dir_into: a Modified for every ordinary file found.
Rescan(q, found) ==
    [x \in DOMAIN q \cup found |->
        IF x \in found THEN Push(q, Event("modified", x))[x] ELSE q[x]]

\* The three ways a raw event goes on: to the queue, to the tracker, nowhere.
Enqueue(e) == queue' = Push(queue, e) /\ UNCHANGED <<temps, gone>>
Ignore == UNCHANGED <<queue, temps, gone>>

\* AtomicSaveTracker::note_temp_removed
NoteRemoved(p) == temps' = temps \ {p} /\ gone' = gone + 1 /\ UNCHANGED queue

\* Mutant: the claimed half of a save is taken for noise.
ClaimSilently(p) == gone' = gone - 1 /\ UNCHANGED <<queue, temps>>

\* AtomicSaveTracker::try_claim_create: the second half of a split rename.
Claim(p) == gone' = gone - 1 /\ queue' = Push(queue, Event("modified", p)) /\ UNCHANGED temps

\* A path appears: it completes a save, or it is news of the given kind.
Appears(p, kind) == IF gone > 0 THEN Claim(p) ELSE Enqueue(Event(kind, p))

HandleCreate(e) ==
    /\ e.kind = "create"
    /\ \/ e.path \in Dropped /\ Ignore
       \/ e.path \in Temps /\ temps' = temps \cup {e.path} /\ UNCHANGED <<queue, gone>>
       \/ e.path \in Regular /\ Appears(e.path, "created")

HandleModify(e) ==
    /\ e.kind = "modify"
    /\ \/ e.path \notin Regular /\ Ignore
       \/ e.path \in Regular /\ Enqueue(Event("modified", e.path))

HandleRemove(e) ==
    /\ e.kind = "remove"
    /\ \/ e.path \in Dropped \cup (Temps \ temps) /\ Ignore
       \/ e.path \in temps /\ NoteRemoved(e.path)
       \/ e.path \in Regular /\ Enqueue(Event("removed", e.path))

HandleRename(e) ==
    \/ /\ e.kind = "both"
       /\ \/ e.path \in Dropped /\ Ignore
          \/ /\ e.path \notin Dropped /\ e.from \in temps
             /\ temps' = temps \ {e.from}
             /\ queue' = Push(queue, Event("modified", e.path)) /\ UNCHANGED gone
          \/ /\ e.path \notin Dropped /\ e.from \notin temps
             /\ Enqueue(Rename(e.from, e.path))
    \/ /\ e.kind = "from"
       /\ \/ e.path \in Dropped /\ Ignore
          \/ e.path \in temps /\ NoteRemoved(e.path)
          \/ e.path \notin Dropped \cup temps /\ Enqueue(Event("removed", e.path))
    \/ /\ e.kind = "to"
       /\ \/ e.path \in Dropped /\ Ignore
          \/ e.path \notin Dropped /\ Appears(e.path, "created")
    \/ /\ e.kind = "any"
       /\ \/ e.path \in Dropped \cup (Temps \ temps) /\ Ignore
          \/ e.path \in temps /\ NoteRemoved(e.path)
          \/ e.path \in Regular /\ Appears(e.path, "modified")

About(p, e) == p \in {e.path, e.from}
Announced(p) == \/ \E i \in DOMAIN raw : About(p, raw[i])
                \/ \E x \in DOMAIN queue : About(p, queue[x])
                \/ \E i \in DOMAIN out : About(p, out[i])

\* Of the paths ps, those that changed and that no event left is about.
Unheard(ps) == silent' = silent \cup {p \in ps \cap owed : ~Announced(p)'}

\* The walk passes over what is not there any more, directories it cannot read
\* and what is too deep.
HandleRescan(e) ==
    /\ e.kind = "rescan"
    /\ \E found \in SUBSET (disk \cap Regular) :
          /\ queue' = Rescan(queue, found)
          /\ Unheard(Regular \ found)
    /\ UNCHANGED <<temps, gone>>

\* The ordinary file a whole rename takes to a filtered name.
Hidden(e) == IF e.kind = "both" /\ e.path \in Dropped THEN {e.from} ELSE {}

consumer == <<disk, loop, drain, stop, listed, dirty, walked, owed, changes, faults>>

Handle ==
    /\ Watching /\ raw # <<>>
    /\ raw' = Tail(raw)
    /\ UNCHANGED <<out, consumer>>
    /\ LET e == Head(raw) IN
       \/ /\ HandleCreate(e) \/ HandleModify(e) \/ HandleRemove(e) \/ HandleRename(e)
          /\ Unheard(Hidden(e))
       \/ HandleRescan(e)

\* Mutant: the pump only flushes after a raw event, as recv would make it.
FlushOnEvent ==
    /\ Watching /\ raw # <<>>
    /\ \E p \in DOMAIN queue :
          /\ out' = Append(out, queue[p])
          /\ queue' = [x \in DOMAIN queue \ {p} |-> queue[x]]
    /\ UNCHANGED <<raw, temps, gone, silent, consumer>>

\* DebounceQueue::flush hands over a path whose window has elapsed (one at a
\* time: the loop treats all events alike).
Flush ==
    /\ Watching
    /\ \E p \in DOMAIN queue :
          /\ out' = Append(out, queue[p])
          /\ queue' = [x \in DOMAIN queue \ {p} |-> queue[x]]
    /\ UNCHANGED <<raw, temps, gone, silent, consumer>>

\* purge_stale: a temp, or a temp's removal, is older than the window.
Purge ==
    /\ \/ \E p \in temps : temps' = temps \ {p} /\ UNCHANGED gone
       \/ gone > 0 /\ gone' = gone - 1 /\ UNCHANGED temps
    /\ UNCHANGED <<raw, queue, out, silent, consumer>>

-------------------------------------------------------------------------------
(*****************************************************************************)
(* The loop: start_live_mirror, stop_live_mirror, run_loop, run_one_sync.    *)
(*****************************************************************************)
changed == <<disk, watch, dirty, owed, silent, changes>>

Start ==
    /\ loop = "idle" /\ ~listed
    /\ loop' = "opening" /\ listed' = TRUE
    /\ UNCHANGED <<changed, out, drain, stop, walked, faults>>

Stop ==
    /\ listed
    /\ listed' = FALSE /\ stop' = TRUE
    /\ UNCHANGED <<changed, out, loop, drain, walked, faults>>

\* The task ends and takes the pair out of the registry.
Ends == loop' = "ended" /\ listed' = FALSE

\* The watcher opens before the first round, or cannot.
Open ==
    /\ loop = "opening"
    /\ \/ loop' = "round" /\ UNCHANGED <<listed, faults>>
       \/ faults < MaxFaults /\ faults' = faults + 1 /\ Ends
    /\ UNCHANGED <<changed, out, drain, stop, walked>>

\* A round looks at both sides, brings over what it saw path by path, and ends.
RoundBegins ==
    /\ loop = "round"
    /\ loop' = "syncing" /\ walked' = dirty
    /\ UNCHANGED <<changed, out, drain, stop, listed, faults>>

\* The path is written or removed on the right or, which the watch reports like
\* any change, on the left.
Bring(p) ==
    /\ loop = "syncing" /\ p \in walked
    /\ dirty' = dirty \ {p} /\ walked' = walked \ {p}
    /\ \/ UNCHANGED <<disk, raw>>
       \/ /\ disk' = disk \cup {p}
          /\ raw' = Append(raw, Raw(IF p \in disk THEN "modify" ELSE "create", p))
       \/ /\ p \in disk
          /\ disk' = disk \ {p}
          /\ raw' = Append(raw, Raw("remove", p))
    /\ UNCHANGED <<queue, temps, gone, out, loop, drain, stop, listed, owed, silent,
                   changes, faults>>

\* A one-way round leaves the changes its mode does not carry; a round that
\* fails, which is only reported, leaves what it had not come to.
RoundEnds ==
    /\ loop = "syncing"
    /\ loop' = "check" /\ walked' = {}
    /\ \/ (walked = {} \/ Mode = "one-way") /\ UNCHANGED faults
       \/ faults < MaxFaults /\ faults' = faults + 1
    /\ silent' = silent \cup (walked \ owed)
    /\ UNCHANGED <<disk, watch, dirty, owed, changes, out, drain, stop, listed>>

Check ==
    /\ loop = "check"
    /\ IF stop THEN Ends ELSE loop' = "wait" /\ UNCHANGED listed
    /\ UNCHANGED <<changed, out, drain, stop, walked, faults>>

\* The wait takes the watcher's lock, and then the next event.
Wait ==
    /\ loop = "wait" /\ ~drain /\ out # <<>>
    /\ out' = Tail(out) /\ owed' = {}
    /\ IF stop THEN Ends ELSE loop' = "coalesce" /\ UNCHANGED listed
    /\ UNCHANGED <<disk, watch, dirty, silent, changes, drain, stop, walked, faults>>

\* A blocking task takes the lock to drain further events.
Coalesce ==
    /\ loop = "coalesce"
    /\ loop' = "window" /\ drain' = TRUE
    /\ UNCHANGED <<changed, out, stop, listed, walked, faults>>

\* It reads until the channel is closed, which it never is: the watcher it has
\* locked is alive.
Drain ==
    /\ drain /\ out # <<>>
    /\ out' = Tail(out) /\ owed' = {}
    /\ UNCHANGED <<disk, watch, dirty, silent, changes, loop, drain, stop, listed,
                   walked, faults>>

\* The timeout gives up waiting for the task; the task goes on.
WindowEnds ==
    /\ loop = "window"
    /\ IF stop THEN Ends ELSE loop' = "round" /\ UNCHANGED listed
    /\ UNCHANGED <<changed, out, drain, stop, walked, faults>>

\* Nothing is left to do until something changes.
Rest == (changes = MaxChanges \/ loop = "ended") /\ UNCHANGED vars

-------------------------------------------------------------------------------
Round == RoundBegins \/ (\E p \in Regular : Bring(p)) \/ RoundEnds
Loop == Open \/ Round \/ Check \/ Wait \/ Coalesce \/ WindowEnds

Next ==
    \/ Save \/ Delete \/ Move \/ ChangeRight \/ Overflow
    \/ Handle \/ Flush \/ Purge
    \/ Start \/ Stop \/ Loop \/ Drain
    \/ Rest

\* The pump is a thread of its own, the loop and the drain are tasks the
\* runtime polls, and windows elapse.
Fairness ==
    /\ WF_vars(Handle) /\ WF_vars(Flush)
    /\ WF_vars(Loop) /\ WF_vars(Drain)

Spec == Init /\ [][Next]_vars /\ Fairness

-------------------------------------------------------------------------------
(*****************************************************************************)
(* Properties.                                                               *)
(*****************************************************************************)
InFlight == raw # <<>> \/ DOMAIN queue # {} \/ out # <<>>

\* A change of an ordinary file on the left is followed by an event on its way
\* to whoever reads the channel, whatever the save-dance tracker, the debouncer
\* and later changes make of the raw events.  The exceptions are `silent`: a
\* whole rename of the file onto a swap or lock name, which handle_rename drops,
\* and a change reported by an overflow or a directory's event only, when the
\* walk that stands in for it does not find the file.
PulseIsOwed == owed \ silent # {} /\ Watching => InFlight

\* Before the loop has taken its first event, that event arrives: the loop's
\* own wait takes it, and no drain is there yet that could take it instead.
PulseArrives ==
    \A p \in Regular :
        p \in owed \ silent /\ ~drain /\ loop \in {"round", "syncing", "check", "wait"}
            ~> p \notin owed \ silent \/ ~Watching

\* When the loop waits for its first pulse, every path that differs has a pulse
\* coming: the watcher is open before the first round starts, so that changes
\* during the round are buffered.  The exceptions are `silent`: the two above,
\* the changes of the right side, and what the round left, by its mode or
\* because it failed.
WaitsOnlyInStep == loop = "wait" /\ ~drain /\ dirty \ silent # {} => InFlight

\* A mirror that is not stopped brings over every change its watch reports.
ChangesAreMirrored ==
    \A p \in Regular : p \in dirty \ silent /\ listed ~> p \notin dirty \ silent \/ ~listed
===============================================================================
