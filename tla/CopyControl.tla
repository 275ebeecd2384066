---------------------------- MODULE CopyControl ----------------------------
(***************************************************************************)
(* The pause / resume / cancel primitive of freally-core                   *)
(* (crates/freally-core/src/control.rs) together with the loop of the copy *)
(* engine that polls it (crates/freally-core/src/engine.rs).               *)
(*                                                                         *)
(* One CopyControl is an atomic flag and a tokio Notify.  Callers (user    *)
(* interface, power policy, queue) steer it, engines (the copy loop, the   *)
(* verify pass, the hashing and shredding pipelines that share the handle) *)
(* poll the flag between buffers and park on the Notify while it is        *)
(* PAUSED.  Every atomic access is a step of its own, so a caller may be   *)
(* preempted between changing the flag and waking the waiters, and an      *)
(* engine between any two of its loads.                                    *)
(***************************************************************************)
EXTENDS Integers

CONSTANTS Callers,   \* threads holding a clone and steering the copy
          Engines,   \* tasks that poll the shared handle
          Buffers    \* buffers an engine moves before end of file (a bound)

ASSUME BuffersAssumption == Buffers \in Nat

Running   == "RUNNING"
Paused    == "PAUSED"
Cancelled == "CANCELLED"

VARIABLES
  flag,      \* the AtomicU8
  callerPc,  \* "idle", or "notify" between the flag write and notify_waiters
  pc,        \* where each engine is
  armed,     \* engines with an enabled Notified future
  woken,     \* armed engines a notify_waiters call has reached
  left,      \* buffers each engine has still to move
  late       \* history: buffers moved since the flag took its present value

vars == <<flag, callerPc, pc, armed, woken, left, late>>

EnginePcs == {"is_cancelled", "is_paused", "arm", "load", "parked", "recheck",
              "io", "done", "stopped", "failed"}
Ended == {"done", "stopped", "failed"}

TypeOK ==
  /\ flag \in {Running, Paused, Cancelled}
  /\ callerPc \in [Callers -> {"idle", "notify"}]
  /\ pc \in [Engines -> EnginePcs]
  /\ armed \in SUBSET Engines
  /\ woken \in SUBSET Engines
  /\ left \in [Engines -> Nat]
  /\ late \in [Engines -> Nat]

Init ==
  /\ flag = Running
  /\ callerPc = [c \in Callers |-> "idle"]
  /\ pc = [e \in Engines |-> "is_cancelled"]
  /\ armed = {}
  /\ woken = {}
  /\ left = [e \in Engines |-> Buffers]
  /\ late = [e \in Engines |-> 0]

-----------------------------------------------------------------------------
(* Callers.                                                                *)

engineVars == <<pc, armed, woken, left>>

SetFlag(f) ==
  /\ flag' = f
  /\ late' = IF f = flag THEN late ELSE [e \in Engines |-> 0]

\* pause: one compare_exchange, nobody to wake.
Pause(c) ==
  /\ callerPc[c] = "idle"
  /\ flag = Running
  /\ SetFlag(Paused)
  /\ UNCHANGED <<callerPc, engineVars>>

\* Mutant: resume that forgets notify_waiters.
ResumeWithoutNotify(c) ==
  /\ callerPc[c] = "idle"
  /\ flag = Paused
  /\ SetFlag(Running)
  /\ UNCHANGED <<callerPc, engineVars>>

\* resume: compare_exchange; only the caller whose exchange succeeded notifies.
Resume(c) ==
  /\ callerPc[c] = "idle"
  /\ flag = Paused
  /\ SetFlag(Running)
  /\ callerPc' = [callerPc EXCEPT ![c] = "notify"]
  /\ UNCHANGED engineVars

\* Mutant: cancel that forgets notify_waiters.
CancelWithoutNotify(c) ==
  /\ callerPc[c] = "idle"
  /\ SetFlag(Cancelled)
  /\ UNCHANGED <<callerPc, engineVars>>

\* cancel: unconditional store, then notify.
Cancel(c) ==
  /\ callerPc[c] = "idle"
  /\ SetFlag(Cancelled)
  /\ callerPc' = [callerPc EXCEPT ![c] = "notify"]
  /\ UNCHANGED engineVars

\* tokio: notify_waiters reaches every Notified future that already exists and
\* stores no permit for a later one.
NotifyWaiters(c) ==
  /\ callerPc[c] = "notify"
  /\ woken' = woken \union armed
  /\ callerPc' = [callerPc EXCEPT ![c] = "idle"]
  /\ UNCHANGED <<flag, pc, armed, left, late>>

-----------------------------------------------------------------------------
(* Engines.                                                                *)

Goto(e, to) == pc' = [pc EXCEPT ![e] = to]

\* Top of the loop: the load in ctrl.is_cancelled().
IsCancelled(e) ==
  /\ pc[e] = "is_cancelled"
  /\ Goto(e, IF flag = Cancelled THEN "stopped" ELSE "is_paused")
  /\ UNCHANGED <<flag, callerPc, armed, woken, left, late>>

\* A second, separate load in ctrl.is_paused().
IsPaused(e) ==
  /\ pc[e] = "is_paused"
  /\ Goto(e, IF flag = Paused THEN "arm" ELSE "io")
  /\ UNCHANGED <<flag, callerPc, armed, woken, left, late>>

\* Mutant: the future is not registered before the flag is read.
ArmNothing(e) ==
  /\ pc[e] = "arm"
  /\ Goto(e, "load")
  /\ UNCHANGED <<flag, callerPc, armed, woken, left, late>>

\* wait_while_paused creates and enables a fresh Notified future ...
Arm(e) ==
  /\ pc[e] = "arm"
  /\ armed' = armed \union {e}
  /\ woken' = woken \ {e}
  /\ Goto(e, "load")
  /\ UNCHANGED <<flag, callerPc, left, late>>

\* ... and only then re-reads the flag; returning drops the future.
LoadFlag(e) ==
  /\ pc[e] = "load"
  /\ \/ /\ flag # Paused
        /\ armed' = armed \ {e}
        /\ woken' = woken \ {e}
        /\ Goto(e, "recheck")
     \/ /\ flag = Paused
        /\ Goto(e, "parked")
        /\ UNCHANGED <<armed, woken>>
  /\ UNCHANGED <<flag, callerPc, left, late>>

\* notified.await completes: the loop goes round with a new future.
Wake(e) ==
  /\ pc[e] = "parked"
  /\ e \in woken
  /\ armed' = armed \ {e}
  /\ woken' = woken \ {e}
  /\ Goto(e, "arm")
  /\ UNCHANGED <<flag, callerPc, left, late>>

\* Back in the engine: is_cancelled again, otherwise `continue`.
Recheck(e) ==
  /\ pc[e] = "recheck"
  /\ Goto(e, IF flag = Cancelled THEN "stopped" ELSE "is_cancelled")
  /\ UNCHANGED <<flag, callerPc, armed, woken, left, late>>

\* Mutant: the loop goes back past the is_cancelled test.
MoveBufferUnchecked(e) ==
  /\ pc[e] = "io"
  /\ left[e] > 0
  /\ left' = [left EXCEPT ![e] = @ - 1]
  /\ late' = [late EXCEPT ![e] = IF flag = Running THEN 0 ELSE @ + 1]
  /\ Goto(e, "is_paused")
  /\ UNCHANGED <<flag, callerPc, armed, woken>>

\* One fill_buf / write_all; an empty buffer is end of file.
MoveBuffer(e) ==
  /\ pc[e] = "io"
  /\ \/ /\ left[e] > 0
        /\ left' = [left EXCEPT ![e] = @ - 1]
        /\ late' = [late EXCEPT ![e] = IF flag = Running THEN 0 ELSE @ + 1]
        /\ Goto(e, "is_cancelled")
     \/ /\ left[e] = 0
        /\ Goto(e, "done")
        /\ UNCHANGED <<left, late>>
  /\ UNCHANGED <<flag, callerPc, armed, woken>>

\* The read or the write fails: the loop breaks with the error.
IoError(e) ==
  /\ pc[e] = "io"
  /\ Goto(e, "failed")
  /\ UNCHANGED <<flag, callerPc, armed, woken, left, late>>

CallerStep(c) == Pause(c) \/ Resume(c) \/ Cancel(c) \/ NotifyWaiters(c)

EngineStep(e) ==
  \/ IsCancelled(e) \/ IsPaused(e) \/ Arm(e) \/ LoadFlag(e) \/ Wake(e)
  \/ Recheck(e) \/ MoveBuffer(e) \/ IoError(e)

\* Every engine task has returned: the handle is dropped with the last of them.
AllEnded == (\A e \in Engines : pc[e] \in Ended) /\ UNCHANGED vars

Next ==
  \/ \E c \in Callers : CallerStep(c)
  \/ \E e \in Engines : EngineStep(e)
  \/ AllEnded

Spec == Init /\ [][Next]_vars

\* A caller inside resume/cancel runs on to its notify_waiters call, and the
\* runtime polls every ready engine task.  Nobody has to resume or cancel.
Fairness ==
  /\ \A c \in Callers : WF_vars(NotifyWaiters(c))
  /\ \A e \in Engines : WF_vars(EngineStep(e))

FairSpec == Spec /\ Fairness

-----------------------------------------------------------------------------
(* Properties.                                                             *)

\* No lost wakeup (the comment in wait_while_paused): an engine parked although
\* the flag has left PAUSED has been woken already, or some caller is still on
\* its way to notify_waiters.
NoLostWakeup ==
  \A e \in Engines :
    pc[e] = "parked" /\ flag # Paused =>
      e \in woken \/ \E c \in Callers : callerPc[c] = "notify"

\* "Cooperative only" (head of control.rs): once the flag is PAUSED or
\* CANCELLED an engine moves at most one more buffer, however its two loads
\* interleave with the callers.
AtMostOneLateBuffer ==
  flag # Running => \A e \in Engines : late[e] <= 1

\* cancel is terminal: no pause or resume, concurrent or later, undoes it.
CancelIsTerminal == [][flag = Cancelled => flag' = Cancelled]_vars

\* Every engine returns after a cancel, also one that was parked in a pause.
CancelStopsEngines ==
  \A e \in Engines : flag = Cancelled ~> pc[e] \in Ended

\* A pause followed by a resume never parks an engine for good, even when
\* further pauses and resumes race with its wake-up.
ResumeUnparks ==
  \A e \in Engines : (pc[e] = "parked" /\ flag = Running) ~> pc[e] # "parked"

=============================================================================
