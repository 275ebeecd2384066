------------------------- MODULE CopyControlProofs -------------------------
(***************************************************************************)
(* TLAPS proofs about CopyControl, for any sets of callers and engines and *)
(* any number of buffers.                                                  *)
(***************************************************************************)
EXTENDS CopyControl, TLAPS

\* A parked or about-to-park engine is registered with the Notify, so the next
\* notify_waiters call reaches it.
WaitersAreArmed ==
  \A e \in Engines : pc[e] \in {"load", "parked"} => e \in armed

\* Why one buffer is the most: the engine that has used its late buffer cannot
\* be at the I/O again, and may only be past the is_cancelled test if the flag
\* is PAUSED, which its is_paused load is about to see.
LateEngineIsHeld ==
  \A e \in Engines :
    flag # Running =>
      /\ late[e] <= 1
      /\ late[e] = 1 => /\ pc[e] # "io"
                        /\ pc[e] = "is_paused" => flag = Paused

Inv == TypeOK /\ WaitersAreArmed /\ NoLostWakeup /\ LateEngineIsHeld

LEMMA InitInv == Init => Inv
  BY BuffersAssumption
  DEF Init, Inv, TypeOK, WaitersAreArmed, NoLostWakeup, LateEngineIsHeld,
      EnginePcs, Running, Paused, Cancelled

\* The type invariant is inductive by itself.
LEMMA TypeStep == TypeOK /\ [Next]_vars => TypeOK'
<1> SUFFICES ASSUME TypeOK, [Next]_vars PROVE TypeOK'
  OBVIOUS
<1> USE DEF TypeOK, EnginePcs, Running, Paused, Cancelled
<1>1. ASSUME NEW c \in Callers, CallerStep(c) PROVE TypeOK'
  BY <1>1
  DEF CallerStep, Pause, Resume, Cancel, NotifyWaiters, SetFlag, engineVars
<1>2. ASSUME NEW e \in Engines, EngineStep(e) PROVE TypeOK'
  BY <1>2
  DEF EngineStep, IsCancelled, IsPaused, Arm, LoadFlag, Wake, Recheck,
      MoveBuffer, IoError, Goto
<1>3. CASE UNCHANGED vars
  BY <1>3 DEF vars
<1> QED BY <1>1, <1>2, <1>3 DEF Next, AllEnded

\* The steps of a caller keep the invariant.
LEMMA CallerInv ==
  ASSUME Inv, TypeOK', NEW c \in Callers, CallerStep(c) PROVE Inv'
<1> USE DEF Inv, TypeOK, WaitersAreArmed, NoLostWakeup, LateEngineIsHeld,
            Running, Paused, Cancelled, SetFlag, engineVars
<1>1. CASE Pause(c)
  BY <1>1 DEF Pause
<1>2. CASE Resume(c)
  BY <1>2 DEF Resume
<1>3. CASE Cancel(c)
  BY <1>3 DEF Cancel
<1>4. CASE NotifyWaiters(c)
  BY <1>4 DEF NotifyWaiters
<1> QED BY <1>1, <1>2, <1>3, <1>4, CallerStep(c) DEF CallerStep

\* The steps of an engine keep the invariant.
LEMMA EngineInv ==
  ASSUME Inv, TypeOK', NEW e \in Engines, EngineStep(e) PROVE Inv'
<1> USE DEF Inv, TypeOK, WaitersAreArmed, NoLostWakeup, LateEngineIsHeld,
            EnginePcs, Running, Paused, Cancelled, Goto
<1>1. CASE IsCancelled(e)
  BY <1>1 DEF IsCancelled
<1>2. CASE IsPaused(e)
  BY <1>2 DEF IsPaused
<1>3. CASE Arm(e)
  BY <1>3 DEF Arm
<1>4. CASE LoadFlag(e)
  BY <1>4 DEF LoadFlag
<1>5. CASE Wake(e)
  BY <1>5 DEF Wake
<1>6. CASE Recheck(e)
  BY <1>6 DEF Recheck
<1>7. CASE MoveBuffer(e)
  BY <1>7 DEF MoveBuffer
<1>8. CASE IoError(e)
  BY <1>8 DEF IoError
<1> QED
  BY <1>1, <1>2, <1>3, <1>4, <1>5, <1>6, <1>7, <1>8, EngineStep(e)
  DEF EngineStep

LEMMA StepInv == Inv /\ [Next]_vars => Inv'
<1> SUFFICES ASSUME Inv, [Next]_vars PROVE Inv'
  OBVIOUS
<1>0. TypeOK'
  BY TypeStep DEF Inv
<1>1. ASSUME NEW c \in Callers, CallerStep(c) PROVE Inv'
  BY <1>0, <1>1, CallerInv
<1>2. ASSUME NEW e \in Engines, EngineStep(e) PROVE Inv'
  BY <1>0, <1>2, EngineInv
<1>3. CASE UNCHANGED vars
  BY <1>3
  DEF vars, Inv, TypeOK, WaitersAreArmed, NoLostWakeup, LateEngineIsHeld
<1> QED BY <1>1, <1>2, <1>3 DEF Next, AllEnded

LEMMA InvAlways == Spec => []Inv
  BY InitInv, StepInv, PTL DEF Spec

\* The variables keep their types, for any sets of callers and engines.
THEOREM TypeCorrect == Spec => []TypeOK
<1>1. Inv => TypeOK
  BY DEF Inv
<1> QED BY <1>1, InvAlways, PTL

\* wait_while_paused loses no wake-up, whoever calls resume and cancel and
\* however many engines share the handle.
THEOREM NoWakeupIsLost == Spec => []NoLostWakeup
<1>1. Inv => NoLostWakeup
  BY DEF Inv
<1> QED BY <1>1, InvAlways, PTL

\* A pause or cancel is honoured after at most one more buffer.
THEOREM LateBufferBound == Spec => []AtMostOneLateBuffer
<1>1. Inv => AtMostOneLateBuffer
  BY DEF Inv, LateEngineIsHeld, AtMostOneLateBuffer
<1> QED BY <1>1, InvAlways, PTL

\* No step takes the flag out of CANCELLED.
THEOREM CancelTerminal == Spec => CancelIsTerminal
<1>1. [Next]_vars => [flag = Cancelled => flag' = Cancelled]_vars
  BY DEF Next, CallerStep, EngineStep, AllEnded, Pause, Resume, Cancel,
         NotifyWaiters, IsCancelled, IsPaused, Arm, LoadFlag, Wake, Recheck,
         MoveBuffer, IoError, SetFlag, Running, Paused, Cancelled, vars
<1> QED BY <1>1, PTL DEF Spec, CancelIsTerminal
=============================================================================
