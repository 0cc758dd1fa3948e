------------------------ MODULE GpioControllerProofs ------------------------
(***************************************************************************)
(* Proofs about GpioController, in either mode and for every number of     *)
(* triggers and of lives of the controller.                                *)
(***************************************************************************)
EXTENDS GpioController, TLAPS

(* Every reachable state has the types TypeOK gives.                       *)
THEOREM TypeCorrect == Spec => []TypeOK
<1>1. Init => TypeOK
  <2>1. 0 \in 0 .. MaxTriggers /\ 0 \in 0 .. MaxInits /\ 0 \in 0 .. 0 /\ 0 \in Nat
    BY BoundsAssumption
  <2> QED  BY <2>1, Zenon DEF Init, TypeOK
<1>2. TypeOK /\ [Next]_vars => TypeOK'
  <2> SUFFICES ASSUME TypeOK, [Next]_vars PROVE TypeOK'
    OBVIOUS
  <2>1. /\ caller' \in {"idle", "triggered", "stopping", "joining"}
        /\ worker' \in {"none", "ready", "blocked", "raising", "holding", "done"}
    BY DEF TypeOK, Next, CallerContinues, WorkerStep, Initialize, TriggerReject,
           TriggerNotify, Cleanup, CleanupNotify, CleanupRelease, WorkerWaits,
           WorkerStops, WorkerTakes, Raise, Lower, SpuriousWake, Wake, vars
  <2>2. /\ initialized' \in BOOLEAN /\ pending' \in BOOLEAN
        /\ stopFlag' \in BOOLEAN
    BY Zenon
    DEF TypeOK, Next, CallerContinues, WorkerStep, Initialize, TriggerReject,
        TriggerNotify, Cleanup, CleanupNotify, CleanupRelease, WorkerWaits,
        WorkerStops, WorkerTakes, Raise, Lower, SpuriousWake, vars
  <2>3. stuck' \in BOOLEAN /\ pin' \in {0, 1}
    <3>1. \/ UNCHANGED <<pin, stuck>>
          \/ \E v \in {0, 1} : Write(v)
      BY DEF Next, CallerContinues, WorkerStep, Initialize, TriggerReject,
             TriggerNotify, Cleanup, CleanupNotify, CleanupRelease, WorkerWaits,
             WorkerStops, WorkerTakes, Raise, Lower, SpuriousWake, vars
    <3>2. CASE UNCHANGED <<pin, stuck>>  BY <3>2 DEF TypeOK
    <3>3. CASE \E v \in {0, 1} : Write(v)
      BY <3>3, Zenon DEF TypeOK, Write
    <3> QED  BY <3>1, <3>2, <3>3
  <2>4. /\ count' \in 0 .. MaxTriggers /\ inits' \in 0 .. MaxInits
        /\ unserved' \in 0 .. count' /\ pulses' \in Nat
    BY BoundsAssumption
    DEF TypeOK, Next, CallerContinues, WorkerStep, Initialize, TriggerReject,
        TriggerNotify, Cleanup, CleanupNotify, CleanupRelease, WorkerWaits,
        WorkerStops, WorkerTakes, Raise, Lower, SpuriousWake, vars
  <2> QED  BY <2>1, <2>2, <2>3, <2>4 DEF TypeOK
<1> QED  BY <1>1, <1>2, PTL DEF Spec

(* The pin is high only within a pulse, or where a write of it failed.     *)
THEOREM ArmRests == Spec => []PinLowBetweenPulses
<1>1. Init => PinLowBetweenPulses
  BY DEF Init, PinLowBetweenPulses
<1>2. TypeOK /\ PinLowBetweenPulses /\ [Next]_vars => PinLowBetweenPulses'
  <2> SUFFICES ASSUME TypeOK, PinLowBetweenPulses, [Next]_vars
               PROVE  PinLowBetweenPulses'
    OBVIOUS
  <2>1. CASE UNCHANGED <<pin, stuck>> /\ (worker = "holding" => worker' = "holding")
    BY <2>1 DEF PinLowBetweenPulses
  <2>2. ASSUME Write(0) PROVE PinLowBetweenPulses'
    BY <2>2 DEF Write, PinLowBetweenPulses
  <2>3. CASE Raise
    BY <2>3 DEF Raise, PinLowBetweenPulses
  <2>4. \/ UNCHANGED <<pin, stuck>> /\ (worker = "holding" => worker' = "holding")
        \/ Write(0)
        \/ Raise
    BY DEF Next, CallerContinues, WorkerStep, Initialize, TriggerReject,
           TriggerNotify, Cleanup, CleanupNotify, CleanupRelease, WorkerWaits,
           WorkerStops, WorkerTakes, Lower, SpuriousWake, Wake, vars
  <2> QED  BY <2>1, <2>2, <2>3, <2>4
<1> QED  BY <1>1, <1>2, TypeCorrect, PTL DEF Spec

(* cleanup() leaves no worker behind.                                      *)
THEOREM CleanupLeavesNoWorker == Spec => []NoWorkerAfterCleanup
<1>1. Init => NoWorkerAfterCleanup
  BY DEF Init, NoWorkerAfterCleanup
<1>2. TypeOK /\ NoWorkerAfterCleanup /\ [Next]_vars => NoWorkerAfterCleanup'
  BY DEF TypeOK, NoWorkerAfterCleanup, Next, CallerContinues, WorkerStep,
         Initialize, TriggerReject, TriggerNotify, Cleanup, CleanupNotify,
         CleanupRelease, WorkerWaits, WorkerStops, WorkerTakes, Raise, Lower,
         SpuriousWake, Wake, vars
<1> QED  BY <1>1, <1>2, TypeCorrect, PTL DEF Spec

(* No pulse begins without a trigger of its own.                           *)
THEOREM PulsesHaveTriggers == Spec => []PulsesAreTriggered
<1>1. Init => PulsesAreTriggered
  BY DEF Init, PulsesAreTriggered
<1>2. TypeOK /\ PulsesAreTriggered /\ [Next]_vars => PulsesAreTriggered'
  BY DEF TypeOK, PulsesAreTriggered, Next, CallerContinues, WorkerStep,
         Initialize, TriggerReject, TriggerNotify, Cleanup, CleanupNotify,
         CleanupRelease, WorkerWaits, WorkerStops, WorkerTakes, Raise, Lower,
         SpuriousWake, Wake, vars
<1> QED  BY <1>1, <1>2, TypeCorrect, PTL DEF Spec
-----------------------------------------------------------------------------
(* What TriggersAreServed and CleanupReturns need of the hand-over between *)
(* pulse_mutex_ and pulse_cv_: a trigger without its pulse is pending or   *)
(* taken, and the worker sleeps through a pending trigger or a stop only   *)
(* until the caller, which has set the flag, gets to its notify_one().     *)
WorkerIsWoken ==
  /\ unserved > 0 => pending \/ worker = "raising"
  /\ worker = "blocked" => /\ pending => caller = "triggered"
                           /\ stopFlag => caller = "stopping"

(* No wake-up of the pulse worker is lost: trigger_reject() and cleanup()  *)
(* notify after the flag is set, and the worker tests the flags under the  *)
(* mutex before each sleep.                                                *)
THEOREM NoTriggerIsSleptOn == Spec => []WorkerIsWoken
<1>1. Init => WorkerIsWoken
  BY DEF Init, WorkerIsWoken
<1>2. TypeOK /\ WorkerIsWoken /\ [Next]_vars => WorkerIsWoken'
  BY DEF TypeOK, WorkerIsWoken, Next, CallerContinues, WorkerStep,
         Initialize, TriggerReject, TriggerNotify, Cleanup, CleanupNotify,
         CleanupRelease, WorkerWaits, WorkerStops, WorkerTakes, Raise, Lower,
         SpuriousWake, Wake, vars
<1> QED  BY <1>1, <1>2, TypeCorrect, PTL DEF Spec
=============================================================================
