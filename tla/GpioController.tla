--------------------------- MODULE GpioController ---------------------------
(***************************************************************************)
(* GpioController of src/io/gpio_controller.cpp: one caller (the main      *)
(* thread, then the inference thread, then the destructor) and the pulse   *)
(* worker, which share a mutex and a condition variable.                   *)
(*                                                                         *)
(* The worker is "ready" when it wants the mutex to evaluate its predicate *)
(* and "blocked" when it sleeps on pulse_cv_; `wait` has no timeout.       *)
(***************************************************************************)
EXTENDS Naturals

CONSTANTS Hardware,      \* ENABLE_GPIO_HW
          MaxTriggers,   \* bound: calls of trigger_reject()
          MaxInits       \* bound: successful calls of initialize()

ASSUME ModeAssumption == Hardware \in BOOLEAN
ASSUME BoundsAssumption == MaxTriggers \in Nat /\ MaxInits \in Nat

VARIABLES
  caller,      \* "idle", or what is left of the operation it is in
  worker,      \* "none" when pulse_thread_ is not joinable
  initialized, \* initialized_
  pending,     \* pulse_pending_
  stopFlag,    \* stop_flag_
  pin,         \* the level of the output
  count,       \* reject_count_
  inits,       \* history: how often initialize() succeeded
  unserved,    \* history: triggers since the last pulse began
  pulses,      \* history: pulses begun
  stuck        \* history: the last write of the pin failed

vars == <<caller, worker, initialized, pending, stopFlag, pin, count, inits,
          unserved, pulses, stuck>>

Init ==
  /\ caller = "idle" /\ worker = "none"
  /\ initialized = FALSE /\ pending = FALSE /\ stopFlag = FALSE
  /\ pin = 0
  /\ count = 0 /\ inits = 0 /\ unserved = 0 /\ pulses = 0
  /\ stuck = FALSE

-----------------------------------------------------------------------------
(* write_value: opening or writing the sysfs file may fail, and nobody     *)
(* looks at the result.  Simulated writes do not fail.                     *)
Write(v) ==
  \/ pin' = v /\ stuck' = FALSE
  \/ Hardware /\ pin' = pin /\ stuck' = TRUE

Wake == worker' = IF worker = "blocked" THEN "ready" ELSE worker

(* initialize, when it succeeds; a pin that is not exported changes        *)
(* nothing.  A second call without cleanup() in between would assign to a  *)
(* joinable std::thread, which terminates the program.                     *)
Initialize ==
  /\ caller = "idle" /\ worker = "none"
  /\ inits < MaxInits
  /\ IF Hardware THEN Write(0) ELSE UNCHANGED <<pin, stuck>>
  /\ worker' = "ready"
  /\ initialized' = TRUE
  /\ inits' = inits + 1
  /\ UNCHANGED <<caller, pending, stopFlag, count, unserved, pulses>>

(* Faulty variant: only the first of several pending triggers is counted.  *)
TriggerCountsPulses ==
  /\ caller = "idle"
  /\ initialized
  /\ count < MaxTriggers
  /\ count' = IF pending THEN count ELSE count + 1
  /\ pending' = TRUE
  /\ unserved' = unserved + 1
  /\ caller' = "triggered"
  /\ UNCHANGED <<worker, initialized, stopFlag, pin, inits, pulses, stuck>>

(* trigger_reject: the flag under the mutex, the notification after it.    *)
TriggerReject ==
  /\ caller = "idle"
  /\ initialized
  /\ count < MaxTriggers
  /\ count' = count + 1
  /\ pending' = TRUE
  /\ unserved' = unserved + 1
  /\ caller' = "triggered"
  /\ UNCHANGED <<worker, initialized, stopFlag, pin, inits, pulses, stuck>>

(* Faulty variant: the notification is forgotten.                          *)
NotifyNobody ==
  /\ caller = "triggered"
  /\ caller' = "idle"
  /\ UNCHANGED <<worker, initialized, pending, stopFlag, pin, count, inits,
                 unserved, pulses, stuck>>

TriggerNotify ==
  /\ caller = "triggered"
  /\ caller' = "idle"
  /\ Wake
  /\ UNCHANGED <<initialized, pending, stopFlag, pin, count, inits, unserved,
                 pulses, stuck>>

(* cleanup, also called by the destructor.                                 *)
Cleanup ==
  /\ caller = "idle"
  /\ caller' = "stopping"
  /\ stopFlag' = TRUE
  /\ UNCHANGED <<worker, initialized, pending, pin, count, inits, unserved,
                 pulses, stuck>>

(* Faulty variant: cleanup() only sets the flag.                           *)
CleanupNotifiesNobody ==
  /\ caller = "stopping"
  /\ caller' = "joining"
  /\ UNCHANGED <<worker, initialized, pending, stopFlag, pin, count, inits,
                 unserved, pulses, stuck>>

CleanupNotify ==
  /\ caller = "stopping"
  /\ caller' = "joining"
  /\ Wake
  /\ UNCHANGED <<initialized, pending, stopFlag, pin, count, inits, unserved,
                 pulses, stuck>>

(* Faulty variant: the worker is detached, as an earlier version did.      *)
CleanupDetaches ==
  /\ caller = "joining"
  /\ caller' = "idle"
  /\ IF Hardware /\ initialized THEN Write(0) ELSE UNCHANGED <<pin, stuck>>
  /\ initialized' = FALSE
  /\ UNCHANGED <<worker, pending, stopFlag, count, inits, unserved, pulses>>

CleanupRelease ==
  /\ caller = "joining"
  /\ worker \in {"none", "done"}
  /\ worker' = "none"
  /\ caller' = "idle"
  /\ IF Hardware /\ initialized THEN Write(0) ELSE UNCHANGED <<pin, stuck>>
  /\ initialized' = FALSE
  /\ UNCHANGED <<pending, stopFlag, count, inits, unserved, pulses>>

CallerContinues == TriggerNotify \/ CleanupNotify \/ CleanupRelease

-----------------------------------------------------------------------------
(* pulse_worker: the predicate, evaluated under the mutex.                 *)
WorkerWaits ==
  /\ worker = "ready"
  /\ ~pending /\ ~stopFlag
  /\ worker' = "blocked"
  /\ UNCHANGED <<caller, initialized, pending, stopFlag, pin, count, inits,
                 unserved, pulses, stuck>>

(* The stop flag is tested first: a pulse that is pending is not begun.    *)
WorkerStops ==
  /\ worker = "ready"
  /\ stopFlag
  /\ worker' = "done"
  /\ UNCHANGED <<caller, initialized, pending, stopFlag, pin, count, inits,
                 unserved, pulses, stuck>>

WorkerTakes ==
  /\ worker = "ready"
  /\ pending /\ ~stopFlag
  /\ pending' = FALSE
  /\ worker' = "raising"
  /\ UNCHANGED <<caller, initialized, stopFlag, pin, count, inits, unserved,
                 pulses, stuck>>

Raise ==
  /\ worker = "raising"
  /\ Write(1)
  /\ worker' = "holding"
  /\ pulses' = pulses + 1
  /\ unserved' = 0
  /\ UNCHANGED <<caller, initialized, pending, stopFlag, count, inits>>

(* Faulty variant: the worker leaves on a stop with the pin still high.    *)
LowerUnlessStopped ==
  /\ worker = "holding"
  /\ IF stopFlag THEN UNCHANGED <<pin, stuck>> ELSE Write(0)
  /\ worker' = "ready"
  /\ UNCHANGED <<caller, initialized, pending, stopFlag, count, inits,
                 unserved, pulses>>

(* After pulse_ms_.                                                        *)
Lower ==
  /\ worker = "holding"
  /\ Write(0)
  /\ worker' = "ready"
  /\ UNCHANGED <<caller, initialized, pending, stopFlag, count, inits,
                 unserved, pulses>>

SpuriousWake ==
  /\ worker = "blocked"
  /\ Wake
  /\ UNCHANGED <<caller, initialized, pending, stopFlag, pin, count, inits,
                 unserved, pulses, stuck>>

WorkerStep == WorkerWaits \/ WorkerStops \/ WorkerTakes \/ Raise \/ Lower

Next ==
  \/ Initialize \/ TriggerReject \/ Cleanup \/ CallerContinues
  \/ WorkerStep \/ SpuriousWake

(* The worker is scheduled, its sleep ends, and an operation that has      *)
(* begun goes on.  Nobody is assumed to call anything.                     *)
Spec ==
  /\ Init /\ [][Next]_vars
  /\ WF_vars(WorkerStep) /\ WF_vars(CallerContinues)
-----------------------------------------------------------------------------
(* Every variable has its type.                                            *)
TypeOK ==
  /\ caller \in {"idle", "triggered", "stopping", "joining"}
  /\ worker \in {"none", "ready", "blocked", "raising", "holding", "done"}
  /\ initialized \in BOOLEAN /\ pending \in BOOLEAN
  /\ stopFlag \in BOOLEAN /\ stuck \in BOOLEAN
  /\ pin \in {0, 1}
  /\ count \in 0 .. MaxTriggers /\ inits \in 0 .. MaxInits
  /\ unserved \in 0 .. count /\ pulses \in Nat

(* The reject arm is not left out: outside a pulse the pin is low, also    *)
(* when cleanup() came in the middle of one, unless a write of it failed.  *)
PinLowBetweenPulses ==
  pin = 1 /\ ~stuck => worker = "holding"

(* When cleanup() has returned the worker is gone: nothing raises the pin  *)
(* or touches the object after the destructor.                             *)
NoWorkerAfterCleanup ==
  ~initialized /\ caller \in {"idle", "triggered"} => worker = "none"

(* Pulses are not invented: each begins after a trigger of its own.        *)
PulsesAreTriggered ==
  pulses + (IF worker = "raising" THEN 1 ELSE 0)
         + (IF pending THEN 1 ELSE 0) <= count

(* Each trigger is followed by a pulse that begins after it, unless        *)
(* cleanup() has been called.  Triggers during a pulse share the next one. *)
TriggersAreServed == (unserved > 0) ~> (unserved = 0 \/ stopFlag)

(* cleanup() returns: it does not join a worker that sleeps for ever.      *)
CleanupReturns == (caller = "stopping") ~> (caller = "idle")
-----------------------------------------------------------------------------
(* What the code's own words promise and the code does not keep.           *)

(* "Check if the reject mechanism is operational"                          *)
(* (ireject_controller.h:29): a controller that says so has a worker.      *)
InitializedIsOperational ==
  initialized /\ caller = "idle" => worker \notin {"none", "done"}
=============================================================================
