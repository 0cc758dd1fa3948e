--------------------------- MODULE PipelineThreads ---------------------------
(***************************************************************************)
(* What the program relies on DefectPipeline for, once it is initialized:  *)
(* start() starts the threads, each of them tests running_ before every    *)
(* round of work and leaves when it is false, stop() and the display       *)
(* thread's ESC make it false, and stop() returns when no thread is left.  *)
(* DefectPipeline implements this specification; Inspector builds on it.   *)
(***************************************************************************)
CONSTANTS Threads, Quitter   \* Quitter: the thread the user can end a run by

VARIABLES phase,    \* "idle", or "stopping" while stop() joins the threads
          running,  \* running_
          thread    \* per thread: "none" until started and once joined

threadVars == <<phase, running, thread>>

NoThreads == \A t \in Threads : thread[t] = "none"

Init ==
  /\ phase = "idle"
  /\ running = FALSE
  /\ thread = [t \in Threads |-> "none"]

(* start(); without a display there is no display thread.                  *)
Start(enabled) ==
  /\ phase = "idle"
  /\ ~running /\ NoThreads
  /\ running' = TRUE
  /\ thread' = [t \in Threads |-> IF t \in enabled THEN "check" ELSE "none"]
  /\ UNCHANGED phase

Check(t) ==
  /\ thread[t] = "check"
  /\ thread' = [thread EXCEPT ![t] = IF running THEN "work" ELSE "done"]
  /\ UNCHANGED <<phase, running>>

Work(t) ==
  /\ thread[t] = "work"
  /\ thread' = [thread EXCEPT ![t] = "check"]
  /\ running' \in {running, running /\ t # Quitter}
  /\ UNCHANGED phase

StopCall ==
  /\ phase = "idle"
  /\ phase' = "stopping"
  /\ running' = FALSE
  /\ UNCHANGED thread

Join(t) ==
  /\ phase = "stopping"
  /\ thread[t] = "done"
  /\ thread' = [thread EXCEPT ![t] = "none"]
  /\ UNCHANGED <<phase, running>>

StopReturn ==
  /\ phase = "stopping"
  /\ NoThreads
  /\ phase' = "idle"
  /\ UNCHANGED <<running, thread>>

StopStep == StopReturn \/ \E t \in Threads : Join(t)
ThreadStep(t) == Check(t) \/ Work(t)

Next ==
  \/ \E enabled \in {Threads, Threads \ {Quitter}} : Start(enabled)
  \/ StopCall \/ StopStep
  \/ \E t \in Threads : ThreadStep(t)

(* No round of work goes on for ever, and stop() does not give up.         *)
Fairness ==
  /\ WF_threadVars(StopStep)
  /\ \A t \in Threads : WF_threadVars(ThreadStep(t))

Spec == Init /\ [][Next]_threadVars /\ Fairness
=============================================================================
