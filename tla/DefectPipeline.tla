--------------------------- MODULE DefectPipeline ---------------------------
(***************************************************************************)
(* DefectPipeline of src/pipeline/defect_pipeline.cpp: the capture,        *)
(* inference, display and watchdog threads, and the thread that calls      *)
(* initialize(), start() and stop().  The frame queue is the channel that  *)
(* FrameQueue implements.                                                  *)
(*                                                                         *)
(* A frame is its number, in the order the camera produced the valid ones. *)
(* A step runs a thread from one access to shared state to the next.       *)
(***************************************************************************)
EXTENDS Naturals, Sequences, FiniteSets

CONSTANTS Capacity,         \* queue_capacity
          Verdicts,         \* what the decision engine may answer
          Injected,         \* the optional parts passed to the constructor
          DisplayEnabled,   \* enable_display
          WatchdogEnabled,  \* inference_watchdog_timeout_ms > 0
          PruneInterval,    \* prune_interval
          MaxRecords,       \* max_db_records, 0 for unlimited
          MaxFrames,        \* bound: valid frames the camera produces
          MaxRuns           \* bound: calls of start() that start something

Frames == 1 .. MaxFrames
Threads == {"capture", "inference", "display", "watchdog"}
JoinOrder == <<"capture", "inference", "display", "watchdog">>

ASSUME VerdictsAssumption == "reject" \in Verdicts /\ "none" \notin Verdicts
ASSUME SwitchesAssumption == DisplayEnabled \in BOOLEAN /\ WatchdogEnabled \in BOOLEAN
ASSUME BoundsAssumption ==
  /\ Capacity \in Nat /\ MaxRecords \in Nat
  /\ PruneInterval \in Nat \ {0}
  /\ MaxFrames \in Nat /\ MaxRuns \in Nat

VARIABLES
  main,         \* where the calling thread is in the pipeline's interface
  running,      \* running_
  wasRunning,   \* stop()'s local was_running
  started,      \* how many runs start() has started
  pc,           \* per thread: "none" until started and once joined
  camera,       \* "closed", "open", or "ended": closed at the end of a video
  hasStore,     \* store_ and rejector_ are not null
  hasRejector,
  grabbed,      \* how many valid frames the camera has produced
  accepted, taken, closed, reply,     \* frame_queue_, as a FrameChannel
  verdict,      \* of the frame in the inference thread's hands, or "none"
  sincePrune,   \* frames_since_prune
  store,        \* frames with a row in the defect store
  pruneFailed,  \* history: a prune of the store has failed
  slot,         \* display_frame_, as a set of at most one frame
  beaten,       \* last_inference_ms_ > 0
  overdue,      \* the last heartbeat (or start) is longer ago than the timeout
  warned,       \* history: the watchdog has warned since the last heartbeat
  dropped,      \* history: frames push() refused
  lost,         \* history: frames reset() found in the queue
  faulted,      \* history: frames an exception took from the inference thread
  rejected,     \* history: frames trigger_reject() was called for
  counted       \* per verdict: the frames stats_ has counted

callerVars == <<main, wasRunning, started, hasStore, hasRejector>>
chanVars == <<accepted, taken, closed, reply>>
inferVars == <<verdict, sincePrune, store, pruneFailed>>
watchVars == <<beaten, overdue, warned>>
fateVars == <<dropped, lost, faulted, rejected, counted>>
workVars == <<grabbed, chanVars, inferVars, slot, watchVars, fateVars>>
vars == <<callerVars, running, pc, camera, workVars>>

Queue == INSTANCE FrameChannel WITH
  Producers <- {"capture"}, Consumers <- {"inference"}, Items <- Frames

Init ==
  /\ main = "new" /\ running = FALSE /\ wasRunning = FALSE /\ started = 0
  /\ pc = [t \in Threads |-> "none"]
  /\ camera = "closed"
  /\ hasStore = ("store" \in Injected) /\ hasRejector = ("rejector" \in Injected)
  /\ grabbed = 0
  /\ Queue!Init
  /\ verdict = "none"
  /\ sincePrune = 0
  /\ store = {} /\ pruneFailed = FALSE /\ slot = {}
  /\ beaten = FALSE /\ overdue = FALSE /\ warned = FALSE
  /\ dropped = {} /\ lost = {} /\ faulted = {} /\ rejected = {}
  /\ counted = [v \in Verdicts |-> {}]

-----------------------------------------------------------------------------
At(t, s) == pc[t] = s
Goto(t, s) == pc' = [pc EXCEPT ![t] = s]
NoThreads == \A t \in Threads : At(t, "none")
Waiting == {accepted[i] : i \in taken + 1 .. Len(accepted)}
Frame == reply["inference"][2]          \* the inference thread's frame_opt
CountedFrames == UNION {counted[v] : v \in Verdicts}

-----------------------------------------------------------------------------
(* The calling thread.  A camera that does not open is closed, also when   *)
(* an earlier call had opened it; a model that does not load leaves the    *)
(* camera open.  A store or rejector that does not open is dropped.        *)
Initialize ==
  /\ main = "new"
  /\ \/ /\ camera' \in {"closed", "open"}
        /\ main' = "new" /\ UNCHANGED <<hasStore, hasRejector>>
     \/ /\ camera' = "open"
        /\ main' = "ready"
        /\ hasStore' \in {hasStore, FALSE}
        /\ hasRejector' \in {hasRejector, FALSE}
  /\ UNCHANGED <<wasRunning, started, running, pc, workVars>>

(* start() while running returns at once.  After ESC has ended a run its   *)
(* threads are still joinable and starting again would terminate the       *)
(* program, so the caller has to call stop() first.                        *)
Start ==
  /\ main \in {"ready", "stopped"}
  /\ ~running /\ NoThreads
  /\ started < MaxRuns
  /\ started' = started + 1
  /\ main' = "ready"
  /\ running' = TRUE
  /\ beaten' = FALSE /\ overdue' = FALSE /\ warned' = FALSE
  /\ Queue!Clear
  /\ lost' = lost \cup Waiting
  /\ pc' = [t \in Threads |->
              IF t = "display" /\ ~DisplayEnabled THEN "none" ELSE "check"]
  /\ sincePrune' = 0
  /\ UNCHANGED <<wasRunning, hasStore, hasRejector, camera, grabbed, verdict,
                 store, pruneFailed, slot, dropped, faulted, rejected, counted>>

(* stop(), and the destructor, which calls it.                             *)
StopCall ==
  /\ main \in {"ready", "stopped"}
  /\ main' = "stopping"
  /\ wasRunning' = running
  /\ running' = FALSE
  /\ UNCHANGED <<started, hasStore, hasRejector, pc, camera, workVars>>

StopQueue ==
  /\ main = "stopping"
  /\ main' = "joining"
  /\ Queue!Close
  /\ UNCHANGED <<wasRunning, started, hasStore, hasRejector, running, pc,
                 camera, grabbed, inferVars, slot, watchVars, fateVars>>

Join(i) ==
  /\ main = "joining"
  /\ \A j \in 1 .. i - 1 : At(JoinOrder[j], "none")
  /\ At(JoinOrder[i], "done")
  /\ Goto(JoinOrder[i], "none")
  /\ UNCHANGED <<callerVars, running, camera, workVars>>

(* Faulty variant: stop() does not join the watchdog.                      *)
JoinedWithoutWatchdog ==
  /\ main = "joining"
  /\ \A t \in Threads \ {"watchdog"} : At(t, "none")
  /\ main' = "cleanup"
  /\ UNCHANGED <<wasRunning, started, hasStore, hasRejector, running, pc,
                 camera, workVars>>

Joined ==
  /\ main = "joining"
  /\ NoThreads
  /\ main' = "cleanup"
  /\ UNCHANGED <<wasRunning, started, hasStore, hasRejector, running, pc,
                 camera, workVars>>

Cleanup ==
  /\ main = "cleanup"
  /\ main' = "stopped"
  /\ camera' = IF wasRunning THEN "closed" ELSE camera
  /\ UNCHANGED <<wasRunning, started, hasStore, hasRejector, running, pc,
                 workVars>>

StopStep == StopQueue \/ (\E i \in 1 .. 4 : Join(i)) \/ Joined \/ Cleanup

-----------------------------------------------------------------------------
(* capture_loop.                                                           *)
CaptureCheck ==
  /\ At("capture", "check")
  /\ Goto("capture", IF running THEN "grab" ELSE "done")
  /\ UNCHANGED <<callerVars, running, camera, workVars>>

GrabFrame ==
  /\ At("capture", "grab")
  /\ camera = "open"
  /\ grabbed < MaxFrames
  /\ grabbed' = grabbed + 1
  /\ Goto("capture", "push")
  /\ UNCHANGED <<callerVars, running, camera, chanVars, inferVars, slot,
                 watchVars, fateVars>>

(* An invalid frame (the camera is closed, or a live camera fails to read) *)
(* or an exception; the loop sleeps and goes on.                           *)
GrabNothing ==
  /\ At("capture", "grab")
  /\ Goto("capture", "check")
  /\ UNCHANGED <<callerVars, running, camera, workVars>>

(* The last frame of a video that is not looped: grab_frame closes the     *)
(* camera and returns an invalid frame.                                    *)
GrabEndOfVideo ==
  /\ At("capture", "grab")
  /\ camera = "open"
  /\ camera' = "ended"
  /\ Goto("capture", "check")
  /\ UNCHANGED <<callerVars, running, workVars>>

PushFrame ==
  /\ At("capture", "push")
  /\ Queue!Accept("capture", grabbed)
  /\ Goto("capture", "check")
  /\ UNCHANGED <<callerVars, running, camera, grabbed, inferVars, slot,
                 watchVars, fateVars>>

DropFrame ==
  /\ At("capture", "push")
  /\ Queue!Refuse("capture")
  /\ dropped' = dropped \cup {grabbed}
  /\ Goto("capture", "check")
  /\ UNCHANGED <<callerVars, running, camera, grabbed, inferVars, slot,
                 watchVars, lost, faulted, rejected, counted>>

CaptureStep ==
  CaptureCheck \/ GrabFrame \/ GrabNothing \/ GrabEndOfVideo \/ PushFrame \/ DropFrame

-----------------------------------------------------------------------------
(* Faulty variant: the loop ends only when the queue is empty and stopped, *)
(* and the test for that is missing.                                       *)
InferenceIgnoresStop ==
  /\ At("inference", "check")
  /\ Goto("inference", "pop")
  /\ UNCHANGED <<callerVars, running, camera, workVars>>

(* inference_loop.                                                         *)
InferenceCheck ==
  /\ At("inference", "check")
  /\ Goto("inference", IF running THEN "pop" ELSE "done")
  /\ UNCHANGED <<callerVars, running, camera, workVars>>

(* Faulty variant: pop() hands out the newest frame.                       *)
PopNewest ==
  /\ At("inference", "pop")
  /\ taken < Len(accepted)
  /\ accepted' = SubSeq(accepted, 1, taken) \o <<accepted[Len(accepted)]>>
                   \o SubSeq(accepted, taken + 1, Len(accepted) - 1)
  /\ taken' = taken + 1
  /\ reply' = [reply EXCEPT !["inference"] = <<"item", accepted[Len(accepted)]>>]
  /\ Goto("inference", "infer")
  /\ UNCHANGED <<callerVars, running, camera, grabbed, closed, inferVars, slot,
                 watchVars, fateVars>>

(* Faulty variant: the front is copied and stays in the queue.             *)
PopCopies ==
  /\ At("inference", "pop")
  /\ Queue!Backlog > 0
  /\ reply' = [reply EXCEPT !["inference"] = <<"item", accepted[taken + 1]>>]
  /\ Goto("inference", "infer")
  /\ UNCHANGED <<callerVars, running, camera, grabbed, accepted, taken, closed,
                 inferVars, slot, watchVars, fateVars>>

PopFrame ==
  /\ At("inference", "pop")
  /\ Queue!Deliver("inference")
  /\ Goto("inference", "infer")
  /\ UNCHANGED <<callerVars, running, camera, grabbed, inferVars, slot,
                 watchVars, fateVars>>

PopNothing ==
  /\ At("inference", "pop")
  /\ Queue!Nothing("inference")
  /\ Goto("inference", "check")
  /\ UNCHANGED <<callerVars, running, camera, grabbed, inferVars, slot,
                 watchVars, fateVars>>

(* Faulty variant: a frame popped before a stop is put aside silently.     *)
InferUnlessStopped ==
  /\ At("inference", "infer")
  /\ verdict' \in Verdicts
  /\ Goto("inference", IF running THEN "store" ELSE "check")
  /\ UNCHANGED <<callerVars, running, camera, grabbed, chanVars, sincePrune,
                 store, pruneFailed, slot, watchVars, fateVars>>

(* Preprocessing, inference, postprocessing and the decision.              *)
Infer ==
  /\ At("inference", "infer")
  /\ verdict' \in Verdicts
  /\ Goto("inference", "store")
  /\ UNCHANGED <<callerVars, running, camera, grabbed, chanVars, sincePrune,
                 store, pruneFailed, slot, watchVars, fateVars>>

(* handle_result: the store first.  insert_result may fail, which its      *)
(* caller ignores.                                                         *)
StoreResult ==
  /\ At("inference", "store")
  /\ store' \in {store} \cup (IF hasStore THEN {store \cup {Frame}} ELSE {})
  /\ Goto("inference", "reject")
  /\ UNCHANGED <<callerVars, running, camera, grabbed, chanVars, verdict,
                 sincePrune, pruneFailed, slot, watchVars, fateVars>>

(* An exception in the steps above ends the frame: neither the rejector    *)
(* nor the statistics see it.                                              *)
FrameFaults ==
  /\ At("inference", "infer") \/ (At("inference", "store") /\ hasStore)
  /\ faulted' = faulted \cup {Frame}
  /\ verdict' = "none"
  /\ Goto("inference", "check")
  /\ UNCHANGED <<callerVars, running, camera, grabbed, chanVars, sincePrune,
                 store, pruneFailed, slot, watchVars, dropped, lost, rejected, counted>>

(* Faulty variant: a frame that could not be stored is not rejected.       *)
RejectIfStored ==
  /\ At("inference", "reject")
  /\ rejected' = IF verdict = "reject" /\ hasRejector /\ Frame \in store
                  THEN rejected \cup {Frame} ELSE rejected
  /\ Goto("inference", "count")
  /\ UNCHANGED <<callerVars, running, camera, grabbed, chanVars, inferVars,
                 slot, watchVars, dropped, lost, faulted, counted>>

(* handle_result: then the reject controller.                              *)
RejectResult ==
  /\ At("inference", "reject")
  /\ rejected' = IF verdict = "reject" /\ hasRejector
                  THEN rejected \cup {Frame} ELSE rejected
  /\ Goto("inference", "count")
  /\ UNCHANGED <<callerVars, running, camera, grabbed, chanVars, inferVars,
                 slot, watchVars, dropped, lost, faulted, counted>>

CountResult ==
  /\ At("inference", "count")
  /\ counted' = [counted EXCEPT ![verdict] = @ \cup {Frame}]
  /\ verdict' = "none"
  /\ Goto("inference", "beat")
  /\ UNCHANGED <<callerVars, running, camera, grabbed, chanVars, sincePrune,
                 store, pruneFailed, slot, watchVars, dropped, lost, faulted, rejected>>

(* The store keeps its newest records; when its deletes fail, the caller   *)
(* learns nothing.                                                         *)
Newest(S, n) == {f \in S : Cardinality({g \in S : g > f}) < n}

Prune ==
  \/ store' = Newest(store, MaxRecords) /\ UNCHANGED pruneFailed
  \/ pruneFailed' = TRUE /\ UNCHANGED store

(* Faulty variants: the counter is not reset, and the counter is tested    *)
(* before it is advanced, so that it never reaches the interval.           *)
PruneNoReset ==
  /\ sincePrune' = sincePrune + 1
  /\ IF sincePrune' >= PruneInterval /\ hasStore /\ MaxRecords > 0
     THEN Prune ELSE UNCHANGED <<store, pruneFailed>>
PruneTooLate ==
  /\ sincePrune' = (sincePrune + 1) % PruneInterval
  /\ IF sincePrune = PruneInterval /\ hasStore /\ MaxRecords > 0
     THEN Prune ELSE UNCHANGED <<store, pruneFailed>>

(* prune_if_needed, every PruneInterval frames.                            *)
PruneIfDue ==
  /\ sincePrune' = (sincePrune + 1) % PruneInterval
  /\ IF sincePrune' = 0 /\ hasStore /\ MaxRecords > 0
     THEN Prune ELSE UNCHANGED <<store, pruneFailed>>

(* The watchdog's heartbeat and, each PruneInterval frames, the pruning of *)
(* the store.  Without a display only the result callback is left.         *)
Heartbeat ==
  /\ At("inference", "beat")
  /\ beaten' = TRUE /\ overdue' = FALSE /\ warned' = FALSE
  /\ PruneIfDue
  /\ Goto("inference", IF DisplayEnabled THEN "show" ELSE "check")
  /\ UNCHANGED <<callerVars, running, camera, grabbed, chanVars, verdict, slot,
                 fateVars>>

(* The annotated frame replaces what the display has not taken, unless     *)
(* drawing throws; then the result callback returns or throws.             *)
OfferToDisplay ==
  /\ At("inference", "show")
  /\ slot' \in {slot, {Frame}}
  /\ Goto("inference", "check")
  /\ UNCHANGED <<callerVars, running, camera, grabbed, chanVars, inferVars,
                 watchVars, fateVars>>

InferenceStep ==
  \/ InferenceCheck \/ PopFrame \/ PopNothing \/ Infer \/ StoreResult
  \/ FrameFaults \/ RejectResult \/ CountResult \/ Heartbeat \/ OfferToDisplay

-----------------------------------------------------------------------------
(* display_loop.                                                           *)
DisplayCheck ==
  /\ At("display", "check")
  /\ Goto("display", IF running THEN "wait" ELSE "done")
  /\ UNCHANGED <<callerVars, running, camera, workVars>>

(* The wait ends with a frame, or without one after 50 ms or at a stop.    *)
TakeSlot ==
  /\ At("display", "wait")
  /\ Goto("display", IF slot = {} THEN "check" ELSE "show")
  /\ slot' = {}
  /\ UNCHANGED <<callerVars, running, camera, grabbed, chanVars, inferVars,
                 watchVars, fateVars>>

(* imshow; the user may press ESC.                                         *)
ShowFrame ==
  /\ At("display", "show")
  /\ running' \in {running, FALSE}
  /\ Goto("display", "check")
  /\ UNCHANGED <<callerVars, camera, workVars>>

DisplayStep == DisplayCheck \/ TakeSlot \/ ShowFrame

-----------------------------------------------------------------------------
(* Faulty variant: the watchdog stays as long as inference is overdue.     *)
WatchdogStaysOn ==
  /\ At("watchdog", "check")
  /\ Goto("watchdog", IF running \/ overdue THEN "look" ELSE "done")
  /\ UNCHANGED <<callerVars, running, camera, workVars>>

(* watchdog_loop.                                                          *)
WatchdogCheck ==
  /\ At("watchdog", "check")
  /\ Goto("watchdog", IF running THEN "look" ELSE "done")
  /\ UNCHANGED <<callerVars, running, camera, workVars>>

(* Faulty variant: the age of the heartbeat is compared the other way.     *)
WatchdogLooksBack ==
  /\ At("watchdog", "look")
  /\ warned' = (warned \/ (running /\ WatchdogEnabled /\ beaten /\ ~overdue))
  /\ Goto("watchdog", "check")
  /\ UNCHANGED <<callerVars, running, camera, grabbed, chanVars, inferVars,
                 slot, beaten, overdue, fateVars>>

WatchdogLook ==
  /\ At("watchdog", "look")
  /\ warned' = (warned \/ (running /\ WatchdogEnabled /\ beaten /\ overdue))
  /\ Goto("watchdog", "check")
  /\ UNCHANGED <<callerVars, running, camera, grabbed, chanVars, inferVars,
                 slot, beaten, overdue, fateVars>>

WatchdogStep == WatchdogCheck \/ WatchdogLook

(* The watchdog timeout passes without a frame having been processed.      *)
TimeoutPasses ==
  /\ WatchdogEnabled /\ running /\ ~overdue
  /\ overdue' = TRUE
  /\ UNCHANGED <<callerVars, running, pc, camera, grabbed, chanVars, inferVars,
                 slot, beaten, warned, fateVars>>

-----------------------------------------------------------------------------
Next ==
  \/ Initialize \/ Start \/ StopCall \/ StopStep
  \/ CaptureStep \/ InferenceStep \/ DisplayStep \/ WatchdogStep
  \/ TimeoutPasses

(* Every thread is scheduled, the timed waits of the queue and the display *)
(* end, and the camera, the engine, the store and the callback return.     *)
(* Nobody has to call start() or stop() or press ESC, and no timeout has   *)
(* to pass.                                                                *)
Fairness ==
  /\ WF_vars(StopStep)
  /\ WF_vars(CaptureStep)
  /\ WF_vars(InferenceStep)
  /\ WF_vars(DisplayStep)
  /\ WF_vars(WatchdogStep)

Spec == Init /\ [][Next]_vars /\ Fairness
-----------------------------------------------------------------------------
InferenceHolds == {"infer", "store", "reject", "count"}
AfterCount == {"beat", "show"}
InferenceHand ==
  IF pc["inference"] \in InferenceHolds THEN {Frame} ELSE {}
CaptureHand == IF At("capture", "push") THEN {grabbed} ELSE {}
Handled == faulted \cup CountedFrames
PcValues == {"none", "check", "done", "grab", "push", "pop", "wait", "look"}
              \cup InferenceHolds \cup AfterCount
Replies == {<<a>> : a \in {"none", "accepted", "refused", "nothing"}}
             \cup {<<"item", f>> : f \in Frames}

CallerTypes ==
  /\ main \in {"new", "ready", "stopping", "joining", "cleanup", "stopped"}
  /\ running \in BOOLEAN /\ wasRunning \in BOOLEAN
  /\ hasStore \in BOOLEAN /\ hasRejector \in BOOLEAN
  /\ started \in 0 .. MaxRuns
  /\ camera \in {"closed", "open", "ended"}
ThreadTypes ==
  /\ pc \in [Threads -> PcValues]
  /\ pc["capture"] \in {"none", "check", "grab", "push", "done"}
  /\ pc["inference"] \in {"none", "check", "pop", "done"}
                           \cup InferenceHolds \cup AfterCount
  /\ pc["display"] \in {"none", "check", "wait", "show", "done"}
  /\ pc["watchdog"] \in {"none", "check", "look", "done"}
QueueTypes ==
  /\ grabbed \in 0 .. MaxFrames
  /\ At("capture", "push") => grabbed > 0
  /\ accepted \in Seq(Frames)
  /\ taken \in 0 .. Len(accepted)
  /\ closed \in BOOLEAN
  /\ reply \in [{"capture", "inference"} -> Replies]
ResultTypes ==
  /\ pc["inference"] \in InferenceHolds \cup AfterCount => Frame \in Frames
  /\ verdict \in Verdicts \cup {"none"}
  /\ pc["inference"] \in {"store", "reject", "count"} => verdict \in Verdicts
  /\ sincePrune \in 0 .. PruneInterval - 1
  /\ store \subseteq Frames /\ slot \subseteq Frames
  /\ pruneFailed \in BOOLEAN
  /\ beaten \in BOOLEAN /\ overdue \in BOOLEAN /\ warned \in BOOLEAN
FateTypes ==
  /\ dropped \subseteq Frames /\ lost \subseteq Frames
  /\ faulted \subseteq Frames /\ rejected \subseteq Frames
  /\ counted \in [Verdicts -> SUBSET Frames]

(* Every variable has its type; the frame and the verdict that a step of   *)
(* the inference thread uses are ones it has.                              *)
TypeOK == CallerTypes /\ ThreadTypes /\ QueueTypes /\ ResultTypes /\ FateTypes

(* When stop() gets to its cleanup, and from its return to the next        *)
(* start(), no thread of the pipeline exists: the camera is the capture    *)
(* thread's alone, and no frame is stored, rejected or shown behind the    *)
(* caller's back.                                                          *)
StopIsComplete ==
  main \in {"new", "cleanup", "stopped"} => NoThreads /\ ~running

(* No frame gets lost and none is inspected twice: every frame the camera  *)
(* produced is in exactly one place - dropped by push(), in the queue,     *)
(* cleared out of it by a restart, in the hands of a thread, taken by an   *)
(* exception, or counted under exactly one verdict.                        *)
FramesAccountedFor ==
  LET places == <<dropped, lost, Waiting, CaptureHand, InferenceHand, faulted,
                  CountedFrames>>
      all == DOMAIN places
  IN  /\ 1 .. grabbed = UNION {places[i] : i \in all}
      /\ \A i, j \in all : i # j => places[i] \cap places[j] = {}
      /\ \A v, w \in Verdicts : v # w => counted[v] \cap counted[w] = {}

(* The statistics agree with the line: a rejector was triggered for just   *)
(* the frames counted as rejects, and for the one about to be counted;     *)
(* a frame whose insert failed is no exception.                            *)
RejectsMatchStats ==
  rejected = IF hasRejector
             THEN counted["reject"] \cup
                    (IF At("inference", "count") /\ verdict = "reject"
                     THEN {Frame} ELSE {})
             ELSE {}

(* Frames are finished in the order they were captured, also across runs.  *)
HandledInOrder ==
  [][\A f \in Handled' \ Handled : \A g \in Handled : g < f]_vars

(* The store stays within max_db_records and what a prune interval adds,   *)
(* except that a restart forgets how many frames the last run added and    *)
(* that a prune may fail.                                                  *)
StoreBounded ==
  MaxRecords > 0 /\ ~pruneFailed =>
    Cardinality(store) <= MaxRecords + started * (PruneInterval - 1) + 1

(* stop() returns, whatever the threads were doing.                        *)
StopReturns == (main = "stopping") ~> (main = "stopped")

(* A frame taken from the queue is inspected to the end or faults, also    *)
(* when a stop comes in between.                                           *)
InspectionEnds ==
  \A f \in Frames : (f \in InferenceHand) ~> (f \in Handled)

(* A stall after the first frame of a run is warned about, unless it ends. *)
StallIsReported ==
  (running /\ beaten /\ overdue) ~> (warned \/ ~overdue \/ ~running)

(* Seen from main.cpp, the four threads are what PipelineThreads says: the *)
(* steps of a thread between two tests of running_ are one round of work,  *)
(* and neither a full queue, nor an exception, nor a frame in hand keeps a *)
(* round from ending.                                                      *)
Life == INSTANCE PipelineThreads WITH
  Quitter <- "display",
  phase <- IF main \in {"stopping", "joining"} THEN "stopping" ELSE "idle",
  thread <- [t \in Threads |->
               IF pc[t] \in {"none", "check", "done"} THEN pc[t] ELSE "work"]
ImplementsThreads == Life!Spec
-----------------------------------------------------------------------------
(* What the code's own words promise and the code does not keep.           *)

(* "already stopped - skip logging/cleanup" (defect_pipeline.cpp:112): when *)
(* stop() returns from a run, the camera has been closed, by this stop()   *)
(* or by an earlier one.                                                   *)
StopClosesCamera == main = "stopped" /\ started > 0 => camera # "open"

(* "Log once, then close so capture_loop sees is_open() == false"          *)
(* (camera_manager.cpp:118): after the end of a video the capture loop     *)
(* does not go back to grabbing frames.                                    *)
NoGrabAfterEnd ==
  [][~(camera = "ended" /\ At("capture", "check") /\ pc'["capture"] = "grab")]_vars

(* "If no frame is processed within inference_watchdog_timeout_ms, it logs *)
(* a WARN" (README.md:445): every stall is warned about, unless it ends.   *)
EveryStallIsReported == (running /\ overdue) ~> (warned \/ ~overdue \/ ~running)
=============================================================================
