------------------------ MODULE DefectPipelineProofs ------------------------
(***************************************************************************)
(* Proofs about DefectPipeline, for every queue capacity, set of verdicts, *)
(* prune interval, number of frames and number of runs.                    *)
(***************************************************************************)
EXTENDS DefectPipeline, TLAPS, SequenceTheorems, FiniteSetTheorems,
        WellFoundedInduction

(* The frame at the front of the queue.                                    *)
LEMMA FrontType ==
  ASSUME QueueTypes, Queue!Backlog > 0
  PROVE  /\ taken + 1 \in 1 .. Len(accepted)
         /\ accepted[taken + 1] \in Frames
<1>1. Len(accepted) \in Nat  BY DEF QueueTypes
<1>2. taken + 1 \in 1 .. Len(accepted)  BY <1>1 DEF QueueTypes, Queue!Backlog
<1> QED  BY <1>2, ElementOfSeq DEF QueueTypes

(* What the queue's operations leave in reply.                             *)
LEMMA ReplyType ==
  ASSUME QueueTypes, NEW c \in {"capture", "inference"}, NEW v \in Replies,
         reply' = [reply EXCEPT ![c] = v]
  PROVE  /\ reply' \in [{"capture", "inference"} -> Replies]
         /\ reply'[c] = v
         /\ \A d \in {"capture", "inference"} \ {c} : reply'[d] = reply[d]
BY DEF QueueTypes

(* What a thread's step leaves in pc.                                      *)
LEMMA PcType ==
  ASSUME ThreadTypes, NEW t \in Threads, NEW s \in PcValues, Goto(t, s)
  PROVE  /\ pc' \in [Threads -> PcValues]
         /\ pc'[t] = s
         /\ \A u \in Threads \ {t} : pc'[u] = pc[u]
BY DEF ThreadTypes, Goto

LEMMA InitType == Init => TypeOK
<1> SUFFICES ASSUME Init PROVE TypeOK
  OBVIOUS
<1>1. CallerTypes
  <2>1. hasStore \in BOOLEAN /\ hasRejector \in BOOLEAN
    <3>1. /\ ("store" \in Injected) \in BOOLEAN
          /\ ("rejector" \in Injected) \in BOOLEAN
      OBVIOUS
    <3> QED  BY <3>1, Zenon DEF Init
  <2>2. /\ main = "new" /\ running = FALSE /\ wasRunning = FALSE
        /\ started = 0 /\ camera = "closed"
    BY Zenon DEF Init
  <2>3. 0 \in 0 .. MaxRuns  BY BoundsAssumption
  <2> QED  BY <2>1, <2>2, <2>3, Zenon DEF CallerTypes
<1>2. \A t \in Threads : pc[t] = "none"  BY DEF Init
<1>3. ThreadTypes
  BY <1>2 DEF Init, ThreadTypes, PcValues, Threads
<1>4. QueueTypes
  <2>1. <<>> \in Seq(Frames) /\ Len(<<>>) = 0  BY EmptySeq
  <2>2. Queue!Clients = {"capture", "inference"}  BY DEF Queue!Clients
  <2>3. reply = [c \in {"capture", "inference"} |-> <<"none">>]
    BY <2>2, Zenon DEF Init, Queue!Init, Queue!NoReply
  <2>4. <<"none">> \in Replies  BY DEF Replies
  <2>5. reply \in [{"capture", "inference"} -> Replies]
    BY <2>3, <2>4
  <2>6. accepted \in Seq(Frames) /\ taken \in 0 .. Len(accepted)
    BY <2>1 DEF Init, Queue!Init
  <2>7. closed \in BOOLEAN  BY DEF Init, Queue!Init
  <2> QED
    BY <1>2, <2>5, <2>6, <2>7, BoundsAssumption
    DEF Init, QueueTypes, At, Threads
<1>5. ResultTypes
  <2>1. /\ pc["inference"] \notin InferenceHolds \cup AfterCount
        /\ pc["inference"] \notin {"store", "reject", "count"}
    BY <1>2 DEF InferenceHolds, AfterCount, Threads
  <2>2. 0 \in 0 .. PruneInterval - 1  BY BoundsAssumption
  <2> QED  BY <2>1, <2>2, Zenon DEF Init, ResultTypes
<1>6. FateTypes  BY DEF Init, FateTypes
<1> QED  BY <1>1, <1>3, <1>4, <1>5, <1>6 DEF TypeOK

(* The calling thread's steps.                                             *)
LEMMA CallerStepType ==
  ASSUME TypeOK,
         Initialize \/ Start \/ StopCall \/ StopStep \/ TimeoutPasses
  PROVE  TypeOK'
<1> USE DEF TypeOK
<1>1. CASE Initialize
  <2>1. CallerTypes'  BY <1>1 DEF CallerTypes, Initialize
  <2>2. UNCHANGED <<pc, workVars>>  BY <1>1 DEF Initialize
  <2> QED
    BY <2>1, <2>2
    DEF workVars, chanVars, inferVars, watchVars, fateVars, ThreadTypes,
        QueueTypes, ResultTypes, FateTypes, At, Frame
<1>2. CASE Start
  <2>1. CallerTypes'
    <3>1. started' \in 0 .. MaxRuns
      BY <1>2, BoundsAssumption DEF CallerTypes, Start
    <3> QED  BY <1>2, <3>1, Zenon DEF CallerTypes, Start
  <2>2. /\ pc' \in [Threads -> PcValues]
        /\ \A t \in Threads : pc'[t] \in {"none", "check"}
    BY <1>2 DEF Start, PcValues
  <2>3. ThreadTypes'  BY <2>2 DEF ThreadTypes, Threads
  <2>4. QueueTypes'
    <3>1. <<>> \in Seq(Frames) /\ Len(<<>>) = 0  BY EmptySeq
    <3>2. accepted' = <<>> /\ taken' = 0 /\ closed' = FALSE /\ reply' = reply
      BY <1>2 DEF Start, Queue!Clear
    <3>3. grabbed' = grabbed  BY <1>2 DEF Start
    <3>4. ~At("capture", "push")'  BY <2>2 DEF At, Threads
    <3>5. closed' \in BOOLEAN  BY <3>2, Zenon
    <3> QED  BY <3>1, <3>2, <3>3, <3>4, <3>5 DEF QueueTypes
  <2>5. ResultTypes'
    <3>1. /\ sincePrune' = 0 /\ beaten' = FALSE /\ overdue' = FALSE
          /\ warned' = FALSE
          /\ UNCHANGED <<verdict, store, pruneFailed, slot>>
      BY <1>2 DEF Start
    <3>2. pc'["inference"] \notin InferenceHolds \cup AfterCount
      BY <2>2 DEF InferenceHolds, AfterCount, Threads
    <3>3. pc'["inference"] \notin {"store", "reject", "count"}
      BY <2>2 DEF Threads
    <3>4. sincePrune' \in 0 .. PruneInterval - 1
      BY <3>1, BoundsAssumption
    <3>5. beaten' \in BOOLEAN /\ overdue' \in BOOLEAN /\ warned' \in BOOLEAN
      BY <3>1, Zenon
    <3> QED  BY <3>1, <3>2, <3>3, <3>4, <3>5 DEF ResultTypes
  <2>6. FateTypes'
    <3>1. Waiting \subseteq Frames
      BY ElementOfSeq DEF Waiting, QueueTypes
    <3> QED  BY <1>2, <3>1 DEF FateTypes, Start
  <2> QED  BY <2>1, <2>3, <2>4, <2>5, <2>6
<1>3. CASE StopCall
  <2>1. CallerTypes'  BY <1>3 DEF CallerTypes, StopCall
  <2>2. UNCHANGED <<pc, workVars>>  BY <1>3 DEF StopCall
  <2> QED
    BY <2>1, <2>2
    DEF workVars, chanVars, inferVars, watchVars, fateVars, ThreadTypes,
        QueueTypes, ResultTypes, FateTypes, At, Frame
<1>4. CASE StopQueue
  <2>1. CallerTypes'  BY <1>4 DEF CallerTypes, StopQueue
  <2>2. QueueTypes'
    BY <1>4 DEF QueueTypes, StopQueue, Queue!Close, At
  <2>3. UNCHANGED <<pc, reply, inferVars, slot, watchVars, fateVars>>
    BY <1>4 DEF StopQueue, Queue!Close
  <2> QED
    BY <2>1, <2>2, <2>3
    DEF inferVars, watchVars, fateVars, ThreadTypes, ResultTypes, FateTypes,
        Frame
<1>5. ASSUME NEW i \in 1 .. 4, Join(i) PROVE TypeOK'
  <2>1. JoinOrder[i] \in Threads  BY DEF JoinOrder, Threads
  <2>2. Goto(JoinOrder[i], "none")
        /\ UNCHANGED <<callerVars, running, camera, workVars>>
    BY <1>5 DEF Join
  <2>3. /\ pc' \in [Threads -> PcValues]
        /\ \A t \in Threads : pc'[t] \in {pc[t], "none"}
    BY <2>1, <2>2, PcType DEF PcValues
  <2> QED
    BY <2>2, <2>3
    DEF workVars, callerVars, chanVars, inferVars, watchVars, fateVars,
        CallerTypes, ThreadTypes, QueueTypes, ResultTypes, FateTypes, At, Frame,
        Threads, InferenceHolds, AfterCount
<1>6. CASE Joined \/ Cleanup
  <2>1. CallerTypes'  BY <1>6 DEF CallerTypes, Joined, Cleanup
  <2>2. UNCHANGED <<pc, workVars>>  BY <1>6 DEF Joined, Cleanup
  <2> QED
    BY <2>1, <2>2
    DEF workVars, chanVars, inferVars, watchVars, fateVars, ThreadTypes,
        QueueTypes, ResultTypes, FateTypes, At, Frame
<1>7. CASE TimeoutPasses
  BY <1>7
  DEF TimeoutPasses, callerVars, chanVars, inferVars, fateVars, CallerTypes,
      ThreadTypes, QueueTypes, ResultTypes, FateTypes, At, Frame
<1> QED
  BY <1>1, <1>2, <1>3, <1>4, <1>5, <1>6, <1>7 DEF StopStep

(* The capture thread's steps.                                             *)
LEMMA CaptureStepType ==
  ASSUME TypeOK, CaptureStep
  PROVE  TypeOK'
<1> USE DEF TypeOK
<1>1. /\ UNCHANGED <<main, wasRunning, started, hasStore, hasRejector, running>>
      /\ UNCHANGED <<inferVars, slot, watchVars, lost, faulted, rejected, counted>>
  BY DEF CaptureStep, CaptureCheck, GrabFrame, GrabNothing, GrabEndOfVideo,
         PushFrame, DropFrame, callerVars, workVars, fateVars
<1>2. CallerTypes'
  BY <1>1
  DEF CaptureStep, CaptureCheck, GrabFrame, GrabNothing, GrabEndOfVideo,
      PushFrame, DropFrame, CallerTypes
<1>3. PICK s \in {"check", "grab", "push", "done"} : Goto("capture", s)
  BY DEF CaptureStep, CaptureCheck, GrabFrame, GrabNothing, GrabEndOfVideo,
         PushFrame, DropFrame
<1>4. /\ pc' \in [Threads -> PcValues]
      /\ pc'["capture"] = s
      /\ \A u \in Threads \ {"capture"} : pc'[u] = pc[u]
  BY <1>3, PcType DEF Threads, PcValues
<1>5. ThreadTypes'  BY <1>4 DEF ThreadTypes, Threads
<1>6. QueueTypes' /\ reply'["inference"] = reply["inference"]
  <2>1. CASE CaptureCheck \/ GrabNothing \/ GrabEndOfVideo
    <3>1. pc'["capture"] \in {"check", "grab", "done"}
      BY <2>1, PcType
      DEF CaptureCheck, GrabNothing, GrabEndOfVideo, Threads, PcValues
    <3> QED
      BY <2>1, <3>1
      DEF CaptureCheck, GrabNothing, GrabEndOfVideo, QueueTypes, workVars,
          chanVars, At
  <2>2. CASE GrabFrame
    BY <2>2, BoundsAssumption DEF GrabFrame, QueueTypes, chanVars, At
  <2>3. CASE PushFrame \/ DropFrame
    <3>1. grabbed \in Frames
      BY <2>3 DEF PushFrame, DropFrame, QueueTypes, Frames
    <3>2. pc'["capture"] = "check"
      BY <2>3, PcType DEF PushFrame, DropFrame, Threads, PcValues
    <3>3. PICK v \in Replies : reply' = [reply EXCEPT !["capture"] = v]
      BY <2>3
      DEF PushFrame, DropFrame, Queue!Accept, Queue!Refuse, Replies
    <3>4. /\ reply' \in [{"capture", "inference"} -> Replies]
          /\ reply'["inference"] = reply["inference"]
      BY <3>3, ReplyType
    <3>5. accepted' \in Seq(Frames) /\ taken' \in 0 .. Len(accepted')
      BY <2>3, <3>1
      DEF PushFrame, DropFrame, Queue!Accept, Queue!Refuse, QueueTypes
    <3>6. grabbed' = grabbed /\ closed' = closed
      BY <2>3 DEF PushFrame, DropFrame, Queue!Accept, Queue!Refuse
    <3> QED  BY <3>2, <3>4, <3>5, <3>6 DEF QueueTypes, At
  <2> QED  BY <2>1, <2>2, <2>3 DEF CaptureStep
<1>7. ResultTypes'
  BY <1>1, <1>4, <1>6 DEF ResultTypes, inferVars, watchVars, Frame, Threads
<1>8. FateTypes'
  <2>1. CASE DropFrame
    BY <1>1, <2>1 DEF DropFrame, QueueTypes, Frames, FateTypes, At
  <2>2. CASE ~DropFrame
    BY <1>1, <2>2
    DEF CaptureStep, CaptureCheck, GrabFrame, GrabNothing, GrabEndOfVideo,
        PushFrame, FateTypes, fateVars, workVars
  <2> QED  BY <2>1, <2>2
<1> QED  BY <1>2, <1>5, <1>6, <1>7, <1>8

(* The display and watchdog threads' steps.                                *)
LEMMA WatcherStepType ==
  ASSUME TypeOK, DisplayStep \/ WatchdogStep
  PROVE  TypeOK'
<1> USE DEF TypeOK
<1>1. PICK t \in {"display", "watchdog"},
           s \in {"check", "wait", "show", "look", "done"} : Goto(t, s)
  BY DEF DisplayStep, WatchdogStep, DisplayCheck, TakeSlot, ShowFrame,
         WatchdogCheck, WatchdogLook
<1>2. /\ pc' \in [Threads -> PcValues]
      /\ \A u \in Threads \ {"display", "watchdog"} : pc'[u] = pc[u]
  BY <1>1, PcType DEF Threads, PcValues, AfterCount
<1>3. ThreadTypes'
  BY <1>2
  DEF ThreadTypes, DisplayStep, WatchdogStep, DisplayCheck, TakeSlot, ShowFrame,
      WatchdogCheck, WatchdogLook, Threads, Goto
<1>4. CallerTypes'
  BY DEF CallerTypes, DisplayStep, WatchdogStep, DisplayCheck, TakeSlot,
         ShowFrame, WatchdogCheck, WatchdogLook, callerVars
<1>5. UNCHANGED <<grabbed, chanVars, inferVars, beaten, overdue, fateVars>>
  BY DEF DisplayStep, WatchdogStep, DisplayCheck, TakeSlot,
         ShowFrame, WatchdogCheck, WatchdogLook, workVars, watchVars
<1>6. slot' \subseteq Frames /\ warned' \in BOOLEAN
  <2>1. CASE DisplayStep
    BY <2>1
    DEF DisplayStep, DisplayCheck, TakeSlot, ShowFrame, workVars, watchVars,
        ResultTypes
  <2>2. CASE WatchdogStep
    BY <2>2
    DEF WatchdogStep, WatchdogCheck, WatchdogLook, workVars, watchVars,
        ResultTypes
  <2> QED  BY <2>1, <2>2
<1> QED
  BY <1>2, <1>3, <1>4, <1>5, <1>6
  DEF chanVars, inferVars, fateVars, QueueTypes, ResultTypes, FateTypes, At,
      Frame, Threads

(* The inference thread's steps, except the ones at the queue.             *)
LEMMA InferenceStepType ==
  ASSUME TypeOK,
         \/ InferenceCheck \/ Infer \/ StoreResult \/ FrameFaults
         \/ RejectResult \/ CountResult \/ Heartbeat \/ OfferToDisplay
  PROVE  TypeOK'
<1> USE DEF TypeOK
<1>1. UNCHANGED <<callerVars, running, camera, grabbed, chanVars, dropped, lost>>
  BY DEF InferenceCheck, Infer, StoreResult, FrameFaults, RejectResult,
         CountResult, Heartbeat, OfferToDisplay, workVars, fateVars
<1>2. CallerTypes'  BY <1>1 DEF CallerTypes, callerVars
<1>3. PICK s \in {"check", "pop", "done"} \cup InferenceHolds \cup AfterCount :
             Goto("inference", s)
  BY DEF InferenceCheck, Infer, StoreResult, FrameFaults, RejectResult,
         CountResult, Heartbeat, OfferToDisplay, InferenceHolds, AfterCount
<1>4. /\ pc' \in [Threads -> PcValues]
      /\ pc'["inference"] = s
      /\ \A u \in Threads \ {"inference"} : pc'[u] = pc[u]
  BY <1>3, PcType DEF Threads, PcValues
<1>5. ThreadTypes'  BY <1>4 DEF ThreadTypes, Threads
<1>6. QueueTypes'  BY <1>1, <1>4 DEF QueueTypes, chanVars, At, Threads
<1>7. Frame' = Frame  BY <1>1 DEF Frame, chanVars
<1>8. pc["inference"] \in InferenceHolds \cup AfterCount => Frame \in Frames
  BY DEF ResultTypes
<1>9. CASE InferenceCheck
  BY <1>2, <1>5, <1>6, <1>7, <1>9, PcType
  DEF InferenceCheck, ResultTypes, FateTypes, workVars, inferVars, watchVars,
      fateVars, InferenceHolds, AfterCount, Threads, PcValues
<1>10. CASE Infer
  <2>1. pc'["inference"] = "store"
    BY <1>10, PcType DEF Infer, Threads, PcValues, InferenceHolds
  <2> QED
    BY <1>2, <1>5, <1>6, <1>7, <1>8, <1>10, <2>1
    DEF Infer, ResultTypes, FateTypes, watchVars, fateVars, InferenceHolds,
        AfterCount, At
<1>11. CASE StoreResult
  <2>1. pc'["inference"] = "reject"
    BY <1>11, PcType DEF StoreResult, Threads, PcValues, InferenceHolds
  <2> QED
    BY <1>2, <1>5, <1>6, <1>7, <1>8, <1>11, <2>1
    DEF StoreResult, ResultTypes, FateTypes, watchVars, fateVars,
        InferenceHolds, AfterCount, At
<1>12. CASE FrameFaults
  <2>1. pc'["inference"] = "check"
    BY <1>12, PcType DEF FrameFaults, Threads, PcValues
  <2> QED
    BY <1>2, <1>5, <1>6, <1>7, <1>8, <1>12, <2>1
    DEF FrameFaults, ResultTypes, FateTypes, watchVars, InferenceHolds,
        AfterCount, At
<1>13. CASE RejectResult
  <2>1. pc'["inference"] = "count"
    BY <1>13, PcType DEF RejectResult, Threads, PcValues, InferenceHolds
  <2> QED
    BY <1>2, <1>5, <1>6, <1>7, <1>8, <1>13, <2>1
    DEF RejectResult, ResultTypes, FateTypes, inferVars, watchVars,
        InferenceHolds, AfterCount, At
<1>14. CASE CountResult
  <2>1. pc'["inference"] = "beat"
    BY <1>14, PcType DEF CountResult, Threads, PcValues, AfterCount
  <2>2. Frame \in Frames  BY <1>8, <1>14 DEF CountResult, At, InferenceHolds
  <2>3. counted' \in [Verdicts -> SUBSET Frames]
    BY <1>14, <2>2 DEF CountResult, FateTypes
  <2> QED
    BY <1>2, <1>5, <1>6, <1>7, <1>14, <2>1, <2>2, <2>3
    DEF CountResult, ResultTypes, FateTypes, watchVars
<1>15. CASE Heartbeat
  <2>1. pc'["inference"] \in {"show", "check"}
    BY <1>15, PcType DEF Heartbeat, Threads, PcValues, AfterCount
  <2>2. sincePrune' \in 0 .. PruneInterval - 1
    BY <1>15, BoundsAssumption DEF Heartbeat, PruneIfDue, ResultTypes
  <2>3. store' \subseteq Frames /\ pruneFailed' \in BOOLEAN
    <3>1. CASE UNCHANGED <<store, pruneFailed>>
      BY <3>1 DEF ResultTypes
    <3>2. CASE store' = Newest(store, MaxRecords) /\ UNCHANGED pruneFailed
      BY <3>2 DEF ResultTypes, Newest
    <3>3. CASE pruneFailed' = TRUE /\ UNCHANGED store
      BY <3>3 DEF ResultTypes
    <3> QED  BY <1>15, <3>1, <3>2, <3>3, Zenon DEF Heartbeat, PruneIfDue, Prune
  <2>4. beaten' \in BOOLEAN /\ overdue' \in BOOLEAN /\ warned' \in BOOLEAN
    BY <1>15, Zenon DEF Heartbeat
  <2>5. Frame \in Frames  BY <1>8, <1>15 DEF Heartbeat, At, AfterCount
  <2> QED
    BY <1>2, <1>5, <1>6, <1>7, <1>15, <2>1, <2>2, <2>3, <2>4, <2>5
    DEF Heartbeat, ResultTypes, FateTypes, fateVars
<1>16. CASE OfferToDisplay
  <2>1. pc'["inference"] = "check"
    BY <1>16, PcType DEF OfferToDisplay, Threads, PcValues
  <2> QED
    BY <1>2, <1>5, <1>6, <1>7, <1>8, <1>16, <2>1
    DEF OfferToDisplay, ResultTypes, FateTypes, inferVars, watchVars, fateVars,
        InferenceHolds, AfterCount, At
<1> QED
  BY <1>9, <1>10, <1>11, <1>12, <1>13, <1>14, <1>15, <1>16

(* The inference thread's steps at the queue.                              *)
LEMMA PopStepType ==
  ASSUME TypeOK, PopFrame \/ PopNothing
  PROVE  TypeOK'
<1> USE DEF TypeOK
<1>1. UNCHANGED <<callerVars, running, camera, grabbed, accepted, closed,
                  inferVars, slot, watchVars, fateVars>>
  BY DEF PopFrame, PopNothing, Queue!Deliver, Queue!Nothing
<1>2. CallerTypes'  BY <1>1 DEF CallerTypes, callerVars
<1>3. FateTypes'  BY <1>1 DEF FateTypes, fateVars
<1>4. CASE PopFrame
  <2>1. /\ pc' \in [Threads -> PcValues]
        /\ pc'["inference"] = "infer"
        /\ \A u \in Threads \ {"inference"} : pc'[u] = pc[u]
    BY <1>4, PcType DEF PopFrame, Threads, PcValues, InferenceHolds
  <2>2. taken + 1 \in 1 .. Len(accepted) /\ accepted[taken + 1] \in Frames
    BY <1>4, FrontType DEF PopFrame, Queue!Deliver
  <2>3. <<"item", accepted[taken + 1]>> \in Replies
    BY <2>2 DEF Replies
  <2>4. reply' = [reply EXCEPT !["inference"] = <<"item", accepted[taken + 1]>>]
        /\ taken' = taken + 1
    BY <1>4 DEF PopFrame, Queue!Deliver
  <2>5. /\ reply' \in [{"capture", "inference"} -> Replies]
        /\ reply'["inference"] = <<"item", accepted[taken + 1]>>
    BY <2>3, <2>4, ReplyType
  <2>6. Frame' \in Frames  BY <2>2, <2>5 DEF Frame
  <2>7. taken' \in 0 .. Len(accepted)  BY <2>2, <2>4 DEF QueueTypes
  <2>8. ThreadTypes'
    BY <2>1 DEF ThreadTypes, Threads, InferenceHolds
  <2>9. QueueTypes'
    BY <1>1, <2>1, <2>5, <2>7 DEF QueueTypes, At, Threads
  <2> QED
    BY <1>1, <1>2, <1>3, <2>1, <2>6, <2>8, <2>9
    DEF ResultTypes, inferVars, watchVars
<1>5. CASE PopNothing
  <2>1. /\ pc' \in [Threads -> PcValues]
        /\ pc'["inference"] = "check"
        /\ \A u \in Threads \ {"inference"} : pc'[u] = pc[u]
    BY <1>5, PcType DEF PopNothing, Threads, PcValues
  <2>2. <<"nothing">> \in Replies  BY DEF Replies
  <2>3. reply' = [reply EXCEPT !["inference"] = <<"nothing">>] /\ taken' = taken
    BY <1>5 DEF PopNothing, Queue!Nothing
  <2>4. reply' \in [{"capture", "inference"} -> Replies]
    BY <2>2, <2>3, ReplyType
  <2>5. ThreadTypes'  BY <2>1 DEF ThreadTypes, Threads
  <2>6. QueueTypes'
    BY <1>1, <2>1, <2>3, <2>4 DEF QueueTypes, At, Threads
  <2> QED
    BY <1>1, <1>2, <1>3, <2>1, <2>5, <2>6
    DEF ResultTypes, inferVars, watchVars, InferenceHolds, AfterCount
<1> QED  BY <1>4, <1>5

LEMMA StutterType == ASSUME TypeOK, UNCHANGED vars PROVE TypeOK'
BY DEF TypeOK, vars, callerVars, workVars, chanVars, inferVars, watchVars,
       fateVars, CallerTypes, ThreadTypes, QueueTypes, ResultTypes, FateTypes,
       At, Frame

(* Every reachable state has the types TypeOK gives.                       *)
THEOREM TypeCorrect == Spec => []TypeOK
<1>1. TypeOK /\ [Next]_vars => TypeOK'
  BY CallerStepType, CaptureStepType, WatcherStepType, InferenceStepType,
     PopStepType, StutterType
  DEF Next, InferenceStep
<1> QED  BY InitType, <1>1, PTL DEF Spec
-----------------------------------------------------------------------------
(* What StopIsComplete rests on: before the first start there is nothing   *)
(* to stop, running_ is set only while the pipeline is started, and only   *)
(* the calling thread creates threads, in start(), and joins them, in      *)
(* stop().                                                                 *)
StopInv ==
  /\ StopIsComplete
  /\ main \in {"stopping", "joining"} => ~running

(* A step of one of the pipeline's threads leaves no thread behind that    *)
(* was not there, and never sets running_.                                 *)
LEMMA ThreadStepKeepsStopInv ==
  ASSUME TypeOK, StopInv,
         CaptureStep \/ InferenceStep \/ DisplayStep \/ WatchdogStep
  PROVE  StopInv'
<1>1. PICK t \in Threads : pc[t] # "none"
  BY DEF CaptureStep, CaptureCheck, GrabFrame, GrabNothing, GrabEndOfVideo,
         PushFrame, DropFrame, InferenceStep, InferenceCheck, PopFrame,
         PopNothing, Infer, StoreResult, FrameFaults, RejectResult, CountResult,
         Heartbeat, OfferToDisplay, DisplayStep, DisplayCheck, TakeSlot,
         ShowFrame, WatchdogStep, WatchdogCheck, WatchdogLook, At, Threads
<1>2. main \notin {"new", "cleanup", "stopped"}
  BY <1>1 DEF StopInv, StopIsComplete, NoThreads, At
<1>3. main' = main
  BY DEF CaptureStep, CaptureCheck, GrabFrame, GrabNothing, GrabEndOfVideo,
         PushFrame, DropFrame, InferenceStep, InferenceCheck, PopFrame,
         PopNothing, Infer, StoreResult, FrameFaults, RejectResult, CountResult,
         Heartbeat, OfferToDisplay, DisplayStep, DisplayCheck, TakeSlot,
         ShowFrame, WatchdogStep, WatchdogCheck, WatchdogLook, callerVars
<1>4. running' = running \/ running' = FALSE
  BY DEF CaptureStep, CaptureCheck, GrabFrame, GrabNothing, GrabEndOfVideo,
         PushFrame, DropFrame, InferenceStep, InferenceCheck, PopFrame,
         PopNothing, Infer, StoreResult, FrameFaults, RejectResult, CountResult,
         Heartbeat, OfferToDisplay, DisplayStep, DisplayCheck, TakeSlot,
         ShowFrame, WatchdogStep, WatchdogCheck, WatchdogLook
<1> QED  BY <1>2, <1>3, <1>4 DEF StopInv, StopIsComplete

LEMMA StopInvariant == Spec => []StopInv
<1>1. Init => StopInv
  BY DEF Init, StopInv, StopIsComplete, NoThreads, At
<1>2. TypeOK /\ StopInv /\ [Next]_vars => StopInv'
  <2> SUFFICES ASSUME TypeOK, StopInv, [Next]_vars PROVE StopInv'
    OBVIOUS
  <2>1. CASE Initialize
    BY <2>1 DEF Initialize, StopInv, StopIsComplete, NoThreads, At
  <2>2. CASE Start
    BY <2>2 DEF Start, StopInv, StopIsComplete
  <2>3. CASE StopCall
    BY <2>3 DEF StopCall, StopInv, StopIsComplete
  <2>4. CASE StopQueue
    BY <2>4 DEF StopQueue, StopInv, StopIsComplete
  <2>5. ASSUME NEW i \in 1 .. 4, Join(i) PROVE StopInv'
    BY <2>5 DEF Join, StopInv, StopIsComplete, callerVars
  <2>6. CASE Joined
    BY <2>6 DEF Joined, StopInv, StopIsComplete, NoThreads, At
  <2>7. CASE Cleanup
    BY <2>7 DEF Cleanup, StopInv, StopIsComplete, NoThreads, At
  <2>8. CASE CaptureStep \/ InferenceStep \/ DisplayStep \/ WatchdogStep
    BY <2>8, ThreadStepKeepsStopInv
  <2>9. CASE TimeoutPasses
    BY <2>9
    DEF TimeoutPasses, StopInv, StopIsComplete, NoThreads, At, callerVars
  <2>10. CASE UNCHANGED vars
    BY <2>10 DEF vars, callerVars, StopInv, StopIsComplete, NoThreads, At
  <2> QED
    BY <2>1, <2>2, <2>3, <2>4, <2>5, <2>6, <2>7, <2>8, <2>9, <2>10
    DEF Next, StopStep
<1> QED  BY <1>1, <1>2, TypeCorrect, PTL DEF Spec

(* When stop() gets to its cleanup, and until the next start(), no thread  *)
(* of the pipeline is left.                                                *)
THEOREM StopComplete == Spec => []StopIsComplete
<1>1. StopInv => StopIsComplete  BY DEF StopInv
<1> QED  BY <1>1, StopInvariant, PTL
-----------------------------------------------------------------------------

(* What RejectsMatchStats rests on: the rejector is only dropped before    *)
(* the first start, when there is nothing to reject yet.                   *)
RejectInv ==
  /\ RejectsMatchStats
  /\ main = "new" => rejected = {} /\ counted["reject"] = {}

(* Steps that leave the inference thread alone and count nothing.          *)
LEMMA RejectInvKept ==
  ASSUME RejectInv, UNCHANGED <<verdict, rejected, counted, hasRejector>>,
         main' = "new" => main = "new",
         At("inference", "count")' <=> At("inference", "count"),
         At("inference", "count") => Frame' = Frame
  PROVE  RejectInv'
BY DEF RejectInv, RejectsMatchStats

(* A rejector was triggered for the frames counted as rejects, and no      *)
(* others, whatever the store and the threads do.                          *)
THEOREM RejectsMatch == Spec => []RejectsMatchStats
<1>1. Init => RejectInv
  <2> SUFFICES ASSUME Init PROVE RejectInv
    OBVIOUS
  <2>1. ~At("inference", "count")  BY DEF Init, At, Threads
  <2>2. rejected = {} /\ counted["reject"] = {}
    BY VerdictsAssumption DEF Init
  <2> QED  BY <2>1, <2>2 DEF RejectInv, RejectsMatchStats
<1>2. TypeOK /\ StopInv /\ RejectInv /\ [Next]_vars => RejectInv'
  <2> SUFFICES ASSUME TypeOK, StopInv, RejectInv, [Next]_vars PROVE RejectInv'
    OBVIOUS
  <2> USE DEF At
  <2>1. CASE Initialize
    <3>1. pc["inference"] = "none"
      BY <2>1 DEF Initialize, StopInv, StopIsComplete, NoThreads, Threads
    <3>2. /\ rejected = {} /\ counted["reject"] = {}
          /\ UNCHANGED <<pc, rejected, counted>>
      BY <2>1 DEF Initialize, RejectInv, workVars, fateVars
    <3> QED  BY <3>1, <3>2 DEF RejectInv, RejectsMatchStats
  <2>2. CASE Start
    <3>1. pc["inference"] = "none" /\ pc'["inference"] = "check"
      BY <2>2 DEF Start, NoThreads, Threads
    <3> QED  BY <2>2, <3>1, RejectInvKept DEF Start
  <2>3. CASE StopCall \/ StopStep
    <3>1. (pc["inference"] = "count") <=> (pc'["inference"] = "count")
      <4>1. CASE UNCHANGED pc
        BY <4>1
      <4>2. ASSUME NEW i \in 1 .. 4, Join(i)
            PROVE  (pc["inference"] = "count") <=> (pc'["inference"] = "count")
        <5>1. JoinOrder[i] \in Threads  BY DEF JoinOrder, Threads
        <5>2. pc[JoinOrder[i]] = "done" /\ Goto(JoinOrder[i], "none")
          BY <4>2 DEF Join
        <5> QED  BY <5>1, <5>2, PcType DEF TypeOK, PcValues, Threads
      <4> QED
        BY <2>3, <4>1, <4>2
        DEF StopCall, StopStep, StopQueue, Joined, Cleanup
    <3>2. reply' = reply /\ UNCHANGED <<verdict, rejected, counted, hasRejector>>
      BY <2>3
      DEF StopCall, StopStep, StopQueue, Join, Joined, Cleanup, Queue!Close,
          callerVars, workVars, chanVars, inferVars, fateVars
    <3>3. main' # "new"
      BY <2>3
      DEF StopCall, StopStep, StopQueue, Join, Joined, Cleanup, callerVars
    <3> QED  BY <3>1, <3>2, <3>3, RejectInvKept DEF Frame
  <2>4. CASE CaptureStep
    <3>1. PICK s \in PcValues : Goto("capture", s)
      BY <2>4
      DEF CaptureStep, CaptureCheck, GrabFrame, GrabNothing, GrabEndOfVideo,
          PushFrame, DropFrame, PcValues
    <3>2. pc'["inference"] = pc["inference"]
      BY <3>1, PcType DEF Threads, TypeOK
    <3>3. reply'["inference"] = reply["inference"]
      BY <2>4
      DEF CaptureStep, CaptureCheck, GrabFrame, GrabNothing, GrabEndOfVideo,
          PushFrame, DropFrame, Queue!Accept, Queue!Refuse, workVars, chanVars,
          TypeOK, QueueTypes
    <3>4. UNCHANGED <<main, verdict, rejected, counted, hasRejector>>
      BY <2>4
      DEF CaptureStep, CaptureCheck, GrabFrame, GrabNothing, GrabEndOfVideo,
          PushFrame, DropFrame, workVars, inferVars, fateVars, callerVars
    <3> QED  BY <3>2, <3>3, <3>4, RejectInvKept DEF Frame
  <2>5. CASE DisplayStep \/ WatchdogStep \/ TimeoutPasses
    <3>1. pc'["inference"] = pc["inference"]
      BY <2>5
      DEF DisplayStep, DisplayCheck, TakeSlot, ShowFrame, WatchdogStep,
          WatchdogCheck, WatchdogLook, TimeoutPasses, Goto, TypeOK, ThreadTypes,
          Threads
    <3>2. UNCHANGED <<main, reply, verdict, rejected, counted, hasRejector>>
      BY <2>5
      DEF DisplayStep, DisplayCheck, TakeSlot, ShowFrame, WatchdogStep,
          WatchdogCheck, WatchdogLook, TimeoutPasses, workVars, chanVars,
          inferVars, fateVars, callerVars
    <3> QED  BY <3>1, <3>2, RejectInvKept DEF Frame
  <2>6. CASE InferenceCheck \/ PopFrame \/ PopNothing \/ Infer \/ StoreResult
             \/ FrameFaults \/ Heartbeat \/ OfferToDisplay
    <3>1. pc["inference"] # "count"
      BY <2>6
      DEF InferenceCheck, PopFrame, PopNothing, Infer, StoreResult, FrameFaults,
          Heartbeat, OfferToDisplay
    <3>2. pc'["inference"] # "count"
      BY <2>6
      DEF InferenceCheck, PopFrame, PopNothing, Infer, StoreResult, FrameFaults,
          Heartbeat, OfferToDisplay, Goto, TypeOK, ThreadTypes, Threads
    <3>3. UNCHANGED <<main, rejected, counted, hasRejector>>
      BY <2>6
      DEF InferenceCheck, PopFrame, PopNothing, Infer, StoreResult, FrameFaults,
          Heartbeat, OfferToDisplay, workVars, fateVars, callerVars
    <3> QED  BY <3>1, <3>2, <3>3 DEF RejectInv, RejectsMatchStats
  <2>7. CASE RejectResult
    <3>1. pc["inference"] = "reject" /\ pc'["inference"] = "count"
      BY <2>7 DEF RejectResult, Goto, TypeOK, ThreadTypes, Threads
    <3>2. main # "new" /\ main' = main
      BY <2>7, <3>1
      DEF RejectResult, callerVars, StopInv, StopIsComplete, NoThreads, Threads
    <3>3. UNCHANGED <<reply, verdict, counted, hasRejector>>
      BY <2>7 DEF RejectResult, callerVars, chanVars, inferVars
    <3> QED
      BY <2>7, <3>1, <3>2, <3>3
      DEF RejectResult, RejectInv, RejectsMatchStats, Frame
  <2>8. CASE CountResult
    <3>1. pc["inference"] = "count" /\ pc'["inference"] = "beat"
      BY <2>8 DEF CountResult, Goto, TypeOK, ThreadTypes, Threads
    <3>2. main # "new" /\ main' = main
      BY <2>8, <3>1
      DEF CountResult, callerVars, StopInv, StopIsComplete, NoThreads, Threads
    <3>3. counted'["reject"] = IF verdict = "reject"
                               THEN counted["reject"] \cup {Frame}
                               ELSE counted["reject"]
      BY <2>8, <3>1, VerdictsAssumption
      DEF CountResult, TypeOK, FateTypes, ResultTypes
    <3>4. UNCHANGED <<rejected, hasRejector>>
      BY <2>8 DEF CountResult, callerVars
    <3> QED
      BY <3>1, <3>2, <3>3, <3>4 DEF RejectInv, RejectsMatchStats
  <2>9. CASE UNCHANGED vars
    BY <2>9, RejectInvKept
    DEF vars, callerVars, workVars, chanVars, inferVars, fateVars, Frame
  <2> QED
    BY <2>1, <2>2, <2>3, <2>4, <2>5, <2>6, <2>7, <2>8, <2>9
    DEF Next, InferenceStep
<1>3. RejectInv => RejectsMatchStats  BY DEF RejectInv
<1> QED  BY <1>1, <1>2, <1>3, TypeCorrect, StopInvariant, PTL DEF Spec
-----------------------------------------------------------------------------
(* FramesAccountedFor, frame by frame: x is in none of the places, or it   *)
(* has been captured and is in one.                                        *)
InOnePlace(x) ==
  /\ x \in 1 .. grabbed <=>
       \/ x \in dropped \/ x \in lost \/ x \in Waiting \/ x \in CaptureHand
       \/ x \in InferenceHand \/ x \in faulted \/ x \in CountedFrames
  /\ x \in dropped =>
       x \notin lost \cup Waiting \cup CaptureHand \cup InferenceHand
                  \cup faulted \cup CountedFrames
  /\ x \in lost =>
       x \notin Waiting \cup CaptureHand \cup InferenceHand
                  \cup faulted \cup CountedFrames
  /\ x \in Waiting =>
       x \notin CaptureHand \cup InferenceHand \cup faulted \cup CountedFrames
  /\ x \in CaptureHand => x \notin InferenceHand \cup faulted \cup CountedFrames
  /\ x \in InferenceHand => x \notin faulted \cup CountedFrames
  /\ x \in faulted => x \notin CountedFrames

(* What FramesAccountedFor rests on: no frame waits twice in the queue.    *)
FramesInv ==
  /\ \A x : InOnePlace(x)
  /\ \A v, w \in Verdicts : v # w => counted[v] \cap counted[w] = {}
  /\ \A i, j \in taken + 1 .. Len(accepted) : accepted[i] = accepted[j] => i = j

LEMMA FramesInvSuffices == FramesInv => FramesAccountedFor
<1> SUFFICES ASSUME FramesInv PROVE FramesAccountedFor
  OBVIOUS
<1> DEFINE places == <<dropped, lost, Waiting, CaptureHand, InferenceHand,
                       faulted, CountedFrames>>
<1>1. DOMAIN places = 1 .. 7  OBVIOUS
<1>2. \A i \in 1 .. 7 : i \in {1, 2, 3, 4, 5, 6, 7}  OBVIOUS
<1>3. /\ places[1] = dropped /\ places[2] = lost /\ places[3] = Waiting
      /\ places[4] = CaptureHand /\ places[5] = InferenceHand
      /\ places[6] = faulted /\ places[7] = CountedFrames
  OBVIOUS
<1> HIDE DEF places
<1>4. 1 .. grabbed = UNION {places[i] : i \in DOMAIN places}
  <2>1. ASSUME NEW x PROVE x \in UNION {places[i] : i \in 1 .. 7} <=>
           \/ x \in dropped \/ x \in lost \/ x \in Waiting \/ x \in CaptureHand
           \/ x \in InferenceHand \/ x \in faulted \/ x \in CountedFrames
    BY <1>2, <1>3
  <2> QED  BY <1>1, <2>1 DEF FramesInv, InOnePlace
<1>5. ASSUME NEW i \in DOMAIN places, NEW j \in DOMAIN places, i # j
      PROVE  places[i] \cap places[j] = {}
  <2>1. i \in {1, 2, 3, 4, 5, 6, 7} /\ j \in {1, 2, 3, 4, 5, 6, 7}
    BY <1>1, <1>2
  <2>2. ASSUME NEW x \in places[i] \cap places[j] PROVE FALSE
    BY <1>3, <1>5, <2>1 DEF FramesInv, InOnePlace
  <2> QED  BY <2>2
<1> QED  BY <1>4, <1>5 DEF FramesInv, FramesAccountedFor, places

(* Steps that move no frame.                                               *)
LEMMA FramesInvKept ==
  ASSUME FramesInv, UNCHANGED <<grabbed, accepted, taken, fateVars>>,
         CaptureHand' = CaptureHand, InferenceHand' = InferenceHand
  PROVE  FramesInv'
BY DEF FramesInv, InOnePlace, Waiting, CountedFrames, fateVars

(* A frame pushed joins the ones that wait; the front one, popped, leaves. *)
LEMMA WaitingAppend ==
  ASSUME QueueTypes, NEW f \in Frames, accepted' = Append(accepted, f),
         taken' = taken
  PROVE  Waiting' = Waiting \cup {f}
<1>1. /\ Len(accepted') = Len(accepted) + 1
      /\ accepted'[Len(accepted) + 1] = f
      /\ \A i \in 1 .. Len(accepted) : accepted'[i] = accepted[i]
      /\ Len(accepted) \in Nat
  BY AppendProperties DEF QueueTypes
<1>2. ASSUME NEW x PROVE x \in Waiting' <=> x \in Waiting \cup {f}
  <2>1. ASSUME NEW i \in taken + 1 .. Len(accepted)
        PROVE  accepted'[i] = accepted[i] /\ i \in taken' + 1 .. Len(accepted')
    BY <1>1 DEF QueueTypes
  <2>2. ASSUME NEW i \in taken' + 1 .. Len(accepted')
        PROVE  i \in taken + 1 .. Len(accepted) \/ i = Len(accepted) + 1
    BY <1>1 DEF QueueTypes
  <2>3. Len(accepted) + 1 \in taken' + 1 .. Len(accepted')
    BY <1>1 DEF QueueTypes
  <2>4. x \in Waiting' => x \in Waiting \cup {f}
    BY <1>1, <2>1, <2>2 DEF Waiting
  <2>5. x \in Waiting \cup {f} => x \in Waiting'
    BY <1>1, <2>1, <2>3 DEF Waiting
  <2> QED  BY <2>4, <2>5
<1> QED  BY <1>2

LEMMA WaitingTail ==
  ASSUME QueueTypes, FramesInv, taken + 1 \in 1 .. Len(accepted),
         accepted' = accepted, taken' = taken + 1
  PROVE  /\ accepted[taken + 1] \in Waiting
         /\ Waiting' = Waiting \ {accepted[taken + 1]}
<1>1. Len(accepted) \in Nat /\ taken \in Nat  BY DEF QueueTypes
<1>2. taken + 1 \in taken + 1 .. Len(accepted)  BY <1>1
<1>3. \A i \in taken + 1 .. Len(accepted) :
        i = taken + 1 \/ i \in taken' + 1 .. Len(accepted')
  BY <1>1
<1>4. \A i \in taken' + 1 .. Len(accepted') :
        i \in taken + 1 .. Len(accepted) /\ i # taken + 1
  BY <1>1
<1>5. ASSUME NEW x
      PROVE  x \in Waiting' <=> x \in Waiting \ {accepted[taken + 1]}
  <2>1. ASSUME x \in Waiting' PROVE x \in Waiting \ {accepted[taken + 1]}
    BY <1>2, <1>4, <2>1 DEF Waiting, FramesInv
  <2>2. ASSUME x \in Waiting \ {accepted[taken + 1]} PROVE x \in Waiting'
    BY <1>3, <2>2 DEF Waiting
  <2> QED  BY <2>1, <2>2
<1> QED  BY <1>2, <1>5 DEF Waiting

LEMMA CaptureStepFrames ==
  ASSUME TypeOK, FramesInv, CaptureStep
  PROVE  FramesInv'
<1> USE DEF TypeOK
<1>1. UNCHANGED <<inferVars, lost, faulted, rejected, counted>>
  BY DEF CaptureStep, CaptureCheck, GrabFrame, GrabNothing, GrabEndOfVideo,
         PushFrame, DropFrame, workVars, fateVars
<1>2. PICK s \in {"check", "grab", "push", "done"} : Goto("capture", s)
  BY DEF CaptureStep, CaptureCheck, GrabFrame, GrabNothing, GrabEndOfVideo,
         PushFrame, DropFrame
<1>3. pc'["inference"] = pc["inference"] /\ pc'["capture"] = s
  BY <1>2, PcType DEF Threads, PcValues
<1>4. reply'["inference"] = reply["inference"]
  BY DEF CaptureStep, CaptureCheck, GrabFrame, GrabNothing, GrabEndOfVideo,
         PushFrame, DropFrame, Queue!Accept, Queue!Refuse, workVars, chanVars,
         QueueTypes
<1>5. InferenceHand' = InferenceHand
  BY <1>3, <1>4 DEF InferenceHand, Frame
<1>6. CASE CaptureCheck \/ GrabNothing \/ GrabEndOfVideo
  <2>1. pc["capture"] # "push" /\ pc'["capture"] # "push"
    BY <1>6, PcType
    DEF CaptureCheck, GrabNothing, GrabEndOfVideo, At, Threads, PcValues
  <2>2. CaptureHand' = CaptureHand  BY <2>1 DEF CaptureHand, At
  <2> QED
    BY <1>5, <1>6, <2>2, FramesInvKept
    DEF CaptureCheck, GrabNothing, GrabEndOfVideo, workVars, chanVars
<1>7. CASE GrabFrame
  <2>1. pc["capture"] = "grab" /\ pc'["capture"] = "push"
    BY <1>7, PcType DEF GrabFrame, At, Threads, PcValues
  <2>2. grabbed' = grabbed + 1 /\ grabbed \in Nat
    BY <1>7, BoundsAssumption DEF GrabFrame, QueueTypes
  <2>3. CaptureHand = {} /\ CaptureHand' = {grabbed + 1}
    BY <2>1, <2>2 DEF CaptureHand, At
  <2>4. UNCHANGED <<accepted, taken, fateVars>>
    BY <1>7 DEF GrabFrame, chanVars
  <2>5. Waiting' = Waiting /\ CountedFrames' = CountedFrames
    BY <2>4 DEF Waiting, CountedFrames, fateVars
  <2>6. 1 .. grabbed' = (1 .. grabbed) \cup {grabbed + 1}
        /\ grabbed + 1 \notin 1 .. grabbed
    BY <2>2
  <2>7. ASSUME NEW x PROVE InOnePlace(x)'
    BY <1>5, <2>3, <2>4, <2>5, <2>6 DEF FramesInv, InOnePlace, fateVars
  <2> QED  BY <2>4, <2>7 DEF FramesInv, fateVars
<1>8. CASE PushFrame
  <2>1. pc["capture"] = "push" /\ pc'["capture"] = "check"
    BY <1>8, PcType DEF PushFrame, At, Threads, PcValues
  <2>2. grabbed' = grabbed /\ taken' = taken /\ accepted' = Append(accepted, grabbed)
    BY <1>8 DEF PushFrame, Queue!Accept
  <2>3. CaptureHand = {grabbed} /\ CaptureHand' = {}
    BY <2>1 DEF CaptureHand, At
  <2>4. grabbed \in Frames
    BY <1>8 DEF PushFrame, QueueTypes, Frames
  <2>5. Waiting' = Waiting \cup {grabbed}
    BY <2>2, <2>4, WaitingAppend
  <2>6. UNCHANGED fateVars /\ CountedFrames' = CountedFrames
    BY <1>8 DEF PushFrame, CountedFrames, fateVars
  <2>7. ASSUME NEW x PROVE InOnePlace(x)'
    BY <1>5, <2>2, <2>3, <2>5, <2>6 DEF FramesInv, InOnePlace, fateVars
  <2>8. grabbed \notin Waiting  BY <2>3 DEF FramesInv, InOnePlace
  <2>9. ASSUME NEW i \in taken' + 1 .. Len(accepted'),
               NEW j \in taken' + 1 .. Len(accepted'),
               accepted'[i] = accepted'[j]
        PROVE  i = j
    <3>1. /\ Len(accepted') = Len(accepted) + 1
          /\ accepted'[Len(accepted) + 1] = grabbed
          /\ \A k \in 1 .. Len(accepted) : accepted'[k] = accepted[k]
          /\ Len(accepted) \in Nat
      BY <2>2, <2>4, AppendProperties DEF QueueTypes
    <3>2. \A k \in taken' + 1 .. Len(accepted') :
             \/ k = Len(accepted) + 1
             \/ /\ k \in taken + 1 .. Len(accepted)
                /\ accepted'[k] = accepted[k]
      BY <2>2, <3>1 DEF QueueTypes
    <3>3. \A k \in taken + 1 .. Len(accepted) : accepted[k] # grabbed
      BY <2>8 DEF Waiting
    <3> QED  BY <2>9, <3>1, <3>2, <3>3 DEF FramesInv
  <2> QED  BY <2>6, <2>7, <2>9 DEF FramesInv, fateVars
<1>9. CASE DropFrame
  <2>1. pc["capture"] = "push" /\ pc'["capture"] = "check"
    BY <1>9, PcType DEF DropFrame, At, Threads, PcValues
  <2>2. UNCHANGED <<grabbed, taken, accepted>> /\ dropped' = dropped \cup {grabbed}
    BY <1>9 DEF DropFrame, Queue!Refuse
  <2>3. CaptureHand = {grabbed} /\ CaptureHand' = {}
    BY <2>1 DEF CaptureHand, At
  <2>4. Waiting' = Waiting /\ CountedFrames' = CountedFrames
    BY <1>1, <2>2 DEF Waiting, CountedFrames
  <2>5. ASSUME NEW x PROVE InOnePlace(x)'
    BY <1>1, <1>5, <2>2, <2>3, <2>4 DEF FramesInv, InOnePlace
  <2> QED  BY <1>1, <2>2, <2>5 DEF FramesInv
<1> QED  BY <1>6, <1>7, <1>8, <1>9 DEF CaptureStep

LEMMA InferenceStepFrames ==
  ASSUME TypeOK, FramesInv, InferenceStep
  PROVE  FramesInv'
<1> USE DEF TypeOK
<1>1. UNCHANGED <<grabbed, accepted, dropped, lost>>
  BY DEF InferenceStep, InferenceCheck, PopFrame, PopNothing, Infer, StoreResult,
         FrameFaults, RejectResult, CountResult, Heartbeat, OfferToDisplay,
         Queue!Deliver, Queue!Nothing, workVars, chanVars, fateVars
<1>2. CaptureHand' = CaptureHand
  <2>1. PICK s \in PcValues : Goto("inference", s)
    BY DEF InferenceStep, InferenceCheck, PopFrame, PopNothing, Infer,
           StoreResult, FrameFaults, RejectResult, CountResult, Heartbeat,
           OfferToDisplay, PcValues, InferenceHolds, AfterCount
  <2>2. pc'["capture"] = pc["capture"]  BY <2>1, PcType DEF Threads
  <2> QED  BY <1>1, <2>2 DEF CaptureHand, At
<1>3. CASE InferenceCheck \/ PopNothing \/ Heartbeat \/ OfferToDisplay
  <2>1. pc["inference"] \notin InferenceHolds
    BY <1>3
    DEF InferenceCheck, PopNothing, Heartbeat, OfferToDisplay, At, InferenceHolds
  <2>2. pc'["inference"] \notin InferenceHolds
    BY <1>3, PcType
    DEF InferenceCheck, PopNothing, Heartbeat, OfferToDisplay, Threads,
        PcValues, InferenceHolds, AfterCount
  <2>3. InferenceHand' = InferenceHand  BY <2>1, <2>2 DEF InferenceHand
  <2>4. UNCHANGED <<taken, fateVars>>
    BY <1>3
    DEF InferenceCheck, PopNothing, Heartbeat, OfferToDisplay, Queue!Nothing,
        workVars, chanVars
  <2> QED  BY <1>1, <1>2, <2>3, <2>4, FramesInvKept
<1>4. CASE Infer \/ StoreResult \/ RejectResult
  <2>1. pc["inference"] \in InferenceHolds
    BY <1>4 DEF Infer, StoreResult, RejectResult, At, InferenceHolds
  <2>2. pc'["inference"] \in InferenceHolds
    BY <1>4, PcType
    DEF Infer, StoreResult, RejectResult, Threads, PcValues, InferenceHolds
  <2>3. InferenceHand' = InferenceHand
    BY <1>4, <2>1, <2>2
    DEF InferenceHand, Frame, Infer, StoreResult, RejectResult, chanVars
  <2>4. UNCHANGED <<taken, faulted, counted>>
    BY <1>4 DEF Infer, StoreResult, RejectResult, chanVars, fateVars
  <2> QED
    BY <1>1, <1>2, <2>3, <2>4
    DEF FramesInv, InOnePlace, Waiting, CountedFrames
<1>5. CASE PopFrame
  <2> DEFINE f == accepted[taken + 1]
  <2>1. taken + 1 \in 1 .. Len(accepted) /\ f \in Frames
    BY <1>5, FrontType DEF PopFrame, Queue!Deliver
  <2>2. /\ taken' = taken + 1
        /\ reply' = [reply EXCEPT !["inference"] = <<"item", f>>]
        /\ UNCHANGED fateVars
    BY <1>5 DEF PopFrame, Queue!Deliver
  <2>3. <<"item", f>> \in Replies  BY <2>1 DEF Replies
  <2>4. reply'["inference"] = <<"item", f>>  BY <2>2, <2>3, ReplyType
  <2>5. pc["inference"] = "pop" /\ pc'["inference"] = "infer"
    BY <1>5, PcType DEF PopFrame, At, Threads, PcValues, InferenceHolds
  <2>6. InferenceHand = {} /\ InferenceHand' = {f}
    BY <2>4, <2>5 DEF InferenceHand, InferenceHolds, Frame
  <2>7. f \in Waiting /\ Waiting' = Waiting \ {f}
    BY <1>1, <2>1, <2>2, WaitingTail
  <2>8. CountedFrames' = CountedFrames  BY <2>2 DEF CountedFrames, fateVars
  <2> HIDE DEF f
  <2>9. ASSUME NEW x PROVE InOnePlace(x)'
    BY <1>1, <1>2, <2>2, <2>6, <2>7, <2>8 DEF FramesInv, InOnePlace, fateVars
  <2>10. \A i \in taken' + 1 .. Len(accepted') : i \in taken + 1 .. Len(accepted)
    BY <1>1, <2>2 DEF QueueTypes
  <2> QED  BY <1>1, <2>2, <2>9, <2>10 DEF FramesInv, fateVars
<1>6. CASE FrameFaults
  <2>1. pc["inference"] \in InferenceHolds /\ pc'["inference"] = "check"
    BY <1>6, PcType
    DEF FrameFaults, At, Threads, PcValues, InferenceHolds
  <2>2. InferenceHand = {Frame} /\ InferenceHand' = {}
    BY <2>1 DEF InferenceHand, InferenceHolds
  <2>3. UNCHANGED <<taken, counted>> /\ faulted' = faulted \cup {Frame}
    BY <1>6 DEF FrameFaults, chanVars
  <2>4. Waiting' = Waiting /\ CountedFrames' = CountedFrames
    BY <1>1, <2>3 DEF Waiting, CountedFrames
  <2>5. ASSUME NEW x PROVE InOnePlace(x)'
    BY <1>1, <1>2, <2>2, <2>3, <2>4 DEF FramesInv, InOnePlace
  <2> QED  BY <1>1, <2>3, <2>5 DEF FramesInv
<1>7. CASE CountResult
  <2>1. pc["inference"] \in InferenceHolds /\ pc'["inference"] = "beat"
    BY <1>7, PcType
    DEF CountResult, At, Threads, PcValues, InferenceHolds, AfterCount
  <2>2. InferenceHand = {Frame} /\ InferenceHand' = {}
    BY <2>1 DEF InferenceHand, InferenceHolds
  <2>3. UNCHANGED <<taken, faulted>>  BY <1>7 DEF CountResult, chanVars
  <2>4. /\ verdict \in Verdicts
        /\ counted'[verdict] = counted[verdict] \cup {Frame}
        /\ \A v \in Verdicts \ {verdict} : counted'[v] = counted[v]
    BY <1>7 DEF CountResult, At, ResultTypes, FateTypes
  <2>5. CountedFrames' = CountedFrames \cup {Frame}
    BY <2>4 DEF CountedFrames
  <2>6. Waiting' = Waiting  BY <1>1, <2>3 DEF Waiting
  <2>7. ASSUME NEW x PROVE InOnePlace(x)'
    BY <1>1, <1>2, <2>2, <2>3, <2>5, <2>6 DEF FramesInv, InOnePlace
  <2>8. \A v \in Verdicts : Frame \notin counted[v]
    BY <2>2 DEF FramesInv, InOnePlace, CountedFrames
  <2>9. \A v, w \in Verdicts : v # w => counted'[v] \cap counted'[w] = {}
    BY <2>4, <2>8 DEF FramesInv
  <2> QED  BY <1>1, <2>3, <2>7, <2>9 DEF FramesInv
<1> QED  BY <1>3, <1>4, <1>5, <1>6, <1>7 DEF InferenceStep

LEMMA CallerStepFrames ==
  ASSUME TypeOK, FramesInv, Initialize \/ Start \/ StopCall \/ StopStep
  PROVE  FramesInv'
<1> USE DEF TypeOK
<1>1. CASE Start
  <2>1. \A t \in Threads : pc[t] = "none" /\ pc'[t] \in {"none", "check"}
    BY <1>1 DEF Start, NoThreads, At
  <2>2. /\ CaptureHand = {} /\ CaptureHand' = {}
        /\ InferenceHand = {} /\ InferenceHand' = {}
    BY <2>1 DEF CaptureHand, InferenceHand, InferenceHolds, At, Threads
  <2>3. /\ accepted' = <<>> /\ taken' = 0
        /\ UNCHANGED <<grabbed, dropped, faulted, counted>>
        /\ lost' = lost \cup Waiting
    BY <1>1 DEF Start, Queue!Clear
  <2>4. taken' + 1 .. Len(accepted') = {}
    <3>1. Len(<<>>) = 0  BY EmptySeq
    <3> QED  BY <2>3, <3>1
  <2>5. Waiting' = {}  BY <2>4 DEF Waiting
  <2>6. CountedFrames' = CountedFrames  BY <2>3 DEF CountedFrames
  <2>7. ASSUME NEW x PROVE InOnePlace(x)'
    BY <2>2, <2>3, <2>5, <2>6 DEF FramesInv, InOnePlace
  <2> QED  BY <2>3, <2>4, <2>7 DEF FramesInv
<1>2. CASE UNCHANGED <<pc, workVars>>
  BY <1>2, FramesInvKept
  DEF workVars, chanVars, CaptureHand, InferenceHand, Frame, At
<1>3. CASE StopQueue
  BY <1>3, FramesInvKept
  DEF StopQueue, Queue!Close, CaptureHand, InferenceHand, Frame, At
<1>4. ASSUME NEW i \in 1 .. 4, Join(i) PROVE FramesInv'
  <2>1. JoinOrder[i] \in Threads  BY DEF JoinOrder, Threads
  <2>2. pc[JoinOrder[i]] = "done" /\ Goto(JoinOrder[i], "none")
    BY <1>4 DEF Join, At
  <2>3. \A t \in Threads : pc'[t] = pc[t] \/ (pc[t] = "done" /\ pc'[t] = "none")
    BY <2>1, <2>2, PcType DEF PcValues
  <2>4. UNCHANGED workVars  BY <1>4 DEF Join
  <2>5. CaptureHand' = CaptureHand /\ InferenceHand' = InferenceHand
    BY <2>3, <2>4
    DEF CaptureHand, InferenceHand, InferenceHolds, Frame, At, Threads, workVars,
        chanVars
  <2> QED  BY <2>4, <2>5, FramesInvKept DEF workVars, chanVars
<1> QED
  BY <1>1, <1>2, <1>3, <1>4
  DEF Initialize, StopCall, StopStep, Joined, Cleanup

LEMMA FramesInvariant == Spec => []FramesInv
<1>1. Init => FramesInv
  <2> SUFFICES ASSUME Init PROVE FramesInv
    OBVIOUS
  <2>1. CaptureHand = {} /\ InferenceHand = {}
    BY DEF Init, CaptureHand, InferenceHand, InferenceHolds, At, Threads
  <2>2. taken + 1 .. Len(accepted) = {}
    <3>1. Len(<<>>) = 0  BY EmptySeq
    <3> QED  BY <3>1 DEF Init, Queue!Init
  <2>3. Waiting = {}  BY <2>2 DEF Waiting
  <2>4. /\ 1 .. grabbed = {} /\ dropped = {} /\ lost = {} /\ faulted = {}
        /\ \A v \in Verdicts : counted[v] = {}
    BY DEF Init
  <2>5. CountedFrames = {}  BY <2>4 DEF CountedFrames
  <2> QED
    BY <2>1, <2>2, <2>3, <2>4, <2>5 DEF FramesInv, InOnePlace
<1>2. TypeOK /\ FramesInv /\ [Next]_vars => FramesInv'
  <2> SUFFICES ASSUME TypeOK, FramesInv, [Next]_vars PROVE FramesInv'
    OBVIOUS
  <2>1. CASE DisplayStep \/ WatchdogStep \/ TimeoutPasses
    <3>1. pc'["inference"] = pc["inference"] /\ pc'["capture"] = pc["capture"]
      BY <2>1
      DEF DisplayStep, DisplayCheck, TakeSlot, ShowFrame, WatchdogStep,
          WatchdogCheck, WatchdogLook, TimeoutPasses, Goto, TypeOK, ThreadTypes,
          Threads
    <3>2. UNCHANGED <<grabbed, chanVars, fateVars>>
      BY <2>1
      DEF DisplayStep, DisplayCheck, TakeSlot, ShowFrame, WatchdogStep,
          WatchdogCheck, WatchdogLook, TimeoutPasses, workVars
    <3> QED
      BY <3>1, <3>2, FramesInvKept
      DEF chanVars, CaptureHand, InferenceHand, Frame, At
  <2>2. CASE UNCHANGED vars
    BY <2>2, FramesInvKept
    DEF vars, workVars, chanVars, CaptureHand, InferenceHand, Frame, At
  <2> QED
    BY <2>1, <2>2, CallerStepFrames, CaptureStepFrames, InferenceStepFrames
    DEF Next
<1> QED  BY <1>1, <1>2, TypeCorrect, PTL DEF Spec

(* Every frame the camera produced is in exactly one place.                *)
THEOREM FramesAreAccountedFor == Spec => []FramesAccountedFor
BY FramesInvariant, FramesInvSuffices, PTL
-----------------------------------------------------------------------------
(* What main.cpp sees of the threads: ThreadOf is the mapping of the       *)
(* refinement, and a step either leaves it and running_ alone or is one of *)
(* the steps of PipelineThreads.                                           *)
Phase == IF main \in {"stopping", "joining"} THEN "stopping" ELSE "idle"
Seen(s) == IF s \in {"none", "check", "done"} THEN s ELSE "work"
ThreadOf == [t \in Threads |-> Seen(pc[t])]

LEMMA ThreadSeen ==
  ASSUME ThreadTypes, NEW t \in Threads, NEW s \in PcValues, Goto(t, s)
  PROVE  /\ ThreadOf' = [ThreadOf EXCEPT ![t] = Seen(s)]
         /\ ThreadOf[t] = Seen(pc[t])
BY PcType DEF ThreadOf

(* A step of thread t: a test of running_, the end of a round, or a step   *)
(* within one.                                                             *)
RoundStep(t) ==
  /\ main' = main
  /\ \/ /\ running' = running /\ At(t, "check")
        /\ \E s \in PcValues : Goto(t, s) /\ Seen(s) = IF running THEN "work" ELSE "done"
     \/ /\ running' = running \/ (t = "display" /\ running' = FALSE)
        /\ Seen(pc[t]) = "work" /\ Goto(t, "check")
     \/ /\ running' = running /\ Seen(pc[t]) = "work"
        /\ \E s \in PcValues : Goto(t, s) /\ Seen(s) = "work"

LEMMA ThreadsGoRound ==
  ASSUME TypeOK
  PROVE  /\ CaptureStep => RoundStep("capture")
         /\ InferenceStep => RoundStep("inference")
         /\ DisplayStep => RoundStep("display")
         /\ WatchdogStep => RoundStep("watchdog")
<1> USE DEF RoundStep, Seen, At, PcValues, InferenceHolds, AfterCount, callerVars
<1>1. CaptureStep => RoundStep("capture")
  BY DEF CaptureStep, CaptureCheck, GrabFrame, GrabNothing, GrabEndOfVideo, PushFrame,
     DropFrame
<1>2. InferenceStep => RoundStep("inference")
  BY DEF InferenceStep, InferenceCheck, PopFrame, PopNothing, Infer, StoreResult,
     FrameFaults, RejectResult, CountResult, Heartbeat, OfferToDisplay
<1>3. DisplayStep => RoundStep("display")
  <2>1. DisplayCheck => RoundStep("display")
    BY DEF DisplayCheck
  <2>2. TakeSlot => RoundStep("display")
    <3>1. TakeSlot => Goto("display", "check") \/ Goto("display", "show")
      BY DEF TakeSlot
    <3> QED  BY <3>1 DEF TakeSlot
  <2>3. ShowFrame => RoundStep("display")
    <3>1. ShowFrame => running' = running \/ running' = FALSE
      BY DEF ShowFrame
    <3> QED  BY <3>1 DEF ShowFrame
  <2> QED  BY <2>1, <2>2, <2>3 DEF DisplayStep
<1>4. WatchdogStep => RoundStep("watchdog")
  BY DEF WatchdogStep, WatchdogCheck, WatchdogLook
<1> QED  BY <1>1, <1>2, <1>3, <1>4

LEMMA RoundsAreSeen ==
  ASSUME TypeOK, NEW t \in Threads, RoundStep(t)
  PROVE  Life!Check(t) \/ Life!Work(t) \/ UNCHANGED Life!threadVars
<1>1. ThreadTypes /\ running \in BOOLEAN
  BY Zenon DEF TypeOK, CallerTypes
<1>2. ASSUME NEW s \in PcValues, Goto(t, s)
      PROVE  ThreadOf' = [ThreadOf EXCEPT ![t] = Seen(s)] /\ ThreadOf[t] = Seen(pc[t])
  BY <1>1, <1>2, ThreadSeen
<1>3. Phase' = Phase  BY DEF RoundStep, Phase
<1>4. CASE /\ running' = running /\ At(t, "check")
           /\ \E s \in PcValues : Goto(t, s) /\ Seen(s) = IF running THEN "work" ELSE "done"
  <2>1. ThreadOf' = [ThreadOf EXCEPT ![t] = IF running THEN "work" ELSE "done"]
        /\ ThreadOf[t] = "check"
    BY <1>2, <1>4 DEF At, Seen
  <2> QED  BY <1>3, <1>4, <2>1 DEF Life!Check, Phase, ThreadOf, Seen
<1>5. CASE /\ running' = running \/ (t = "display" /\ running' = FALSE)
           /\ Seen(pc[t]) = "work" /\ Goto(t, "check")
  <2>1. ThreadOf' = [ThreadOf EXCEPT ![t] = "check"] /\ ThreadOf[t] = "work"
    BY <1>2, <1>5 DEF PcValues, Seen
  <2>2. running' \in {running, running /\ t # "display"}
    <3>1. CASE running' = running
      BY <3>1
    <3>2. CASE t = "display" /\ running' = FALSE
      <4>1. (running /\ t # "display") = FALSE  BY <3>2
      <4> QED  BY <3>2, <4>1
    <3> QED  BY <1>5, <3>1, <3>2
  <2> QED  BY <1>3, <2>1, <2>2 DEF Life!Work, Phase, ThreadOf, Seen
<1>6. CASE /\ running' = running /\ Seen(pc[t]) = "work"
           /\ \E s \in PcValues : Goto(t, s) /\ Seen(s) = "work"
  <2>1. ThreadOf' = [ThreadOf EXCEPT ![t] = "work"] /\ ThreadOf[t] = "work"
    BY <1>2, <1>6
  <2>2. ThreadOf' = ThreadOf  BY <2>1 DEF ThreadOf
  <2> QED  BY <1>3, <1>6, <2>2 DEF Life!threadVars, Phase, ThreadOf, Seen
<1> QED  BY <1>4, <1>5, <1>6 DEF RoundStep

LEMMA CallerIsSeen ==
  ASSUME TypeOK, Initialize \/ Start \/ StopCall \/ StopStep \/ TimeoutPasses
  PROVE  Life!Next \/ UNCHANGED Life!threadVars
<1> USE DEF Phase, ThreadOf, Seen
<1>1. ThreadTypes  BY DEF TypeOK
<1>2. CASE Initialize \/ StopQueue \/ Cleanup \/ TimeoutPasses
  <2>1. Phase' = Phase /\ UNCHANGED <<running, pc>>
    BY <1>2 DEF Initialize, StopQueue, Cleanup, TimeoutPasses, callerVars
  <2> QED  BY <2>1 DEF Life!threadVars
<1>3. CASE Start
  <2> DEFINE enabled == IF DisplayEnabled THEN Threads ELSE Threads \ {"display"}
  <2>1. Phase = "idle" /\ Phase' = "idle" /\ ~running /\ running' = TRUE
    BY <1>3 DEF Start
  <2>2. \A t \in Threads : ThreadOf[t] = "none"
    BY <1>3 DEF Start, NoThreads, At
  <2>3. ThreadOf' = [t \in Threads |-> IF t \in enabled THEN "check" ELSE "none"]
    BY <1>3 DEF Start
  <2>4. enabled \in {Threads, Threads \ {"display"}}  OBVIOUS
  <2> HIDE DEF enabled
  <2>5. Life!Start(enabled)
    BY <2>1, <2>2, <2>3 DEF Life!Start, Life!NoThreads
  <2> QED  BY <2>4, <2>5 DEF Life!Next
<1>4. CASE StopCall
  <2>1. Phase = "idle" /\ Phase' = "stopping" /\ running' = FALSE /\ pc' = pc
    BY <1>4 DEF StopCall
  <2>2. Life!StopCall  BY <2>1 DEF Life!StopCall
  <2> QED  BY <2>2 DEF Life!Next
<1>5. ASSUME NEW i \in 1 .. 4, Join(i)
      PROVE  Life!Next \/ UNCHANGED Life!threadVars
  <2> DEFINE t == JoinOrder[i]
  <2>1. t \in Threads  BY DEF JoinOrder, Threads
  <2>2. At(t, "done") /\ Goto(t, "none")  BY <1>5 DEF Join
  <2>3. Phase = "stopping" /\ Phase' = Phase /\ running' = running
    BY <1>5 DEF Join, callerVars
  <2> HIDE DEF t
  <2>4. ThreadOf[t] = "done" /\ ThreadOf' = [ThreadOf EXCEPT ![t] = "none"]
    BY <1>1, <2>1, <2>2, ThreadSeen DEF At, PcValues
  <2>5. Life!Join(t)  BY <2>3, <2>4 DEF Life!Join
  <2> QED  BY <2>1, <2>5 DEF Life!Next, Life!StopStep
<1>6. CASE Joined
  <2>1. Phase = "stopping" /\ Phase' = "idle" /\ UNCHANGED <<running, pc>>
    BY <1>6 DEF Joined
  <2>2. \A t \in Threads : ThreadOf[t] = "none"
    BY <1>6 DEF Joined, NoThreads, At
  <2>3. Life!StopReturn
    BY <2>1, <2>2 DEF Life!StopReturn, Life!NoThreads
  <2> QED  BY <2>3 DEF Life!Next, Life!StopStep
<1> QED  BY <1>2, <1>3, <1>4, <1>5, <1>6 DEF StopStep

(* What Inspector builds on: seen from the composition root, every step of *)
(* the pipeline is a step of PipelineThreads, or none.  start() starts the *)
(* threads from rest, each of them leaves only at its test of running_,    *)
(* and stop() returns only when the last one has been joined.  Together    *)
(* with the fairness, which TLC checks, this is ImplementsThreads.         *)
THEOREM StepsAreThreads == Spec => Life!Init /\ [][Life!Next]_(Life!threadVars)
<1>1. Init => Life!Init
  <2> SUFFICES ASSUME Init PROVE Life!Init
    OBVIOUS
  <2>1. main = "new" /\ running = FALSE /\ \A t \in Threads : pc[t] = "none"
    BY DEF Init
  <2> QED  BY <2>1 DEF Life!Init
<1>2. TypeOK /\ [Next]_vars => [Life!Next]_(Life!threadVars)
  <2> SUFFICES ASSUME TypeOK, [Next]_vars
               PROVE  Life!Next \/ UNCHANGED Life!threadVars
    OBVIOUS
  <2>1. ASSUME NEW t \in Threads, RoundStep(t)
        PROVE  Life!Next \/ UNCHANGED Life!threadVars
    BY <2>1, RoundsAreSeen DEF Life!Next, Life!ThreadStep
  <2>2. CASE CaptureStep \/ InferenceStep \/ DisplayStep \/ WatchdogStep
    BY <2>1, <2>2, ThreadsGoRound DEF Threads
  <2>3. CASE UNCHANGED vars
    BY <2>3 DEF vars, callerVars, Life!threadVars
  <2> QED  BY <2>2, <2>3, CallerIsSeen DEF Next
<1> QED  BY <1>1, <1>2, TypeCorrect, PTL DEF Spec
-----------------------------------------------------------------------------
(* What HandledInOrder rests on: the queue is sorted, and a frame that     *)
(* waits comes after the one in the inference thread's hands, and both     *)
(* after every frame that is done with.                                    *)
OrderInv ==
  /\ \A i, j \in taken + 1 .. Len(accepted) : i < j => accepted[i] < accepted[j]
  /\ \A g \in Handled, x \in InferenceHand \cup Waiting : g < x
  /\ \A f \in InferenceHand, x \in Waiting : f < x

(* What moves a frame from one of these places to the next.                *)
StayPut ==
  /\ UNCHANGED <<accepted, taken, faulted, counted>>
  /\ InferenceHand' = InferenceHand
Finish == FrameFaults \/ CountResult

LEMMA HandStays ==
  ASSUME TypeOK, [Next]_vars, ~Start, ~PushFrame, ~PopFrame, ~Finish
  PROVE  StayPut
<1> USE DEF TypeOK
<1>1. CASE Initialize \/ StopCall \/ Joined \/ Cleanup \/ TimeoutPasses
           \/ StopQueue \/ UNCHANGED vars
  <2>1. UNCHANGED <<pc, reply, accepted, taken, faulted, counted>>
    BY <1>1
    DEF Initialize, StopCall, Joined, Cleanup, TimeoutPasses, StopQueue, vars,
        Queue!Close, workVars, chanVars, fateVars
  <2> QED  BY <2>1 DEF StayPut, InferenceHand, Frame
<1>2. ASSUME NEW i \in 1 .. 4, Join(i) PROVE StayPut
  <2>1. JoinOrder[i] \in Threads  BY DEF JoinOrder, Threads
  <2>2. pc[JoinOrder[i]] = "done" /\ Goto(JoinOrder[i], "none")
    BY <1>2 DEF Join, At
  <2>3. \A t \in Threads : pc'[t] = pc[t] \/ (pc[t] = "done" /\ pc'[t] = "none")
    BY <2>1, <2>2, PcType DEF PcValues
  <2>4. UNCHANGED workVars  BY <1>2 DEF Join
  <2> QED
    BY <2>3, <2>4
    DEF StayPut, InferenceHand, InferenceHolds, Frame, Threads, workVars,
        chanVars, fateVars
<1>3. ASSUME NEW t \in {"capture", "display", "watchdog"}, NEW s \in PcValues,
             Goto(t, s), UNCHANGED <<accepted, taken, faulted, counted>>,
             reply'["inference"] = reply["inference"]
      PROVE  StayPut
  <2>1. pc'["inference"] = pc["inference"]  BY <1>3, PcType DEF Threads
  <2> QED  BY <1>3, <2>1 DEF StayPut, InferenceHand, Frame
<1>4. CASE CaptureStep
  <2>1. \E s \in PcValues : Goto("capture", s)
    BY <1>4
    DEF CaptureStep, CaptureCheck, GrabFrame, GrabNothing, GrabEndOfVideo,
        PushFrame, DropFrame, PcValues
  <2>2. /\ UNCHANGED <<accepted, taken, faulted, counted>>
        /\ reply'["inference"] = reply["inference"]
    BY <1>4
    DEF CaptureStep, CaptureCheck, GrabFrame, GrabNothing, GrabEndOfVideo,
        DropFrame, Queue!Refuse, workVars, chanVars, fateVars, QueueTypes
  <2> QED  BY <1>3, <2>1, <2>2
<1>5. CASE DisplayStep \/ WatchdogStep
  <2>1. \E t \in {"display", "watchdog"}, s \in PcValues : Goto(t, s)
    BY <1>5
    DEF DisplayStep, WatchdogStep, DisplayCheck, TakeSlot, ShowFrame,
        WatchdogCheck, WatchdogLook, PcValues, AfterCount
  <2>2. UNCHANGED <<accepted, taken, faulted, counted, reply>>
    BY <1>5
    DEF DisplayStep, WatchdogStep, DisplayCheck, TakeSlot, ShowFrame,
        WatchdogCheck, WatchdogLook, workVars, chanVars, fateVars
  <2> QED  BY <1>3, <2>1, <2>2
<1>6. CASE InferenceCheck \/ PopNothing \/ Heartbeat \/ OfferToDisplay
  <2>1. /\ pc["inference"] \notin InferenceHolds
        /\ pc'["inference"] \notin InferenceHolds
    BY <1>6, PcType
    DEF InferenceCheck, PopNothing, Heartbeat, OfferToDisplay, At, Threads,
        PcValues, InferenceHolds, AfterCount
  <2>2. UNCHANGED <<accepted, taken, faulted, counted>>
    BY <1>6
    DEF InferenceCheck, PopNothing, Heartbeat, OfferToDisplay, Queue!Nothing,
        workVars, chanVars, fateVars
  <2> QED  BY <2>1, <2>2 DEF StayPut, InferenceHand
<1>7. CASE Infer \/ StoreResult \/ RejectResult
  <2>1. pc["inference"] \in InferenceHolds /\ pc'["inference"] \in InferenceHolds
    BY <1>7, PcType
    DEF Infer, StoreResult, RejectResult, At, Threads, PcValues, InferenceHolds
  <2>2. UNCHANGED <<reply, accepted, taken, faulted, counted>>
    BY <1>7 DEF Infer, StoreResult, RejectResult, chanVars, fateVars
  <2> QED  BY <2>1, <2>2 DEF StayPut, InferenceHand, Frame
<1> QED
  BY <1>1, <1>2, <1>4, <1>5, <1>6, <1>7
  DEF Next, StopStep, InferenceStep, Finish

(* The frame that is finished is the one in the inference thread's hands.  *)
LEMMA FinishedFrame ==
  ASSUME TypeOK, Finish
  PROVE  /\ UNCHANGED <<accepted, taken>>
         /\ InferenceHand = {Frame} /\ InferenceHand' = {}
         /\ Handled' = Handled \cup {Frame}
<1> USE DEF TypeOK
<1>1. pc["inference"] \in InferenceHolds
  BY DEF Finish, FrameFaults, CountResult, At, InferenceHolds
<1>2. pc'["inference"] \in {"check", "beat"}
  BY PcType
  DEF Finish, FrameFaults, CountResult, Threads, PcValues, AfterCount
<1>3. InferenceHand = {Frame} /\ InferenceHand' = {}
  BY <1>1, <1>2 DEF InferenceHand, InferenceHolds
<1>4. ASSUME FrameFaults PROVE Handled' = Handled \cup {Frame}
  BY <1>4 DEF FrameFaults, Handled, CountedFrames
<1>5. ASSUME CountResult PROVE Handled' = Handled \cup {Frame}
  <2>1. /\ verdict \in Verdicts /\ faulted' = faulted
        /\ counted'[verdict] = counted[verdict] \cup {Frame}
        /\ \A v \in Verdicts \ {verdict} : counted'[v] = counted[v]
    BY <1>5 DEF CountResult, At, ResultTypes, FateTypes
  <2> QED  BY <2>1 DEF Handled, CountedFrames
<1>6. UNCHANGED <<accepted, taken>>
  BY DEF Finish, FrameFaults, CountResult, chanVars
<1> QED  BY <1>3, <1>4, <1>5, <1>6 DEF Finish

LEMMA HandledStays == StayPut => Handled' = Handled /\ Waiting' = Waiting
BY DEF StayPut, Handled, CountedFrames, Waiting

LEMMA OrderStep ==
  ASSUME TypeOK, FramesInv, OrderInv, [Next]_vars
  PROVE  OrderInv'
<1> USE DEF TypeOK
<1>1. taken \in Nat /\ Len(accepted) \in Nat  BY DEF QueueTypes
<1>2. CASE Start
  <2>1. pc'["inference"] \in {"none", "check"}  BY <1>2 DEF Start, Threads
  <2>2. InferenceHand' = {}  BY <2>1 DEF InferenceHand, InferenceHolds
  <2>3. accepted' = <<>> /\ taken' = 0  BY <1>2 DEF Start, Queue!Clear
  <2>4. Len(<<>>) = 0  BY EmptySeq
  <2>5. taken' + 1 .. Len(accepted') = {}  BY <2>3, <2>4
  <2> QED  BY <2>2, <2>5 DEF OrderInv, Waiting
<1>3. CASE PushFrame
  <2>1. /\ pc["capture"] = "push" /\ taken' = taken
        /\ accepted' = Append(accepted, grabbed) /\ UNCHANGED fateVars
    BY <1>3 DEF PushFrame, At, Queue!Accept
  <2>2. grabbed \in Frames  BY <1>3 DEF PushFrame, QueueTypes, Frames
  <2>3. Waiting' = Waiting \cup {grabbed}  BY <2>1, <2>2, WaitingAppend
  <2>4. Handled' = Handled  BY <2>1 DEF Handled, CountedFrames, fateVars
  <2>5. PICK s \in PcValues : Goto("capture", s)
    BY <1>3 DEF PushFrame, PcValues
  <2>6. pc'["inference"] = pc["inference"] /\ reply'["inference"] = reply["inference"]
    BY <1>3, <2>5, PcType DEF Threads, PushFrame, Queue!Accept, QueueTypes
  <2>7. InferenceHand' = InferenceHand  BY <2>6 DEF InferenceHand, Frame
  <2>8. ASSUME NEW x \in Handled \cup InferenceHand \cup Waiting PROVE x < grabbed
    <3>1. x \in 1 .. grabbed /\ x # grabbed
      BY <2>1, <2>8 DEF FramesInv, InOnePlace, CaptureHand, At, Handled
    <3> QED  BY <2>2, <3>1 DEF Frames
  <2>9. ASSUME NEW i \in taken' + 1 .. Len(accepted'),
               NEW j \in taken' + 1 .. Len(accepted'), i < j
        PROVE  accepted'[i] < accepted'[j]
    <3>1. /\ Len(accepted') = Len(accepted) + 1
          /\ accepted'[Len(accepted) + 1] = grabbed
          /\ \A k \in 1 .. Len(accepted) : accepted'[k] = accepted[k]
      BY <2>1, <2>2, AppendProperties DEF QueueTypes
    <3>2. i \in taken + 1 .. Len(accepted) /\ accepted'[i] = accepted[i]
      BY <1>1, <2>1, <2>9, <3>1
    <3>3. CASE j = Len(accepted) + 1
      <4>1. accepted[i] \in Waiting  BY <3>2 DEF Waiting
      <4> QED  BY <2>8, <3>1, <3>2, <3>3, <4>1
    <3>4. CASE j # Len(accepted) + 1
      <4>1. j \in taken + 1 .. Len(accepted) /\ accepted'[j] = accepted[j]
        BY <1>1, <2>1, <3>1, <3>4
      <4> QED  BY <2>9, <3>2, <4>1 DEF OrderInv
    <3> QED  BY <3>3, <3>4
  <2> QED  BY <2>3, <2>4, <2>7, <2>8, <2>9 DEF OrderInv
<1>4. CASE PopFrame
  <2> DEFINE f == accepted[taken + 1]
  <2>1. taken + 1 \in 1 .. Len(accepted) /\ f \in Frames
    BY <1>4, FrontType DEF PopFrame, Queue!Deliver
  <2>2. /\ taken' = taken + 1 /\ accepted' = accepted
        /\ reply' = [reply EXCEPT !["inference"] = <<"item", f>>]
        /\ UNCHANGED fateVars
    BY <1>4 DEF PopFrame, Queue!Deliver
  <2>3. <<"item", f>> \in Replies  BY <2>1 DEF Replies
  <2>4. reply'["inference"] = <<"item", f>>  BY <2>2, <2>3, ReplyType
  <2>5. InferenceHand' \subseteq {f}  BY <2>4 DEF InferenceHand, Frame
  <2>6. f \in Waiting /\ Waiting' = Waiting \ {f}
    BY <2>1, <2>2, WaitingTail
  <2>7. Handled' = Handled  BY <2>2 DEF Handled, CountedFrames, fateVars
  <2>8. \A i \in taken' + 1 .. Len(accepted') :
          /\ i \in taken + 1 .. Len(accepted)
          /\ taken + 1 \in taken + 1 .. Len(accepted) /\ taken + 1 < i
    BY <1>1, <2>2
  <2>9. \A x \in Waiting' : f < x
    BY <2>2, <2>8 DEF Waiting, OrderInv
  <2> HIDE DEF f
  <2>10. \A i, j \in taken' + 1 .. Len(accepted') : i < j => accepted'[i] < accepted'[j]
    BY <2>2, <2>8 DEF OrderInv
  <2> QED  BY <2>5, <2>6, <2>7, <2>9, <2>10 DEF OrderInv
<1>5. CASE Finish
  <2>1. Waiting' = Waiting  BY <1>5, FinishedFrame DEF Waiting
  <2> QED  BY <1>5, <2>1, FinishedFrame DEF OrderInv
<1>6. CASE StayPut
  BY <1>6, HandledStays DEF OrderInv, StayPut
<1> QED  BY <1>2, <1>3, <1>4, <1>5, <1>6, HandStays

(* Frames are done with in the order they were captured, across stops and  *)
(* restarts: the frame that an iteration of inference_loop finishes is     *)
(* newer than every frame that was counted or faulted before.              *)
THEOREM FinishedInOrder == Spec => HandledInOrder
<1>1. Init => OrderInv
  <2> SUFFICES ASSUME Init PROVE OrderInv
    OBVIOUS
  <2>1. InferenceHand = {}
    BY DEF Init, InferenceHand, InferenceHolds, Threads
  <2>2. taken + 1 .. Len(accepted) = {}
    <3>1. Len(<<>>) = 0  BY EmptySeq
    <3> QED  BY <3>1 DEF Init, Queue!Init
  <2> QED  BY <2>1, <2>2 DEF OrderInv, Waiting
<1>2. TypeOK /\ FramesInv /\ OrderInv /\ [Next]_vars
        => [\A f \in Handled' \ Handled : \A g \in Handled : g < f]_vars
  <2> SUFFICES ASSUME TypeOK, FramesInv, OrderInv, [Next]_vars,
                      NEW f \in Handled' \ Handled, NEW g \in Handled
               PROVE  g < f
    OBVIOUS
  <2>1. CASE Start \/ PushFrame \/ PopFrame \/ StayPut
    BY <2>1, HandledStays
    DEF Start, PushFrame, PopFrame, Handled, CountedFrames, fateVars
  <2>2. CASE Finish
    BY <2>2, FinishedFrame DEF OrderInv
  <2> QED  BY <2>1, <2>2, HandStays
<1>3. TypeOK /\ FramesInv /\ OrderInv /\ [Next]_vars => OrderInv'
  BY OrderStep
<1> QED
  BY <1>1, <1>2, <1>3, TypeCorrect, FramesInvariant, PTL DEF Spec, HandledInOrder
-----------------------------------------------------------------------------
(* How many elements the sets of frames have.                              *)
LEMMA FramesAreFinite ==
  ASSUME NEW S \in SUBSET Frames
  PROVE  IsFiniteSet(S) /\ Cardinality(S) \in Nat
<1>1. IsFiniteSet(Frames)  BY BoundsAssumption, FS_Interval DEF Frames
<1>2. IsFiniteSet(S)  BY <1>1, FS_Subset
<1> QED  BY <1>2, FS_CardinalityType

LEMMA FirstFrame ==
  ASSUME NEW S \in SUBSET Frames, S # {}
  PROVE  \E f \in S : \A g \in S : f <= g
<1>1. S \subseteq Nat  BY DEF Frames
<1>2. PICK f \in S : \A g \in S : ~ (<<g, f>> \in OpToRel(<, Nat))
  BY <1>1, NatLessThanWellFounded, WFMin, Zenon
<1>3. \A g \in S : ~ (g < f)
  BY <1>1, <1>2, Zenon DEF OpToRel
<1> QED  BY <1>1, <1>3

(* A prune leaves at most as many records as it is asked to leave: the     *)
(* oldest one left has fewer than n newer ones.                            *)
LEMMA NewestAreFew ==
  ASSUME NEW S \in SUBSET Frames, NEW n \in Nat
  PROVE  Newest(S, n) \subseteq S /\ Cardinality(Newest(S, n)) <= n
<1> DEFINE N == Newest(S, n)
<1>1. N \subseteq S  BY DEF Newest
<1>2. CASE N = {}
  <2>1. Cardinality({}) = 0  BY FS_EmptySet
  <2> QED  BY <1>1, <1>2, <2>1
<1>3. CASE N # {}
  <2>1. N \in SUBSET Frames  BY <1>1
  <2> HIDE DEF N
  <2>2. PICK f \in N : \A g \in N : f <= g  BY <1>3, <2>1, FirstFrame
  <2> DEFINE Newer == {g \in S : g > f}
  <2>3. f \in Frames /\ Newer \in SUBSET Frames  BY <2>1, <2>2
  <2>4. Cardinality(Newer) < n  BY <2>2 DEF N, Newest
  <2>5. N \subseteq Newer \cup {f}
    <3>1. ASSUME NEW g \in N, g # f PROVE g \in Newer
      BY <1>1, <2>1, <2>2, <3>1 DEF Frames, N
    <3> QED  BY <3>1
  <2>6. Newer \cup {f} \in SUBSET Frames /\ f \notin Newer
    BY <2>3 DEF Frames
  <2> HIDE DEF Newer
  <2>7. Cardinality(Newer \cup {f}) = Cardinality(Newer) + 1
    BY <2>3, <2>6, FramesAreFinite, FS_AddElement
  <2>8. Cardinality(N) <= Cardinality(Newer \cup {f})
    BY <2>5, <2>6, FramesAreFinite, FS_Subset
  <2>9. Cardinality(Newer) \in Nat /\ Cardinality(N) \in Nat
    BY <2>1, <2>3, FramesAreFinite
  <2>10. Cardinality(N) <= n
    BY <2>4, <2>7, <2>8, <2>9
  <2> QED  BY <1>1, <2>10 DEF N
<1> QED  BY <1>2, <1>3

LEMMA OneMoreFrame ==
  ASSUME NEW S \in SUBSET Frames, NEW f \in Frames
  PROVE  Cardinality(S \cup {f}) <= Cardinality(S) + 1
<1>1. IsFiniteSet(S) /\ Cardinality(S) \in Nat  BY FramesAreFinite
<1>2. CASE f \in S
  <2>1. S \cup {f} = S  BY <1>2
  <2> QED  BY <1>1, <2>1
<1>3. CASE f \notin S
  <2>1. Cardinality(S \cup {f}) = Cardinality(S) + 1
    BY <1>1, <1>3, FS_AddElement
  <2> QED  BY <1>1, <2>1
<1> QED  BY <1>2, <1>3

(* What StoreBounded rests on.  Each prune takes the store back to         *)
(* MaxRecords; since then this run has added a record for each frame it    *)
(* has counted towards the next prune and the one it has stored but not    *)
(* counted yet, and each earlier run has left at most PruneInterval - 1    *)
(* frames that nobody remembers.  Without a store there are no records,    *)
(* and before the first start there is no thread to add any.               *)
NotCounted == IF pc["inference"] \in {"reject", "count", "beat"} THEN 1 ELSE 0
Forgotten == IF started = 0 THEN 0 ELSE (started - 1) * (PruneInterval - 1)
StoreInv ==
  /\ main = "new" => started = 0
  /\ started = 0 => store = {} /\ NoThreads
  /\ ~hasStore => store = {}
  /\ MaxRecords > 0 /\ ~pruneFailed =>
       Cardinality(store) <= MaxRecords + Forgotten + sincePrune + NotCounted

LEMMA ForgottenType ==
  ASSUME CallerTypes
  PROVE  /\ Forgotten \in Nat /\ started \in Nat /\ PruneInterval - 1 \in Nat
         /\ started > 0 => Forgotten + (PruneInterval - 1) = started * (PruneInterval - 1)
<1> DEFINE p == PruneInterval - 1
<1>1. started \in Nat /\ p \in Nat
  BY BoundsAssumption DEF CallerTypes
<1> HIDE DEF p
<1>2. ASSUME started > 0
      PROVE  (started - 1) * p \in Nat /\ (started - 1) * p + p = started * p
  BY <1>1, <1>2
<1> QED  BY <1>1, <1>2 DEF Forgotten, p

LEMMA StoreInvSuffices ==
  ASSUME TypeOK, StoreInv
  PROVE  StoreBounded
<1> SUFFICES ASSUME MaxRecords > 0, ~pruneFailed
             PROVE  Cardinality(store)
                      <= MaxRecords + started * (PruneInterval - 1) + 1
  BY DEF StoreBounded
<1>1. CallerTypes /\ store \in SUBSET Frames /\ sincePrune \in 0 .. PruneInterval - 1
  BY DEF TypeOK, ResultTypes
<1>2. MaxRecords \in Nat /\ PruneInterval \in Nat  BY BoundsAssumption
<1>3. CASE started = 0
  <2>1. store = {}  BY <1>3 DEF StoreInv
  <2>2. Cardinality({}) = 0  BY FS_EmptySet
  <2>3. 0 * (PruneInterval - 1) = 0  BY <1>2
  <2> QED  BY <1>2, <1>3, <2>1, <2>2, <2>3
<1>4. CASE started # 0
  <2>1. NotCounted \in 0 .. 1  BY DEF NotCounted
  <2>2. Cardinality(store) <= MaxRecords + Forgotten + sincePrune + NotCounted
    BY DEF StoreInv
  <2>3. /\ Forgotten \in Nat
        /\ Forgotten + (PruneInterval - 1) = started * (PruneInterval - 1)
    BY <1>1, <1>4, ForgottenType
  <2>4. Cardinality(store) \in Nat  BY <1>1, FramesAreFinite
  <2> DEFINE p == started * (PruneInterval - 1)
  <2>5. Forgotten + (PruneInterval - 1) = p  BY <2>3
  <2> HIDE DEF p
  <2>6. Cardinality(store) <= MaxRecords + p + 1
    BY <1>1, <1>2, <2>1, <2>2, <2>3, <2>4, <2>5
  <2> QED  BY <2>6 DEF p
<1> QED  BY <1>3, <1>4

(* Steps that leave the store and the count towards the next prune alone.  *)
LEMMA StoreInvKept ==
  ASSUME StoreInv, UNCHANGED <<started, hasStore, store, sincePrune, pruneFailed>>,
         main' = "new" => main = "new", NotCounted' = NotCounted,
         started = 0 => NoThreads'
  PROVE  StoreInv'
BY DEF StoreInv, Forgotten

LEMMA CallerStepStore ==
  ASSUME TypeOK, StoreInv, Initialize \/ Start \/ StopCall \/ StopStep
  PROVE  StoreInv'
<1>1. CASE Initialize
  <2>1. started = 0 /\ store = {} /\ NoThreads  BY <1>1 DEF Initialize, StoreInv
  <2>2. UNCHANGED <<started, store, sincePrune, pruneFailed, pc>>
    BY <1>1 DEF Initialize, workVars, inferVars
  <2>3. Forgotten' = Forgotten /\ NotCounted' = NotCounted /\ NoThreads'
    BY <2>1, <2>2 DEF Forgotten, NotCounted, NoThreads, At
  <2> QED  BY <2>1, <2>2, <2>3 DEF StoreInv
<1>2. CASE Start
  <2>1. /\ started' = started + 1 /\ main' = "ready" /\ sincePrune' = 0
        /\ UNCHANGED <<hasStore, store, pruneFailed>>
    BY <1>2 DEF Start
  <2>2. pc["inference"] = "none" /\ pc'["inference"] \in {"none", "check"}
    BY <1>2 DEF Start, NoThreads, At, Threads
  <2>3. NotCounted = 0 /\ NotCounted' = 0  BY <2>2 DEF NotCounted
  <2>4. CallerTypes /\ sincePrune \in 0 .. PruneInterval - 1 /\ store \in SUBSET Frames
    BY DEF TypeOK, ResultTypes
  <2>5. /\ Forgotten \in Nat /\ started \in Nat /\ PruneInterval - 1 \in Nat
        /\ started > 0 =>
             Forgotten + (PruneInterval - 1) = started * (PruneInterval - 1)
    BY <2>4, ForgottenType
  <2>6. started' # 0 /\ Forgotten' = started * (PruneInterval - 1)
    BY <2>1, <2>5 DEF Forgotten
  <2>7. Cardinality(store) \in Nat  BY <2>4, FramesAreFinite
  <2>8. MaxRecords \in Nat  BY BoundsAssumption
  <2>9. ASSUME MaxRecords > 0, ~pruneFailed
        PROVE  Cardinality(store) <= MaxRecords + Forgotten' + 0 + 0
    <3>1. CASE started = 0
      <4>1. store = {}  BY <3>1 DEF StoreInv
      <4>2. Cardinality({}) = 0  BY FS_EmptySet
      <4>3. Forgotten' = 0  BY <2>5, <2>6, <3>1
      <4> QED  BY <2>8, <4>1, <4>2, <4>3
    <3>2. CASE started # 0
      <4>1. Cardinality(store) <= MaxRecords + Forgotten + sincePrune + 0
        BY <2>3, <2>9 DEF StoreInv
      <4>2. Forgotten' = Forgotten + (PruneInterval - 1)
        BY <2>5, <2>6, <3>2
      <4> QED  BY <2>4, <2>5, <2>7, <2>8, <4>1, <4>2
    <3> QED  BY <3>1, <3>2
  <2> QED  BY <2>1, <2>3, <2>6, <2>9 DEF StoreInv
<1>3. CASE StopCall \/ StopQueue \/ Joined \/ Cleanup
  <2>1. UNCHANGED <<pc, started, hasStore, store, sincePrune, pruneFailed>> /\ main' # "new"
    BY <1>3 DEF StopCall, StopQueue, Joined, Cleanup, workVars, inferVars
  <2>2. NotCounted' = NotCounted /\ (NoThreads => NoThreads')
    BY <2>1 DEF NotCounted, NoThreads, At
  <2>3. started = 0 => NoThreads  BY DEF StoreInv
  <2> QED  BY <2>1, <2>2, <2>3, StoreInvKept
<1>4. ASSUME NEW i \in 1 .. 4, Join(i) PROVE StoreInv'
  <2>1. JoinOrder[i] \in Threads  BY DEF JoinOrder, Threads
  <2>2. pc[JoinOrder[i]] = "done" /\ Goto(JoinOrder[i], "none")
    BY <1>4 DEF Join, At
  <2>3. \A t \in Threads : pc'[t] = pc[t] \/ (pc[t] = "done" /\ pc'[t] = "none")
    BY <2>1, <2>2, PcType DEF PcValues, TypeOK
  <2>4. NotCounted' = NotCounted  BY <2>3 DEF NotCounted, Threads
  <2>5. started # 0  BY <2>1, <2>2 DEF StoreInv, NoThreads, At
  <2>6. UNCHANGED <<main, started, hasStore, store, sincePrune, pruneFailed>>
    BY <1>4 DEF Join, callerVars, workVars, inferVars
  <2> QED  BY <2>4, <2>5, <2>6, StoreInvKept
<1> QED  BY <1>1, <1>2, <1>3, <1>4 DEF StopStep

(* The steps of the threads; the inference thread's are below.             *)
LEMMA OtherStepStore ==
  ASSUME TypeOK, StoreInv, CaptureStep \/ DisplayStep \/ WatchdogStep
  PROVE  StoreInv'
<1>1. PICK t \in {"capture", "display", "watchdog"}, s \in PcValues :
             pc[t] # "none" /\ Goto(t, s)
  BY DEF CaptureStep, CaptureCheck, GrabFrame, GrabNothing, GrabEndOfVideo,
         PushFrame, DropFrame, DisplayStep, DisplayCheck, TakeSlot, ShowFrame,
         WatchdogStep, WatchdogCheck, WatchdogLook, At, PcValues, AfterCount
<1>2. pc'["inference"] = pc["inference"]  BY <1>1, PcType DEF TypeOK, Threads
<1>3. started # 0  BY <1>1 DEF StoreInv, NoThreads, At, Threads
<1>4. UNCHANGED <<main, started, hasStore, store, sincePrune, pruneFailed>>
  BY DEF CaptureStep, CaptureCheck, GrabFrame, GrabNothing, GrabEndOfVideo,
         PushFrame, DropFrame, DisplayStep, DisplayCheck, TakeSlot, ShowFrame,
         WatchdogStep, WatchdogCheck, WatchdogLook, callerVars, workVars, inferVars
<1> QED  BY <1>2, <1>3, <1>4, StoreInvKept DEF NotCounted

LEMMA InferenceStepStore ==
  ASSUME TypeOK, StoreInv, InferenceStep
  PROVE  StoreInv'
<1>1. started # 0
  <2>1. pc["inference"] # "none"
    BY DEF InferenceStep, InferenceCheck, PopFrame, PopNothing, Infer, StoreResult,
       FrameFaults, RejectResult, CountResult, Heartbeat, OfferToDisplay, At
  <2> QED  BY <2>1 DEF StoreInv, NoThreads, At, Threads
<1>2. UNCHANGED <<main, started, hasStore>>
  BY DEF InferenceStep, InferenceCheck, PopFrame, PopNothing, Infer, StoreResult,
     FrameFaults, RejectResult, CountResult, Heartbeat, OfferToDisplay, callerVars
<1>3. /\ Forgotten' = Forgotten /\ Forgotten \in Nat
      /\ MaxRecords \in Nat /\ PruneInterval \in Nat \ {0}
  BY <1>2, ForgottenType, BoundsAssumption DEF TypeOK, Forgotten
<1>4. sincePrune \in 0 .. PruneInterval - 1 /\ store \in SUBSET Frames
  BY DEF TypeOK, ResultTypes
<1>5. Cardinality(store) \in Nat  BY <1>4, FramesAreFinite
<1>6. CASE InferenceCheck \/ PopFrame \/ PopNothing \/ Infer \/ FrameFaults
           \/ RejectResult \/ CountResult \/ OfferToDisplay
  <2>1. UNCHANGED <<store, sincePrune, pruneFailed>>
    BY <1>6
    DEF InferenceCheck, PopFrame, PopNothing, Infer, FrameFaults, RejectResult,
        CountResult, OfferToDisplay, workVars, inferVars
  <2>2. PICK s \in PcValues : Goto("inference", s)
    BY <1>6
    DEF InferenceCheck, PopFrame, PopNothing, Infer, FrameFaults, RejectResult,
        CountResult, OfferToDisplay, PcValues, InferenceHolds, AfterCount
  <2>3. pc'["inference"] = s  BY <2>2, PcType DEF TypeOK, Threads
  <2>4. NotCounted' = NotCounted
    <3>1. CASE RejectResult \/ CountResult
      <4>1. /\ pc["inference"] \in {"reject", "count"}
            /\ \E u \in {"count", "beat"} : Goto("inference", u)
        BY <3>1 DEF RejectResult, CountResult, At
      <4>2. pc'["inference"] \in {"count", "beat"}
        BY <4>1, PcType DEF TypeOK, Threads, PcValues, InferenceHolds, AfterCount
      <4> QED  BY <4>1, <4>2 DEF NotCounted
    <3>2. CASE InferenceCheck \/ PopFrame \/ PopNothing \/ Infer \/ FrameFaults
               \/ OfferToDisplay
      <4>1. pc["inference"] \notin {"reject", "count", "beat"}
        BY <3>2
        DEF InferenceCheck, PopFrame, PopNothing, Infer, FrameFaults,
            OfferToDisplay, At
      <4>2. pc'["inference"] \in {"check", "pop", "done", "infer", "store"}
        BY <3>2, PcType
        DEF InferenceCheck, PopFrame, PopNothing, Infer, FrameFaults,
            OfferToDisplay, TypeOK, Threads, PcValues, InferenceHolds
      <4> QED  BY <4>1, <4>2 DEF NotCounted
    <3> QED  BY <1>6, <3>1, <3>2
  <2> QED  BY <1>1, <1>2, <2>1, <2>4, StoreInvKept
<1>7. CASE StoreResult
  <2>1. pc["inference"] = "store" /\ pc'["inference"] = "reject"
    BY <1>7, PcType DEF StoreResult, At, TypeOK, Threads, PcValues, InferenceHolds
  <2>2. NotCounted = 0 /\ NotCounted' = 1  BY <2>1 DEF NotCounted
  <2>3. UNCHANGED <<sincePrune, pruneFailed>>  BY <1>7 DEF StoreResult
  <2>4. /\ store' = store \/ store' = store \cup {Frame}
        /\ ~hasStore => store' = store
    BY <1>7 DEF StoreResult
  <2>5. Frame \in Frames
    BY <2>1 DEF TypeOK, ResultTypes, InferenceHolds
  <2>6. store' \in SUBSET Frames /\ Cardinality(store') <= Cardinality(store) + 1
    BY <1>4, <1>5, <2>4, <2>5, OneMoreFrame
  <2>7. Cardinality(store') \in Nat  BY <2>6, FramesAreFinite
  <2>8. ASSUME MaxRecords > 0, ~pruneFailed
        PROVE  Cardinality(store') <= MaxRecords + Forgotten + sincePrune + 1
    <3>1. Cardinality(store) <= MaxRecords + Forgotten + sincePrune + 0
      BY <2>2, <2>8 DEF StoreInv
    <3> QED  BY <1>3, <1>4, <1>5, <2>6, <2>7, <3>1
  <2> QED  BY <1>1, <1>2, <1>3, <2>2, <2>3, <2>4, <2>8 DEF StoreInv
<1>8. CASE Heartbeat
  <2>1. pc["inference"] = "beat" /\ pc'["inference"] \in {"show", "check"}
    BY <1>8, PcType DEF Heartbeat, At, TypeOK, Threads, PcValues, AfterCount
  <2>2. NotCounted = 1 /\ NotCounted' = 0  BY <2>1 DEF NotCounted
  <2>3. PruneIfDue  BY <1>8 DEF Heartbeat
  <2>4. \/ sincePrune' = sincePrune + 1
        \/ sincePrune' = 0
    BY <1>3, <1>4, <2>3 DEF PruneIfDue
  <2>5. CASE sincePrune' # 0 \/ ~hasStore \/ MaxRecords = 0
    <3>1. UNCHANGED <<store, pruneFailed>>
      BY <1>3, <2>3, <2>5 DEF PruneIfDue
    <3>2. ASSUME MaxRecords > 0, ~pruneFailed
          PROVE  Cardinality(store) <= MaxRecords + Forgotten + sincePrune' + 0
      <4>1. Cardinality(store) <= MaxRecords + Forgotten + sincePrune + 1
        BY <2>2, <3>2 DEF StoreInv
      <4>2. CASE sincePrune' # 0
        BY <1>3, <1>4, <1>5, <2>4, <4>1, <4>2
      <4>3. CASE ~hasStore
        <5>1. store = {}  BY <4>3 DEF StoreInv
        <5>2. Cardinality({}) = 0  BY FS_EmptySet
        <5>3. sincePrune' \in Nat  BY <1>4, <2>4
        <5> QED  BY <1>3, <5>1, <5>2, <5>3
      <4> QED  BY <1>3, <2>5, <3>2, <4>2, <4>3
    <3> QED  BY <1>1, <1>2, <1>3, <2>2, <3>1, <3>2 DEF StoreInv
  <2>6. CASE sincePrune' = 0 /\ hasStore /\ MaxRecords # 0
    <3>1. Prune  BY <1>3, <2>3, <2>6 DEF PruneIfDue
    <3>2. CASE store' = Newest(store, MaxRecords)
      <4>1. store' \in SUBSET Frames /\ Cardinality(store') <= MaxRecords
        BY <1>3, <1>4, <3>2, NewestAreFew
      <4>2. Cardinality(store') \in Nat  BY <4>1, FramesAreFinite
      <4>3. Cardinality(store') <= MaxRecords + Forgotten + 0 + 0
        BY <1>3, <4>1, <4>2
      <4> QED  BY <1>1, <1>2, <1>3, <2>2, <2>6, <4>3 DEF StoreInv
    <3>3. CASE pruneFailed' = TRUE /\ store' = store
      BY <1>1, <1>2, <2>6, <3>3 DEF StoreInv
    <3> QED  BY <3>1, <3>2, <3>3 DEF Prune
  <2> QED  BY <2>5, <2>6
<1> QED  BY <1>6, <1>7, <1>8 DEF InferenceStep

(* Pruning every PruneInterval frames, with a count that a restart begins  *)
(* anew, keeps the store within what MaxRecords and the number of runs     *)
(* allow, as long as no prune fails.                                       *)
THEOREM StoreStaysBounded == Spec => []StoreBounded
<1>1. Init => StoreInv
  <2> SUFFICES ASSUME Init PROVE StoreInv
    OBVIOUS
  <2>1. store = {} /\ started = 0 /\ sincePrune = 0
    BY DEF Init
  <2>2. NoThreads /\ NotCounted = 0
    BY DEF Init, NoThreads, At, NotCounted, Threads
  <2>3. Cardinality({}) = 0 /\ MaxRecords \in Nat
    BY FS_EmptySet, BoundsAssumption
  <2>4. Cardinality(store) <= MaxRecords + Forgotten + sincePrune + NotCounted
    BY <2>1, <2>2, <2>3 DEF Forgotten
  <2> QED  BY <2>1, <2>2, <2>4 DEF StoreInv
<1>2. TypeOK /\ StoreInv /\ [Next]_vars => StoreInv'
  <2> SUFFICES ASSUME TypeOK, StoreInv, [Next]_vars PROVE StoreInv'
    OBVIOUS
  <2>1. CASE TimeoutPasses \/ UNCHANGED vars
    <3>1. UNCHANGED <<main, pc, started, hasStore, store, sincePrune, pruneFailed>>
      BY <2>1 DEF TimeoutPasses, vars, callerVars, workVars, inferVars
    <3>2. NotCounted' = NotCounted /\ (NoThreads => NoThreads')
      BY <3>1 DEF NotCounted, NoThreads, At
    <3>3. started = 0 => NoThreads  BY DEF StoreInv
    <3> QED  BY <3>1, <3>2, <3>3, StoreInvKept
  <2> QED
    BY <2>1, CallerStepStore, OtherStepStore, InferenceStepStore DEF Next
<1>3. TypeOK /\ StoreInv => StoreBounded
  BY StoreInvSuffices
<1> QED  BY <1>1, <1>2, <1>3, TypeCorrect, PTL DEF Spec
=============================================================================
