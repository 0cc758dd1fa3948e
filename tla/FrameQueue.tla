----------------------------- MODULE FrameQueue -----------------------------
(***************************************************************************)
(* BoundedQueue of include/edgeai/pipeline/frame_queue.h: a std::queue     *)
(* behind one mutex, with a condition variable for pushers (cv_push_) and  *)
(* one for poppers (cv_pop_).                                              *)
(*                                                                         *)
(* A step is what a thread does while it holds the mutex.  A thread inside *)
(* push or pop is "ready" when it wants the mutex to evaluate the          *)
(* predicate of its wait_for, and "blocked" when it sleeps on its          *)
(* condition variable.  wait_for takes an absolute deadline, so a thread   *)
(* whose deadline has passed (`due`) evaluates the predicate one last time *)
(* and returns either way.                                                 *)
(***************************************************************************)
EXTENDS Naturals, Sequences, FiniteSets

CONSTANTS Producers,   \* threads that push
          Consumers,   \* threads that pop
          Items,
          Capacity,    \* capacity_
          MaxPushes    \* bound: pushes admitted or pending between two resets

Threads == Producers \cup Consumers
Answers ==
  {<<a>> : a \in {"none", "pending", "accepted", "refused", "nothing"}}
    \cup {<<"item", x>> : x \in Items}

ASSUME ThreadsAssumption ==
  /\ IsFiniteSet(Producers)
  /\ IsFiniteSet(Consumers)
  /\ Producers \cap Consumers = {}
ASSUME CapacityAssumption == Capacity \in Nat
ASSUME MaxPushesAssumption == MaxPushes \in Nat

VARIABLES queue,       \* queue_
          stopped,     \* stopped_
          call,        \* per thread: "idle", "ready" or "blocked"
          due,         \* threads in a call whose deadline has passed
          reply,       \* per thread: the value its last call returned
          delivered    \* history: the items handed out since the last reset

queueVars == <<queue, stopped, call, due, reply, delivered>>

Init ==
  /\ queue = <<>>
  /\ stopped = FALSE
  /\ call = [t \in Threads |-> "idle"]
  /\ due = {}
  /\ reply = [t \in Threads |-> <<"none">>]
  /\ delivered = <<>>

-----------------------------------------------------------------------------
Blocked(S) == {t \in S : call[t] = "blocked"}
Ready(S) == {t \in S : call[t] = "ready"}
InCall(t) == call[t] # "idle"

HasRoom == Len(queue) < Capacity
HasItem == queue # <<>>
CanPush == HasRoom \/ stopped      \* the predicate push waits for
CanPop == HasItem \/ stopped       \* the predicate pop waits for

(* Faulty variants, used only to check that the properties can fail:       *)
(* notify_one left out, and notify_one left out by a push that finds items *)
(* in the queue already.                                                   *)
NoWakeUp(f, S) == {f}
WakeOnEmpty(f, S) ==
  IF Blocked(S) = {} \/ (S = Consumers /\ queue # <<>>) THEN {f}
  ELSE {[f EXCEPT ![t] = "ready"] : t \in Blocked(S)}

(* notify_one on the condition variable of the threads S: f is `call`      *)
(* after the caller's own change.                                          *)
WakeOne(f, S) ==
  IF Blocked(S) = {} THEN {f}
  ELSE {[f EXCEPT ![t] = "ready"] : t \in Blocked(S)}

WakeAll(f) == [t \in Threads |-> IF f[t] = "blocked" THEN "ready" ELSE f[t]]

Return(t, v) ==
  /\ reply' = [reply EXCEPT ![t] = v]
  /\ due' = due \ {t}

Enter(t) ==
  /\ ~InCall(t)
  /\ call' = [call EXCEPT ![t] = "ready"]
  /\ reply' = [reply EXCEPT ![t] = <<"pending">>]
  /\ UNCHANGED <<queue, stopped, due, delivered>>

(* Faulty variant: a wait that takes its timeout anew each time.           *)
BlockAnew(t) ==
  /\ call' = [call EXCEPT ![t] = "blocked"]
  /\ UNCHANGED <<queue, stopped, due, reply, delivered>>

(* The thread's predicate is false and its deadline has not passed.        *)
Block(t) ==
  /\ t \notin due
  /\ call' = [call EXCEPT ![t] = "blocked"]
  /\ UNCHANGED <<queue, stopped, due, reply, delivered>>

-----------------------------------------------------------------------------
(* push.  Nothing looks at the item before it is admitted, so the caller's *)
(* argument is chosen there.                                               *)
Pushes ==
  Len(delivered) + Len(queue) + Cardinality({p \in Producers : InCall(p)})

PushCall(p) == Pushes < MaxPushes /\ Enter(p)

(* Faulty variant: the capacity test is off by one.                        *)
AdmitOneTooMany(p) ==
  /\ call[p] = "ready"
  /\ Len(queue) <= Capacity /\ ~stopped
  /\ \E x \in Items : queue' = Append(queue, x)
  /\ Return(p, <<"accepted">>)
  /\ call' \in WakeOne([call EXCEPT ![p] = "idle"], Consumers)
  /\ UNCHANGED <<stopped, delivered>>

PushAdmit(p) ==
  /\ call[p] = "ready"
  /\ HasRoom /\ ~stopped
  /\ \E x \in Items : queue' = Append(queue, x)
  /\ Return(p, <<"accepted">>)
  /\ call' \in WakeOne([call EXCEPT ![p] = "idle"], Consumers)
  /\ UNCHANGED <<stopped, delivered>>

PushRefuse(p) ==
  /\ call[p] = "ready"
  /\ stopped \/ (~CanPush /\ p \in due)
  /\ Return(p, <<"refused">>)
  /\ call' = [call EXCEPT ![p] = "idle"]
  /\ UNCHANGED <<queue, stopped, delivered>>

PushWait(p) == call[p] = "ready" /\ ~CanPush /\ Block(p)

-----------------------------------------------------------------------------
(* pop and try_pop.                                                        *)
PopCall(c) == Enter(c)

HandOut(c) ==
  /\ queue' = Tail(queue)
  /\ delivered' = Append(delivered, Head(queue))
  /\ Return(c, <<"item", Head(queue)>>)
  /\ call' \in WakeOne([call EXCEPT ![c] = "idle"], Producers)
  /\ UNCHANGED stopped

PopItem(c) == call[c] = "ready" /\ HasItem /\ HandOut(c)

PopNothing(c) ==
  /\ call[c] = "ready"
  /\ ~HasItem
  /\ stopped \/ c \in due
  /\ Return(c, <<"nothing">>)
  /\ call' = [call EXCEPT ![c] = "idle"]
  /\ UNCHANGED <<queue, stopped, delivered>>

PopWait(c) == call[c] = "ready" /\ ~CanPop /\ Block(c)

TryPop(c) ==
  /\ ~InCall(c)
  /\ \/ HasItem /\ HandOut(c)
     \/ /\ ~HasItem
        /\ Return(c, <<"nothing">>)
        /\ UNCHANGED <<queue, stopped, call, delivered>>

-----------------------------------------------------------------------------
(* A deadline passes, which also wakes a sleeper; and the wake-ups without *)
(* a reason that condition variables are allowed.                          *)
Deadline(t) ==
  /\ InCall(t)
  /\ t \notin due
  /\ due' = due \cup {t}
  /\ call' = [call EXCEPT ![t] = "ready"]
  /\ UNCHANGED <<queue, stopped, reply, delivered>>

SpuriousWake(t) ==
  /\ call[t] = "blocked"
  /\ call' = [call EXCEPT ![t] = "ready"]
  /\ UNCHANGED <<queue, stopped, due, reply, delivered>>

(* Faulty variant: stop() forgets cv_push_.                                *)
StopNotifiesPoppers ==
  /\ stopped' = TRUE
  /\ call' = [t \in Threads |-> IF t \in Blocked(Consumers) THEN "ready" ELSE call[t]]
  /\ UNCHANGED <<queue, due, reply, delivered>>

Stop ==
  /\ stopped' = TRUE
  /\ call' = WakeAll(call)
  /\ UNCHANGED <<queue, due, reply, delivered>>

(* reset notifies nobody.  Its one caller, DefectPipeline::start, runs it  *)
(* when the threads of the previous run have been joined.                  *)
Reset ==
  /\ \A t \in Threads : ~InCall(t)
  /\ queue' = <<>>
  /\ delivered' = <<>>
  /\ stopped' = FALSE
  /\ UNCHANGED <<call, due, reply>>

-----------------------------------------------------------------------------
Push(p) == PushAdmit(p) \/ PushRefuse(p) \/ PushWait(p)
Pop(c) == PopItem(c) \/ PopNothing(c) \/ PopWait(c)

Next ==
  \/ \E p \in Producers : PushCall(p) \/ Push(p)
  \/ \E c \in Consumers : PopCall(c) \/ Pop(c) \/ TryPop(c)
  \/ \E t \in Threads : Deadline(t) \/ SpuriousWake(t)
  \/ Stop
  \/ Reset

(* A thread that wants the mutex gets it: every critical section is finite *)
(* and the scheduler runs every thread.  No deadline is assumed to pass    *)
(* and nobody is assumed to call anything.                                 *)
Fairness ==
  /\ \A p \in Producers : WF_queueVars(Push(p))
  /\ \A c \in Consumers : WF_queueVars(Pop(c))

Spec == Init /\ [][Next]_queueVars /\ Fairness
-----------------------------------------------------------------------------
(* Every variable has its type, and only a thread inside a call has a      *)
(* deadline.                                                               *)
TypeOK ==
  /\ queue \in Seq(Items)
  /\ stopped \in BOOLEAN
  /\ call \in [Threads -> {"idle", "ready", "blocked"}]
  /\ due \in SUBSET {t \in Threads : call[t] = "ready"}
  /\ reply \in [Threads -> Answers]
  /\ delivered \in Seq(Items)

(* While poppers sleep on cv_pop_, every item in the queue has a popper    *)
(* awake to fetch it, and none sleeps once the queue is stopped.           *)
NoPopperLeftAsleep ==
  Blocked(Consumers) # {} =>
    ~stopped /\ Cardinality(Ready(Consumers)) >= Len(queue)

(* The same of cv_push_: while pushers sleep, every free slot has a pusher *)
(* awake to fill it.                                                       *)
NoPusherLeftAsleep ==
  Blocked(Producers) # {} =>
    ~stopped /\ Cardinality(Ready(Producers)) + Len(queue) >= Capacity

(* No wake-up is lost on either side, and one notify_one per operation is  *)
(* enough only because of this.                                            *)
NobodyLeftAsleep == NoPopperLeftAsleep /\ NoPusherLeftAsleep

(* Without any help from deadlines, a popper does not sleep for ever on a  *)
(* queue that holds items (push notifies it, or another popper takes them) *)
(* nor a pusher on one that has room.                                      *)
SleepersAreServed ==
  /\ \A c \in Consumers : (c \in Blocked(Consumers) /\ HasItem)
                            ~> (c \notin Blocked(Consumers) \/ ~HasItem)
  /\ \A p \in Producers : (p \in Blocked(Producers) /\ HasRoom)
                            ~> (p \notin Blocked(Producers) \/ ~HasRoom)

(* stop() gets every thread out of push and pop, deadline or no deadline:  *)
(* what DefectPipeline::stop needs before it joins the threads.            *)
StopEndsCalls ==
  \A t \in Threads : (stopped /\ InCall(t)) ~> ~InCall(t)

(* The queue implements the channel: items come out once each, in the      *)
(* order they went in, never more than Capacity wait, and push fails only  *)
(* on a full or stopped queue, pop only on an empty one, whatever the      *)
(* interleaving of deadlines, wake-ups and stop.                           *)
Channel == INSTANCE FrameChannel WITH
  accepted <- delivered \o queue,
  taken <- Len(delivered),
  closed <- stopped

ImplementsChannel == Channel!Spec
=============================================================================
