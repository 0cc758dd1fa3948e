---------------------------- MODULE FrameChannel ----------------------------
(***************************************************************************)
(* What the pipeline relies on BoundedQueue for: a bounded channel that    *)
(* hands items out once each, in the order it admitted them, refuses an    *)
(* item only when it is full or closed, and answers "nothing" only when it *)
(* is empty.  Nothing here waits: mutex, condition variables and deadlines *)
(* belong to FrameQueue, which implements this specification.              *)
(***************************************************************************)
EXTENDS Naturals, Sequences

CONSTANTS Producers, Consumers, Items, Capacity

VARIABLES accepted,   \* the items admitted since the last Clear, in order
          taken,      \* how many of them have been handed out
          closed,
          reply       \* each client's last answer, <<"pending">> during a call

channelVars == <<accepted, taken, closed, reply>>

Clients == Producers \cup Consumers
Backlog == Len(accepted) - taken
NoReply == [c \in Clients |-> <<"none">>]

Init ==
  /\ accepted = <<>>
  /\ taken = 0
  /\ closed = FALSE
  /\ reply = NoReply

Invoke(c) ==
  /\ reply' = [reply EXCEPT ![c] = <<"pending">>]
  /\ UNCHANGED <<accepted, taken, closed>>

Accept(p, x) ==
  /\ ~closed
  /\ Backlog < Capacity
  /\ accepted' = Append(accepted, x)
  /\ reply' = [reply EXCEPT ![p] = <<"accepted">>]
  /\ UNCHANGED <<taken, closed>>

Refuse(p) ==
  /\ closed \/ Backlog >= Capacity
  /\ reply' = [reply EXCEPT ![p] = <<"refused">>]
  /\ UNCHANGED <<accepted, taken, closed>>

Deliver(c) ==
  /\ Backlog > 0
  /\ taken' = taken + 1
  /\ reply' = [reply EXCEPT ![c] = <<"item", accepted[taken + 1]>>]
  /\ UNCHANGED <<accepted, closed>>

Nothing(c) ==
  /\ Backlog = 0
  /\ reply' = [reply EXCEPT ![c] = <<"nothing">>]
  /\ UNCHANGED <<accepted, taken, closed>>

Close ==
  /\ closed' = TRUE
  /\ UNCHANGED <<accepted, taken, reply>>

Clear ==
  /\ accepted' = <<>>
  /\ taken' = 0
  /\ closed' = FALSE
  /\ UNCHANGED reply

Next ==
  \/ \E c \in Clients : Invoke(c)
  \/ \E p \in Producers : Refuse(p) \/ \E x \in Items : Accept(p, x)
  \/ \E c \in Consumers : Deliver(c) \/ Nothing(c)
  \/ Close
  \/ Clear

Spec == Init /\ [][Next]_channelVars
=============================================================================
