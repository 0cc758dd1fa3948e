-------------------------- MODULE FrameQueueProofs --------------------------
(***************************************************************************)
(* Proofs about FrameQueue, for every number of pushers and poppers and    *)
(* every capacity: type correctness, that no wake-up is lost, and that the *)
(* queue implements FrameChannel.                                          *)
(***************************************************************************)
EXTENDS FrameQueue, TLAPS, FiniteSetTheorems, SequenceTheorems

(* WakeOne only ever turns one sleeper of S into a ready thread.           *)
LEMMA WakeOneChoice ==
  ASSUME NEW f, NEW S, NEW g \in WakeOne(f, S)
  PROVE  \/ Blocked(S) = {} /\ g = f
         \/ \E t \in Blocked(S) : g = [f EXCEPT ![t] = "ready"]
BY DEF WakeOne

(* The types of the two things that every returning call changes.          *)
LEMMA ReturnType ==
  ASSUME TypeOK, NEW t \in Threads, NEW v \in Answers, Return(t, v),
         NEW S \in SUBSET Threads,
         call' \in WakeOne([call EXCEPT ![t] = "idle"], S)
  PROVE  /\ call' \in [Threads -> {"idle", "ready", "blocked"}]
         /\ reply' \in [Threads -> Answers]
         /\ due' \in SUBSET {u \in Threads : call'[u] = "ready"}
<1>1. PICK f : f = [call EXCEPT ![t] = "idle"]  OBVIOUS
<1>2. f \in [Threads -> {"idle", "ready", "blocked"}]  BY <1>1 DEF TypeOK
<1>3. CASE call' = f
  BY <1>1, <1>2, <1>3 DEF TypeOK, Return
<1>4. CASE \E u \in Blocked(S) : call' = [f EXCEPT ![u] = "ready"]
  BY <1>1, <1>2, <1>4 DEF TypeOK, Return, Blocked
<1>5. call' \in WakeOne(f, S)  BY <1>1
<1>6. \/ call' = f
      \/ \E u \in Blocked(S) : call' = [f EXCEPT ![u] = "ready"]
  BY <1>5, WakeOneChoice
<1> QED  BY <1>3, <1>4, <1>6

(* Every reachable state has the types TypeOK gives.                       *)
THEOREM TypeCorrect == Spec => []TypeOK
<1>1. Init => TypeOK
  <2>1. <<>> \in Seq(Items)  BY EmptySeq
  <2> QED  BY <2>1, Zenon DEF Init, TypeOK, Answers
<1>2. TypeOK /\ [Next]_queueVars => TypeOK'
  <2> SUFFICES ASSUME TypeOK, [Next]_queueVars PROVE TypeOK'
    OBVIOUS
  <2> USE DEF Threads
  <2>1. ASSUME NEW p \in Producers, PushCall(p) PROVE TypeOK'
    BY <2>1 DEF TypeOK, PushCall, Enter, InCall, Answers
  <2>2. ASSUME NEW p \in Producers, PushAdmit(p) PROVE TypeOK'
    <3>1. queue' \in Seq(Items)  BY <2>2 DEF PushAdmit, TypeOK
    <3>2. UNCHANGED <<stopped, delivered>>  BY <2>2 DEF PushAdmit
    <3> QED  BY <2>2, <3>1, <3>2, ReturnType DEF TypeOK, PushAdmit, Answers
  <2>3. ASSUME NEW p \in Producers, PushRefuse(p) PROVE TypeOK'
    BY <2>3 DEF TypeOK, PushRefuse, Return, Answers
  <2>4. ASSUME NEW t \in Threads, Block(t) PROVE TypeOK'
    BY <2>4 DEF TypeOK, Block
  <2>5. ASSUME NEW c \in Consumers, PopCall(c) PROVE TypeOK'
    BY <2>5 DEF TypeOK, PopCall, Enter, InCall, Answers
  <2>6. ASSUME NEW c \in Consumers, HasItem, HandOut(c) PROVE TypeOK'
    <3>1. Head(queue) \in Items /\ Tail(queue) \in Seq(Items)
      BY <2>6, HeadTailProperties DEF TypeOK, HasItem
    <3>2. queue' \in Seq(Items) /\ delivered' \in Seq(Items)
      BY <2>6, <3>1 DEF HandOut, TypeOK
    <3>3. <<"item", Head(queue)>> \in Answers  BY <3>1 DEF Answers
    <3> QED  BY <2>6, <3>2, <3>3, ReturnType DEF TypeOK, HandOut
  <2>7. ASSUME NEW c \in Consumers, PopNothing(c) PROVE TypeOK'
    BY <2>7 DEF TypeOK, PopNothing, Return, Answers
  <2>8. ASSUME NEW c \in Consumers, TryPop(c) PROVE TypeOK'
    <3>1. CASE HasItem /\ HandOut(c)  BY <2>6, <3>1
    <3>2. CASE ~HasItem
      BY <2>8, <3>2 DEF TypeOK, TryPop, InCall, Return, Answers
    <3> QED  BY <2>8, <3>1, <3>2 DEF TryPop
  <2>9. ASSUME NEW t \in Threads, Deadline(t) PROVE TypeOK'
    BY <2>9 DEF TypeOK, Deadline, InCall
  <2>10. ASSUME NEW t \in Threads, SpuriousWake(t) PROVE TypeOK'
    BY <2>10 DEF TypeOK, SpuriousWake
  <2>11. CASE Stop
    BY <2>11 DEF TypeOK, Stop, WakeAll
  <2>12. CASE Reset
    <3>1. queue' \in Seq(Items) /\ delivered' \in Seq(Items)
      BY <2>12, EmptySeq DEF Reset
    <3> QED  BY <2>12, <3>1 DEF TypeOK, Reset
  <2>13. CASE UNCHANGED queueVars
    BY <2>13 DEF TypeOK, queueVars
  <2> QED
    BY <2>1, <2>2, <2>3, <2>4, <2>5, <2>6, <2>7, <2>8, <2>9, <2>10, <2>11,
       <2>12, <2>13 DEF Next, Push, Pop, PushWait, PopItem, PopWait
<1> QED  BY <1>1, <1>2, PTL DEF Spec

-----------------------------------------------------------------------------
(* Sets of threads are finite, so their sizes are numbers.                 *)
LEMMA ThreadSets ==
  ASSUME NEW S, NEW T, IsFiniteSet(T), S \subseteq T
  PROVE  IsFiniteSet(S) /\ Cardinality(S) \in Nat /\ Cardinality(S) <= Cardinality(T)
BY FS_Subset, FS_CardinalityType

(* Both invariants have this shape: while threads of S sleep, `need` of S  *)
(* are awake.                                                              *)
Awake(S, need) ==
  Blocked(S) # {} => ~stopped /\ Cardinality(Ready(S)) >= need

(* A step that puts nobody of S to sleep, lets none return and does not    *)
(* raise what is needed keeps it.                                          *)
LEMMA AwakeStays ==
  ASSUME NEW S, IsFiniteSet(S), NEW n \in Int, NEW m \in Int, m <= n,
         Awake(S, n), stopped' = stopped,
         Blocked(S)' \subseteq Blocked(S), Ready(S) \subseteq Ready(S)'
  PROVE  Blocked(S)' # {} => ~stopped' /\ Cardinality(Ready(S)') >= m
<1>1. Ready(S) \subseteq S /\ Ready(S)' \subseteq S  BY DEF Ready
<1>2. IsFiniteSet(Ready(S)') /\ Cardinality(Ready(S)') \in Nat
  BY <1>1, ThreadSets
<1>3. Cardinality(Ready(S)) \in Nat
      /\ Cardinality(Ready(S)) <= Cardinality(Ready(S)')
  BY <1>1, <1>2, ThreadSets
<1> QED  BY <1>2, <1>3 DEF Awake

(* A thread of S returns and what is needed drops by one.                  *)
LEMMA AwakeReturn ==
  ASSUME NEW S, IsFiniteSet(S), NEW n \in Int, NEW t \in S, t \in Ready(S),
         Awake(S, n), stopped' = stopped,
         Blocked(S)' \subseteq Blocked(S), Ready(S)' = Ready(S) \ {t}
  PROVE  Blocked(S)' # {} => ~stopped' /\ Cardinality(Ready(S)') >= n - 1
<1>1. IsFiniteSet(Ready(S)) /\ Cardinality(Ready(S)) \in Nat
  BY ThreadSets DEF Ready
<1>2. Cardinality(Ready(S)') = Cardinality(Ready(S)) - 1
  BY <1>1, FS_RemoveElement
<1> QED  BY <1>1, <1>2 DEF Awake

(* notify_one pays for what is needed growing by one.                      *)
LEMMA AwakeNotify ==
  ASSUME NEW S, IsFiniteSet(S), NEW n \in Int, Awake(S, n),
         stopped' = stopped,
         \/ Blocked(S)' = {}
         \/ \E t \in Blocked(S) : /\ Ready(S)' = Ready(S) \cup {t}
                                  /\ Blocked(S)' = Blocked(S) \ {t}
  PROVE  Blocked(S)' # {} => ~stopped' /\ Cardinality(Ready(S)') >= n + 1
<1>1. CASE Blocked(S)' = {}  BY <1>1
<1>2. ASSUME NEW t \in Blocked(S), Ready(S)' = Ready(S) \cup {t}
      PROVE  Blocked(S)' # {} => ~stopped' /\ Cardinality(Ready(S)') >= n + 1
  <2>1. IsFiniteSet(Ready(S)) /\ Cardinality(Ready(S)) \in Nat
    BY ThreadSets DEF Ready
  <2>2. t \notin Ready(S)  BY DEF Ready, Blocked
  <2>3. Cardinality(Ready(S)') = Cardinality(Ready(S)) + 1
    BY <1>2, <2>1, <2>2, FS_AddElement
  <2> QED  BY <2>1, <2>3 DEF Awake
<1> QED  BY <1>1, <1>2

(* What a returning call does to its own side and to the side it notifies. *)
LEMMA ReturnEffect ==
  ASSUME TypeOK, NEW O \in SUBSET Threads, NEW S \in SUBSET Threads,
         O \cap S = {}, NEW t \in O, call[t] # "blocked",
         call' \in WakeOne([call EXCEPT ![t] = "idle"], S)
  PROVE  /\ Blocked(O)' = Blocked(O) /\ Ready(O)' = Ready(O) \ {t}
         /\ \/ Blocked(S)' = {}
            \/ \E u \in Blocked(S) : /\ Ready(S)' = Ready(S) \cup {u}
                                     /\ Blocked(S)' = Blocked(S) \ {u}
<1>1. PICK f : f = [call EXCEPT ![t] = "idle"]  OBVIOUS
<1>2. f \in [Threads -> {"idle", "ready", "blocked"}]
  BY <1>1 DEF TypeOK
<1>3. call' \in WakeOne(f, S)  BY <1>1
<1>4. CASE Blocked(S) = {} /\ call' = f
  BY <1>1, <1>4 DEF TypeOK, Ready, Blocked
<1>5. ASSUME NEW u \in Blocked(S), call' = [f EXCEPT ![u] = "ready"]
      PROVE  /\ Blocked(O)' = Blocked(O) /\ Ready(O)' = Ready(O) \ {t}
             /\ Ready(S)' = Ready(S) \cup {u} /\ Blocked(S)' = Blocked(S) \ {u}
  BY <1>1, <1>2, <1>5 DEF TypeOK, Ready, Blocked
<1> QED  BY <1>3, <1>4, <1>5, WakeOneChoice

(* A thread outside S changes its own state only.                          *)
LEMMA Elsewhere ==
  ASSUME TypeOK, NEW S \in SUBSET Threads, NEW t \in Threads \ S, NEW v,
         call' = [call EXCEPT ![t] = v]
  PROVE  Blocked(S)' = Blocked(S) /\ Ready(S)' = Ready(S)
BY DEF TypeOK, Ready, Blocked

(* A thread of S becomes ready.                                            *)
LEMMA BecomesReady ==
  ASSUME TypeOK, NEW S \in SUBSET Threads, NEW t \in Threads,
         call' = [call EXCEPT ![t] = "ready"]
  PROVE  Blocked(S)' \subseteq Blocked(S) /\ Ready(S) \subseteq Ready(S)'
BY DEF TypeOK, Ready, Blocked

PopperInv == Awake(Consumers, Len(queue))
PusherInv == Awake(Producers, Capacity - Len(queue))
WakeUpInv == PopperInv /\ PusherInv

LEMMA WakeUpStep ==
  ASSUME TypeOK, TypeOK', WakeUpInv, [Next]_queueVars
  PROVE  WakeUpInv'
<1> USE ThreadsAssumption, CapacityAssumption
<1>0. /\ Len(queue) \in Nat /\ Len(queue)' \in Nat
      /\ queue = <<>> <=> Len(queue) = 0
  BY LenProperties, EmptySeq DEF TypeOK
<1>. DEFINE PopperGoal == Blocked(Consumers)' # {} =>
               ~stopped' /\ Cardinality(Ready(Consumers)') >= Len(queue)'
            PusherGoal == Blocked(Producers)' # {} =>
               ~stopped' /\ Cardinality(Ready(Producers)') >= Capacity - Len(queue)'
<1>. SUFFICES PopperGoal /\ PusherGoal
  BY DEF WakeUpInv, PopperInv, PusherInv, Awake
<1>. Consumers \in SUBSET Threads /\ Producers \in SUBSET Threads
  BY DEF Threads
<1>1. ASSUME NEW t \in Threads, call' = [call EXCEPT ![t] = "ready"],
             UNCHANGED <<queue, stopped>>
      PROVE  PopperGoal /\ PusherGoal
  <2>1. \A S \in {Consumers, Producers} :
           Blocked(S)' \subseteq Blocked(S) /\ Ready(S) \subseteq Ready(S)'
    BY <1>1, BecomesReady
  <2> QED  BY <1>0, <1>1, <2>1, AwakeStays DEF WakeUpInv, PopperInv, PusherInv
<1>2. ASSUME NEW p \in Producers, PushAdmit(p)
      PROVE  PopperGoal /\ PusherGoal
  <2>1. Len(queue)' = Len(queue) + 1 /\ stopped' = stopped
    BY <1>2 DEF PushAdmit, TypeOK
  <2>2. p \in Ready(Producers) /\ call[p] # "blocked"
    BY <1>2 DEF PushAdmit, Ready
  <2>3. /\ Blocked(Producers)' = Blocked(Producers)
        /\ Ready(Producers)' = Ready(Producers) \ {p}
        /\ \/ Blocked(Consumers)' = {}
           \/ \E u \in Blocked(Consumers) :
                 /\ Ready(Consumers)' = Ready(Consumers) \cup {u}
                 /\ Blocked(Consumers)' = Blocked(Consumers) \ {u}
    <3>1. call' \in WakeOne([call EXCEPT ![p] = "idle"], Consumers)
      BY <1>2 DEF PushAdmit
    <3>2. Producers \cap Consumers = {}  OBVIOUS
    <3> QED  BY <2>2, <3>1, <3>2, ReturnEffect
  <2>4. PopperGoal
    BY <1>0, <2>1, <2>3, AwakeNotify DEF WakeUpInv, PopperInv
  <2>5. PusherGoal
    <3>1. Capacity - Len(queue)' = Capacity - Len(queue) - 1  BY <1>0, <2>1
    <3>2. Capacity - Len(queue) \in Int  BY <1>0
    <3> QED
      BY <2>1, <2>2, <2>3, <3>1, <3>2, AwakeReturn DEF WakeUpInv, PusherInv
  <2> QED  BY <2>4, <2>5
<1>3. ASSUME NEW c \in Consumers, HasItem, HandOut(c), call[c] # "blocked"
      PROVE  PopperGoal /\ PusherGoal
  <2>1. Len(queue)' = Len(queue) - 1 /\ stopped' = stopped
    BY <1>3, HeadTailProperties DEF HandOut, TypeOK, HasItem
  <2>2. /\ Blocked(Consumers)' = Blocked(Consumers)
        /\ Ready(Consumers)' = Ready(Consumers) \ {c}
        /\ \/ Blocked(Producers)' = {}
           \/ \E u \in Blocked(Producers) :
                 /\ Ready(Producers)' = Ready(Producers) \cup {u}
                 /\ Blocked(Producers)' = Blocked(Producers) \ {u}
    <3>1. call' \in WakeOne([call EXCEPT ![c] = "idle"], Producers)
      BY <1>3 DEF HandOut
    <3>2. Consumers \cap Producers = {}  OBVIOUS
    <3> QED  BY <1>3, <3>1, <3>2, ReturnEffect
  <2>3. ASSUME c \in Ready(Consumers) PROVE PopperGoal
    <3>1. Len(queue) \in Int  BY <1>0
    <3>2. Blocked(Consumers)' \subseteq Blocked(Consumers)  BY <2>2
    <3>3. IsFiniteSet(Consumers) /\ Awake(Consumers, Len(queue))
      BY DEF WakeUpInv, PopperInv
    <3>4. Blocked(Consumers)' # {} =>
            ~stopped' /\ Cardinality(Ready(Consumers)') >= Len(queue) - 1
      BY <2>1, <2>2, <2>3, <3>1, <3>2, <3>3, AwakeReturn
    <3> QED  BY <2>1, <3>4
  <2>4. ASSUME c \notin Ready(Consumers) PROVE PopperGoal
    <3>1. Ready(Consumers) \subseteq Ready(Consumers)'  BY <2>2, <2>4
    <3>2. Len(queue) \in Int /\ Len(queue)' \in Int /\ Len(queue)' <= Len(queue)
      BY <1>0, <2>1
    <3>3. Blocked(Consumers)' \subseteq Blocked(Consumers)  BY <2>2
    <3>4. IsFiniteSet(Consumers) /\ Awake(Consumers, Len(queue))
      BY DEF WakeUpInv, PopperInv
    <3>5. stopped' = stopped  BY <2>1
    <3> QED  BY <3>1, <3>2, <3>3, <3>4, <3>5, AwakeStays
  <2>5. PusherGoal
    <3>1. Capacity - Len(queue)' = Capacity - Len(queue) + 1  BY <1>0, <2>1
    <3>2. Capacity - Len(queue) \in Int  BY <1>0
    <3> QED  BY <2>1, <2>2, <3>1, <3>2, AwakeNotify DEF WakeUpInv, PusherInv
  <2> QED  BY <2>3, <2>4, <2>5
<1>5. ASSUME NEW p \in Producers, PushRefuse(p) \/ PushWait(p)
      PROVE  PopperGoal /\ PusherGoal
  <2>1. UNCHANGED <<queue, stopped>> /\ call[p] = "ready"
        /\ \E v \in {"idle", "blocked"} : call' = [call EXCEPT ![p] = v]
    BY <1>5 DEF PushRefuse, PushWait, Block
  <2>2. Blocked(Consumers)' = Blocked(Consumers) /\ Ready(Consumers)' = Ready(Consumers)
    BY <2>1, Elsewhere DEF Threads
  <2>3. PopperGoal  BY <2>1, <2>2 DEF WakeUpInv, PopperInv, Awake
  <2>4. stopped' = stopped /\ (stopped \/ Len(queue) >= Capacity)
        /\ (stopped => Blocked(Producers)' = Blocked(Producers))
    BY <1>0, <1>5, <2>1 DEF PushRefuse, PushWait, Block, CanPush, HasRoom, TypeOK, Blocked
  <2>5. Cardinality(Ready(Producers)') \in Nat  BY ThreadSets DEF Ready
  <2>6. PusherGoal
    BY <1>0, <2>1, <2>4, <2>5 DEF WakeUpInv, PusherInv, Awake, TypeOK
  <2> QED  BY <2>3, <2>6
<1>6. ASSUME NEW c \in Consumers, PopNothing(c) \/ PopWait(c)
      PROVE  PopperGoal /\ PusherGoal
  <2>1. UNCHANGED <<queue, stopped>> /\ call[c] = "ready"
        /\ \E v \in {"idle", "blocked"} : call' = [call EXCEPT ![c] = v]
    BY <1>6 DEF PopNothing, PopWait, Block
  <2>2. Blocked(Producers)' = Blocked(Producers) /\ Ready(Producers)' = Ready(Producers)
    BY <2>1, Elsewhere DEF Threads
  <2>3. PusherGoal  BY <2>1, <2>2 DEF WakeUpInv, PusherInv, Awake
  <2>4. stopped' = stopped /\ Len(queue)' = 0
        /\ (stopped => Blocked(Consumers)' = Blocked(Consumers))
    BY <1>0, <1>6, <2>1 DEF PopNothing, PopWait, Block, CanPop, HasItem, TypeOK, Blocked
  <2>5. Cardinality(Ready(Consumers)') \in Nat  BY ThreadSets DEF Ready
  <2>6. PopperGoal
    BY <2>4, <2>5 DEF WakeUpInv, PopperInv, Awake, TypeOK
  <2> QED  BY <2>3, <2>6
<1>7. ASSUME UNCHANGED <<queue, stopped, call>> PROVE PopperGoal /\ PusherGoal
  BY <1>7 DEF WakeUpInv, PopperInv, PusherInv, Awake, Ready, Blocked
<1>8. ASSUME NEW c \in Consumers, TryPop(c) PROVE PopperGoal /\ PusherGoal
  BY <1>3, <1>7, <1>8 DEF TryPop, InCall
<1>9. CASE Stop
  BY <1>9 DEF Stop, WakeAll, Blocked, Threads
<1>10. CASE Reset
  BY <1>10 DEF Reset, InCall, Blocked, Threads
<1> HIDE DEF PopperGoal, PusherGoal
<1>11. ASSUME NEW p \in Producers, PushCall(p) \/ Push(p)
       PROVE  PopperGoal /\ PusherGoal
  BY <1>1, <1>2, <1>5, <1>11 DEF PushCall, Push, Enter, Threads
<1>12. ASSUME NEW c \in Consumers, PopCall(c) \/ Pop(c)
       PROVE  PopperGoal /\ PusherGoal
  <2>1. CASE PopItem(c)  BY <1>3, <2>1 DEF PopItem
  <2> QED  BY <1>1, <1>6, <1>12, <2>1 DEF PopCall, Pop, Enter, Threads
<1>13. ASSUME NEW t \in Threads, Deadline(t) \/ SpuriousWake(t)
       PROVE  PopperGoal /\ PusherGoal
  BY <1>1, <1>13 DEF Deadline, SpuriousWake
<1> QED
  BY <1>7, <1>8, <1>9, <1>10, <1>11, <1>12, <1>13 DEF Next, queueVars

(* No wake-up is lost, whatever the numbers of pushers and poppers: the    *)
(* two invariants of the run, for every instance.                          *)
THEOREM NoLostWakeUp == Spec => []NobodyLeftAsleep
<1>1. Init => WakeUpInv
  BY DEF Init, WakeUpInv, PopperInv, PusherInv, Awake, Blocked, Threads
<1>2. TypeOK /\ TypeOK' /\ WakeUpInv /\ [Next]_queueVars => WakeUpInv'
  BY WakeUpStep
<1>3. TypeOK /\ WakeUpInv => NobodyLeftAsleep
  <2> SUFFICES ASSUME TypeOK, WakeUpInv
               PROVE  NoPopperLeftAsleep /\ NoPusherLeftAsleep
    BY DEF NobodyLeftAsleep
  <2>1. Len(queue) \in Nat  BY LenProperties DEF TypeOK
  <2>2. Cardinality(Ready(Producers)) \in Nat
    BY ThreadSets, ThreadsAssumption DEF Ready
  <2> QED
    BY <2>1, <2>2, CapacityAssumption
    DEF WakeUpInv, PopperInv, PusherInv, Awake, NoPopperLeftAsleep, NoPusherLeftAsleep
<1> QED  BY <1>1, <1>2, <1>3, TypeCorrect, PTL DEF Spec

-----------------------------------------------------------------------------
(* Appending to the back half of a log appends to the log, and moving the  *)
(* first item of the back half to the front half leaves the log as it was. *)
LEMMA AppendToLog ==
  ASSUME NEW S, NEW s \in Seq(S), NEW q \in Seq(S), NEW x \in S
  PROVE  s \o Append(q, x) = Append(s \o q, x)
OBVIOUS

LEMMA MoveHead ==
  ASSUME NEW S, NEW s \in Seq(S), NEW q \in Seq(S), q # <<>>
  PROVE  /\ Append(s, Head(q)) \o Tail(q) = s \o q
         /\ (s \o q)[Len(s) + 1] = Head(q)
<1>1. /\ Head(q) \in S /\ Tail(q) \in Seq(S)
      /\ Len(Tail(q)) = Len(q) - 1 /\ Len(q) \in Nat \ {0}
  BY HeadTailProperties, EmptySeq
<1>2. Append(s, Head(q)) \o Tail(q) \in Seq(S) /\ s \o q \in Seq(S)
  BY <1>1
<1>3. Len(Append(s, Head(q)) \o Tail(q)) = Len(s \o q)
  BY <1>1
<1>4. ASSUME NEW i \in 1 .. Len(s \o q)
      PROVE  (Append(s, Head(q)) \o Tail(q))[i] = (s \o q)[i]
  BY <1>1
<1>5. Append(s, Head(q)) \o Tail(q) = s \o q
  BY <1>2, <1>3, <1>4, SeqEqual
<1> QED  BY <1>1, <1>5

(* The facts about the mapped state that the steps below use.              *)
LEMMA MappedState ==
  ASSUME TypeOK
  PROVE  /\ Channel!Backlog = Len(queue)
         /\ Len(queue) \in Nat /\ (queue = <<>> <=> Len(queue) = 0)
<1>1. Len(queue) \in Nat /\ Len(delivered) \in Nat
      /\ Len(delivered \o queue) = Len(delivered) + Len(queue)
      /\ (queue = <<>> <=> Len(queue) = 0)
  BY LenProperties, EmptySeq, ConcatProperties DEF TypeOK
<1> QED  BY <1>1 DEF Channel!Backlog

LEMMA HandOutDelivers ==
  ASSUME TypeOK, NEW c \in Consumers, HasItem, HandOut(c)
  PROVE  Channel!Deliver(c)
<1>1. /\ Append(delivered, Head(queue)) \o Tail(queue) = delivered \o queue
      /\ (delivered \o queue)[Len(delivered) + 1] = Head(queue)
  BY MoveHead DEF TypeOK, HasItem
<1>2. Channel!Backlog > 0  BY MappedState DEF HasItem
<1>3. Len(delivered') = Len(delivered) + 1  BY DEF HandOut, TypeOK
<1> QED  BY <1>1, <1>2, <1>3 DEF HandOut, Return, Channel!Deliver

LEMMA RefinementStep ==
  ASSUME TypeOK, [Next]_queueVars
  PROVE  [Channel!Next]_(Channel!channelVars)
<1> USE DEF Channel!Clients, Threads
<1>1. ASSUME NEW t \in Threads, Enter(t) PROVE Channel!Invoke(t)
  BY <1>1 DEF Enter, Channel!Invoke
<1>2. ASSUME UNCHANGED <<queue, delivered, stopped, reply>>
      PROVE  UNCHANGED Channel!channelVars
  BY <1>2 DEF Channel!channelVars
<1>3. ASSUME NEW p \in Producers, PushAdmit(p)
      PROVE  \E x \in Items : Channel!Accept(p, x)
  <2>1. PICK x \in Items : queue' = Append(queue, x)  BY <1>3 DEF PushAdmit
  <2>2. (delivered \o queue)' = Append(delivered \o queue, x)
    BY <1>3, <2>1, AppendToLog DEF PushAdmit, TypeOK
  <2>3. Channel!Backlog < Capacity  BY <1>3, MappedState DEF PushAdmit, HasRoom
  <2> QED
    BY <1>3, <2>2, <2>3 DEF PushAdmit, Return, Channel!Accept
<1>4. ASSUME NEW p \in Producers, PushRefuse(p) PROVE Channel!Refuse(p)
  BY <1>4, MappedState, CapacityAssumption
  DEF PushRefuse, Return, CanPush, HasRoom, Channel!Refuse
<1>5. ASSUME NEW c \in Consumers, PopNothing(c) PROVE Channel!Nothing(c)
  BY <1>5, MappedState DEF PopNothing, Return, HasItem, Channel!Nothing
<1>6. ASSUME NEW c \in Consumers, TryPop(c)
      PROVE  Channel!Deliver(c) \/ Channel!Nothing(c)
  BY <1>6, MappedState, HandOutDelivers
  DEF TryPop, Return, HasItem, Channel!Nothing
<1>7. CASE Stop
  BY <1>7 DEF Stop, Channel!Close, Channel!Next
<1>8. CASE Reset
  <2>1. (delivered \o queue)' = <<>> /\ Len(delivered') = 0
    BY <1>8, ConcatEmptySeq, EmptySeq DEF Reset
  <2> QED  BY <1>8, <2>1 DEF Reset, Channel!Clear, Channel!Next
<1>9. ASSUME NEW p \in Producers, PushCall(p) \/ Push(p)
      PROVE  [Channel!Next]_(Channel!channelVars)
  BY <1>1, <1>2, <1>3, <1>4, <1>9
  DEF PushCall, Push, PushWait, Block, Channel!Next
<1>10. ASSUME NEW c \in Consumers, PopCall(c) \/ Pop(c) \/ TryPop(c)
       PROVE  [Channel!Next]_(Channel!channelVars)
  BY <1>1, <1>2, <1>5, <1>6, <1>10, HandOutDelivers
  DEF PopCall, Pop, PopItem, PopWait, Block, Channel!Next
<1>11. ASSUME NEW t \in Threads, Deadline(t) \/ SpuriousWake(t)
       PROVE  UNCHANGED Channel!channelVars
  BY <1>2, <1>11 DEF Deadline, SpuriousWake
<1>12. CASE UNCHANGED queueVars  BY <1>2, <1>12 DEF queueVars
<1> QED  BY <1>7, <1>8, <1>9, <1>10, <1>11, <1>12 DEF Next

(* BoundedQueue implements the channel the pipeline relies on: in order,   *)
(* once each, within capacity, refusing and answering "nothing" only when  *)
(* full or stopped and when empty.                                         *)
THEOREM QueueImplementsChannel == Spec => ImplementsChannel
<1>1. Init => Channel!Init
  <2>1. Init => (delivered \o queue = <<>> /\ Len(delivered) = 0)
    BY ConcatEmptySeq, EmptySeq DEF Init
  <2> QED
    BY <2>1 DEF Init, Channel!Init, Channel!NoReply, Channel!Clients, Threads
<1>2. TypeOK /\ [Next]_queueVars => [Channel!Next]_(Channel!channelVars)
  BY RefinementStep
<1> QED
  BY <1>1, <1>2, TypeCorrect, PTL DEF Spec, ImplementsChannel, Channel!Spec
=============================================================================
