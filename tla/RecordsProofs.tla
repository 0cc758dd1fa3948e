---------------------------- MODULE RecordsProofs ----------------------------
(***************************************************************************)
(* Proofs about Records, for every number of frames, runs, seconds and     *)
(* images, every prune interval and every interleaving of the inference    *)
(* thread with the dashboard.                                              *)
(***************************************************************************)
EXTENDS Records, DefectDatabaseProofs, SequenceTheorems

LEMMA Limits ==
  /\ MaxRecords \in Nat \ {0} /\ MaxDetections \in Nat /\ MaxInserts \in Nat
  /\ MaxImages \in Nat /\ PruneInterval \in Nat \ {0}
  /\ MaxRuns \in Nat /\ MaxSeconds \in Nat
BY BoundsAssumption, RecordsAssumption

-----------------------------------------------------------------------------
(* The thread calls the operations of the database as DefectDatabase says  *)
(* they are called: a step of Records is a step of DefectDatabase or       *)
(* leaves the database alone.                                              *)
FoundInv == found \in 0 .. MaxDetections

LEMMA FoundInductive == RecordsSpec => []FoundInv
<1>1. RecordsInit => FoundInv
  BY Limits DEF RecordsInit, FoundInv
<1>2. FoundInv /\ [RecordsNext]_recordVars => FoundInv'
  <2> SUFFICES ASSUME FoundInv, [RecordsNext]_recordVars PROVE FoundInv'
    OBVIOUS
  <2>0. found' \in 0 .. MaxDetections => FoundInv'
    BY DEF FoundInv
  <2>1. 0 \in 0 .. MaxDetections /\ found \in 0 .. MaxDetections
    BY Limits DEF FoundInv
  <2>2. ASSUME NEW k \in 0 .. MaxDetections, NEW now, SaveImage(k, now)
        PROVE  FoundInv'
    BY <2>0, <2>2 DEF SaveImage
  <2>3. CASE EndProcess \/ FrameDone
    BY <2>0, <2>1, <2>3 DEF EndProcess, FrameDone
  <2>4. CASE \/ StartProcess \/ StoreResult \/ Insert \/ PruneRows \/ DeleteRows
             \/ ListImages \/ RemoveImage
    BY <2>0, <2>1, <2>4 DEF StartProcess, StoreResult, Insert, PruneRows, DeleteRows,
       ListImages, RemoveImage, frameVars
  <2>5. CASE Dashboard \/ UNCHANGED recordVars
    BY <2>0, <2>1, <2>5 DEF Dashboard, AskImage, SendImage, AskStats, CountRejects,
       CountPassed, Answered, frameVars, recordVars
  <2> QED  BY <2>2, <2>3, <2>4, <2>5 DEF RecordsNext, Pipeline
<1> QED  BY <1>1, <1>2, PTL DEF RecordsSpec

LEMMA StepsOfTheDatabase ==
  ASSUME FoundInv, [RecordsNext]_recordVars
  PROVE  [Next]_vars
<1>1. ASSUME NEW k, NEW now, SaveImage(k, now) PROVE UNCHANGED vars
  BY <1>1 DEF SaveImage, dbVars
<1>2. CASE StartProcess \/ EndProcess
  BY <1>2 DEF StartProcess, EndProcess, Next
<1>3. CASE StoreResult
  BY <1>3 DEF StoreResult, FoundInv, Next
<1>4. CASE Insert
  BY <1>4 DEF Insert, Next
<1>5. CASE PruneRows \/ DeleteRows
  BY <1>5 DEF PruneRows, DeleteRows, dbVars, Next
<1>6. CASE FrameDone \/ ListImages \/ RemoveImage
  BY <1>6 DEF FrameDone, ListImages, RemoveImage, dbVars
<1>7. CASE Dashboard \/ UNCHANGED recordVars
  BY <1>7 DEF Dashboard, AskImage, SendImage, AskStats, CountRejects, CountPassed,
     Answered, recordVars, dbVars
<1> QED  BY <1>1, <1>2, <1>3, <1>4, <1>5, <1>6, <1>7 DEF RecordsNext, Pipeline

(* Whatever frames come, wherever the process ends and whatever the        *)
(* dashboard asks meanwhile, handle_result and prune_if_needed use the     *)
(* database in one of the ways DefectDatabase allows: what is proved of    *)
(* its tables holds here.                                                  *)
THEOREM RecordsUsesDatabase == RecordsSpec => Spec
<1>1. RecordsInit => Init
  BY DEF RecordsInit
<1>2. FoundInv /\ [RecordsNext]_recordVars => [Next]_vars
  BY StepsOfTheDatabase
<1> QED  BY <1>1, <1>2, FoundInductive, PTL DEF RecordsSpec, Spec

(* So what DefectDatabaseProofs shows of the tables holds however the      *)
(* frames, the prunings and the ends of the process follow each other: the *)
(* committed tables agree, what was acknowledged is there until it is      *)
(* pruned, and the oldest are pruned first.                                *)
THEOREM RecordsKeepTheTables ==
  RecordsSpec => [](TablesAgree /\ AckedIsDurable /\ PruneRemovesOldest)
BY RecordsUsesDatabase, CommittedTablesAgree, Durability, PruneOrder, PTL

LEMMA DatabaseInside == RecordsSpec => [](FoundInv /\ TypeOK /\ ViewInv)
BY FoundInductive, RecordsUsesDatabase, TypeAndView, PTL

-----------------------------------------------------------------------------
(* Sequences of files.                                                     *)
LEMMA RemoveAtProperties ==
  ASSUME NEW S, NEW s \in Seq(S), NEW k \in 1 .. Len(s)
  PROVE  /\ RemoveAt(s, k) \in Seq(S) /\ Len(RemoveAt(s, k)) = Len(s) - 1
         /\ \A j \in 1 .. Len(s) - 1 :
              RemoveAt(s, k)[j] = s[IF j < k THEN j ELSE j + 1]
<1> DEFINE front == SubSeq(s, 1, k - 1)
           back == SubSeq(s, k + 1, Len(s))
<1>1. Len(s) \in Nat /\ \A j \in 1 .. Len(s) : s[j] \in S
  BY LenProperties, ElementOfSeq
<1>2. /\ front \in Seq(S) /\ Len(front) = k - 1
      /\ \A j \in 1 .. k - 1 : front[j] = s[j]
  <2>1. \A j \in 1 .. k - 1 : s[j] \in S
    BY <1>1
  <2>2. 1 \in Int /\ k - 1 \in Int /\ (IF 1 <= k - 1 THEN k - 1 - 1 + 1 ELSE 0) = k - 1
        /\ k - 1 - 1 + 1 = k - 1 /\ \A j \in 1 .. k - 1 : 1 + j - 1 = j
    BY <1>1
  <2> HIDE DEF front
  <2>3. /\ front \in Seq(S) /\ Len(front) = (IF 1 <= k - 1 THEN k - 1 - 1 + 1 ELSE 0)
        /\ \A j \in 1 .. k - 1 - 1 + 1 : front[j] = s[1 + j - 1]
    BY <2>1, <2>2, SubSeqProperties DEF front
  <2> QED  BY <2>2, <2>3
<1>3. /\ back \in Seq(S) /\ Len(back) = Len(s) - k
      /\ \A j \in 1 .. Len(s) - k : back[j] = s[k + j]
  <2> DEFINE m == k + 1
             n == Len(s)
  <2>1. /\ m \in Int /\ n \in Int /\ \A j \in m .. n : s[j] \in S
        /\ (IF m <= n THEN n - m + 1 ELSE 0) = Len(s) - k
        /\ n - m + 1 = Len(s) - k /\ \A j \in 1 .. Len(s) - k : m + j - 1 = k + j
    BY <1>1
  <2>2. back = SubSeq(s, m, n)
    BY DEF back
  <2> HIDE DEF back, m, n
  <2>3. /\ SubSeq(s, m, n) \in Seq(S)
        /\ Len(SubSeq(s, m, n)) = (IF m <= n THEN n - m + 1 ELSE 0)
        /\ \A j \in 1 .. n - m + 1 : SubSeq(s, m, n)[j] = s[m + j - 1]
    BY <2>1, SubSeqProperties
  <2> QED  BY <2>1, <2>2, <2>3
<1> HIDE DEF front, back
<1>4. RemoveAt(s, k) = front \o back
  BY DEF RemoveAt, front, back
<1>5. /\ front \o back \in Seq(S) /\ Len(front \o back) = Len(front) + Len(back)
      /\ \A j \in 1 .. Len(front) + Len(back) : (front \o back)[j] =
           IF j <= Len(front) THEN front[j] ELSE back[j - Len(front)]
  BY <1>2, <1>3, ConcatProperties
<1>6. /\ Len(front) + Len(back) = Len(s) - 1
      /\ \A j \in 1 .. Len(s) - 1 : j < k => j <= Len(front) /\ j \in 1 .. k - 1
      /\ \A j \in 1 .. Len(s) - 1 : ~(j < k) =>
           ~(j <= Len(front)) /\ j - Len(front) \in 1 .. Len(s) - k
           /\ k + (j - Len(front)) = j + 1
  BY <1>1, <1>2, <1>3
<1>7. ASSUME NEW j \in 1 .. Len(s) - 1
      PROVE  RemoveAt(s, k)[j] = s[IF j < k THEN j ELSE j + 1]
  <2>1. (front \o back)[j] = IF j <= Len(front) THEN front[j] ELSE back[j - Len(front)]
    BY <1>5, <1>6
  <2>2. CASE j < k
    <3>1. j <= Len(front) /\ front[j] = s[j]
      BY <1>2, <1>6, <2>2
    <3> QED  BY <1>4, <2>1, <2>2, <3>1
  <2>3. CASE ~(j < k)
    <3>1. /\ ~(j <= Len(front)) /\ j - Len(front) \in 1 .. Len(s) - k
          /\ k + (j - Len(front)) = j + 1
      BY <1>6, <2>3
    <3>2. back[j - Len(front)] = s[j + 1]
      BY <1>3, <3>1
    <3> QED  BY <1>4, <2>1, <2>3, <3>1, <3>2
  <2> QED  BY <2>2, <2>3
<1>8. RemoveAt(s, k) \in Seq(S) /\ Len(RemoveAt(s, k)) = Len(s) - 1
  BY <1>4, <1>5, <1>6
<1> QED  BY <1>7, <1>8

(* Either no file has the name, or one that has is taken out.              *)
TakenOut(n, s) ==
  \E k \in 1 .. Len(images) :
    /\ images[k].name = n
    /\ Len(s) = Len(images) - 1
    /\ \A j \in 1 .. Len(images) - 1 : s[j] = images[IF j < k THEN j ELSE j + 1]

LEMMA WithoutProperties ==
  ASSUME images \in Seq(FileTypes), NEW n
  PROVE  /\ Without(n) \in Seq(FileTypes)
         /\ \/ Without(n) = images /\ \A k \in 1 .. Len(images) : images[k].name # n
            \/ TakenOut(n, Without(n))
<1>1. DOMAIN images = 1 .. Len(images)
  BY LenProperties
<1>2. CASE \E k \in DOMAIN images : images[k].name = n
  <2> DEFINE k == CHOOSE i \in DOMAIN images : images[i].name = n
  <2>1. k \in 1 .. Len(images) /\ images[k].name = n /\ Without(n) = RemoveAt(images, k)
    BY <1>1, <1>2 DEF Without
  <2> HIDE DEF k
  <2> QED  BY <2>1, RemoveAtProperties DEF TakenOut
<1>3. CASE ~ \E k \in DOMAIN images : images[k].name = n
  BY <1>1, <1>3 DEF Without
<1> QED  BY <1>2, <1>3

-----------------------------------------------------------------------------
(* The type invariant, in four parts.  A frame id is at most the number of *)
(* calls of insert_result, but for the frame whose call is yet to come.    *)
ThreadOK ==
  /\ step \in Steps /\ (step = "down" <=> at = "closed")
  /\ at \in Writing => step = "insert"
  /\ at \in {"delete detections", "delete inspections"} <=> step = "delete rows"
  /\ sincePrune \in 0 .. PruneInterval - 1
  /\ second \in 0 .. MaxSeconds /\ run \in 0 .. MaxRuns
  /\ frame \in Nat
  /\ step # "record" => frame <= calls
  /\ step = "record" => frame <= calls + 1 /\ calls < MaxInserts
  /\ name \in Names \cup {NoImage}
  /\ name # NoImage => step \in {"record", "insert"}

RowsOK ==
  /\ path \in [Inspections -> Names \cup {NoImage}]
  /\ picture \in [Inspections -> FrameNumbers]

FilesOK ==
  /\ images \in Seq(FileTypes) /\ doomed \in Seq(FileTypes)
  /\ step = "remove images" <=> doomed # <<>>
  /\ removed \in FrameNumbers /\ stubborn \subseteq FrameNumbers

RequestOK == request \in RequestTypes

Parts == FoundInv /\ TypeOK /\ ViewInv /\ ThreadOK /\ RowsOK /\ FilesOK /\ RequestOK

LEMMA FrameInHand ==
  ASSUME TypeOK, ThreadOK
  PROVE  /\ calls \in Nat /\ calls <= MaxInserts /\ frame \in Nat
         /\ frame \in 0 .. MaxInserts /\ <<run, frame>> \in FrameNumbers
<1>1. calls \in 0 .. MaxInserts
  BY Zenon DEF TypeOK
<1>2. /\ run \in 0 .. MaxRuns /\ frame \in Nat /\ (step # "record" => frame <= calls)
      /\ (step = "record" => frame <= calls + 1 /\ calls < MaxInserts)
  BY Zenon DEF ThreadOK
<1>3. calls \in Nat /\ calls <= MaxInserts /\ frame \in 0 .. MaxInserts
  BY <1>1, <1>2, Limits
<1> QED  BY <1>2, <1>3 DEF FrameNumbers

LEMMA PartsAreTyped == Parts => RecordsTypeOK
<1> SUFFICES ASSUME Parts PROVE RecordsTypeOK
  OBVIOUS
<1>1. /\ TypeOK /\ ThreadOK /\ RowsOK /\ FilesOK /\ RequestOK /\ FoundInv
      /\ <<run, frame>> \in FrameNumbers
  BY FrameInHand, Zenon DEF Parts
<1>2. /\ step = "down" <=> at = "closed"
      /\ at \in {"delete detections", "delete inspections"} <=> step = "delete rows"
      /\ step = "remove images" <=> doomed # <<>>
  BY <1>1, Zenon DEF ThreadOK, FilesOK
<1>3. /\ step \in Steps /\ sincePrune \in 0 .. PruneInterval - 1
      /\ second \in 0 .. MaxSeconds /\ name \in Names \cup {NoImage}
      /\ at \in {"insert inspection", "insert detection", "commit"} => step = "insert"
  BY <1>1, Zenon DEF ThreadOK, Writing
<1>4. /\ images \in Seq(FileTypes) /\ doomed \in Seq(FileTypes)
      /\ removed \in FrameNumbers /\ stubborn \subseteq FrameNumbers
  BY <1>1, Zenon DEF FilesOK
<1> QED  BY <1>1, <1>2, <1>3, <1>4, Zenon
         DEF RecordsTypeOK, RowsOK, RequestOK, FoundInv

(* What the statements do to `at` and to the number of calls.              *)
LEMMA DatabaseMoves ==
  /\ Open => at' = "idle" /\ calls' = calls
  /\ Crash \/ Close => at' = "closed" /\ calls' = calls
  /\ \A k : BeginInsert(k) =>
       at' \in {"idle", "insert inspection"} /\ calls' = calls + 1
  /\ InsertInspection \/ InsertDetection \/ InsertFails \/ Commit =>
       at' \in {"idle", "insert detection", "commit"} /\ calls' = calls
  /\ PruneCount => at' = "delete detections" /\ calls' = calls
  /\ DeleteDetections => at' = "delete inspections" /\ calls' = calls
  /\ DeleteInspections => at' = "idle" /\ calls' = calls
BY DEF Open, Crash, Close, BeginInsert, InsertInspection, InsertDetection, InsertFails,
   Commit, PruneCount, DeleteDetections, DeleteInspections, opVars

LEMMA ThreadStep ==
  ASSUME Parts, TypeOK', [RecordsNext]_recordVars
  PROVE  ThreadOK'
<1> USE DEF Writing
<1>0. TypeOK /\ ThreadOK /\ FilesOK
  BY Zenon DEF Parts
<1>1. ThreadOK /\ calls \in Nat /\ frame \in Nat /\ FilesOK
  BY <1>0, FrameInHand
<1>2. CASE StartProcess
  <2>1. run + 1 \in 0 .. MaxRuns /\ second + 1 \in 0 .. MaxSeconds
    BY <1>1, <1>2, Limits DEF StartProcess, ThreadOK
  <2> QED  BY <1>1, <1>2, <2>1, DatabaseMoves DEF StartProcess, ThreadOK, Steps
<1>3. CASE EndProcess
  <2>1. 0 \in 0 .. PruneInterval - 1 /\ 0 <= calls
    BY <1>1, Limits
  <2> QED  BY <1>1, <1>3, <2>1, DatabaseMoves DEF EndProcess, ThreadOK, Steps, timeVars
<1>4. ASSUME NEW k, NEW now \in 0 .. MaxSeconds, SaveImage(k, now) PROVE ThreadOK'
  <2>1. frame + 1 \in 0 .. MaxInserts /\ frame + 1 <= calls + 1 /\ frame + 1 \in Nat
    <3>1. /\ step = "frame" /\ calls < MaxInserts /\ (step # "record" => frame <= calls)
      BY <1>1, <1>4, Zenon DEF SaveImage, ThreadOK
    <3> QED  BY <1>1, <3>1, Limits
  <2>2. <<now, frame + 1>> \in Names
    BY <2>1 DEF Names
  <2> QED  BY <1>1, <1>4, <2>1, <2>2 DEF SaveImage, ImageName, ThreadOK, Steps, dbVars, vars,
           opVars
<1>5. CASE StoreResult
  BY <1>1, <1>5, DatabaseMoves DEF StoreResult, ThreadOK, Steps, timeVars
<1>6. CASE Insert
  <2>1. at' \in {"idle", "insert detection", "commit"} /\ calls' = calls /\ at \in Writing
    BY <1>6, DatabaseMoves DEF Insert, InsertInspection, InsertDetection, InsertFails,
       Commit
  <2> QED  BY <1>1, <1>6, <2>1 DEF Insert, ThreadOK, timeVars, frameVars
<1>7. CASE FrameDone
  <2>1. 0 \in 0 .. PruneInterval - 1
        /\ (~(sincePrune + 1 >= PruneInterval) => sincePrune + 1 \in 0 .. PruneInterval - 1)
    <3>1. sincePrune \in 0 .. PruneInterval - 1
      BY <1>1, Zenon DEF ThreadOK
    <3> QED  BY <3>1, Limits
  <2> QED  BY <1>1, <1>7, <2>1 DEF FrameDone, ThreadOK, Steps, timeVars, dbVars, vars, opVars
<1>8. CASE PruneRows
  BY <1>1, <1>8, DatabaseMoves DEF PruneRows, ThreadOK, Steps, timeVars, dbVars, vars, opVars
<1>9. CASE DeleteRows
  BY <1>1, <1>9, DatabaseMoves DEF DeleteRows, ThreadOK, Steps, timeVars
<1>10. CASE ListImages \/ RemoveImage
  BY <1>1, <1>10 DEF ListImages, RemoveImage, ThreadOK, Steps, timeVars, dbVars, vars, opVars
<1>11. CASE Dashboard \/ UNCHANGED recordVars
  BY <1>1, <1>11 DEF Dashboard, AskImage, SendImage, AskStats, CountRejects, CountPassed,
     Answered, recordVars, dbVars, vars, opVars, frameVars, timeVars, ThreadOK
<1> QED  BY <1>2, <1>3, <1>4, <1>5, <1>6, <1>7, <1>8, <1>9, <1>10, <1>11
         DEF RecordsNext, Pipeline

LEMMA RowsStep ==
  ASSUME Parts, [RecordsNext]_recordVars
  PROVE  RowsOK'
<1>1. RowsOK /\ name \in Names \cup {NoImage} /\ <<run, frame>> \in FrameNumbers
  <2>1. TypeOK /\ ThreadOK /\ RowsOK
    BY Zenon DEF Parts
  <2> QED  BY <2>1, FrameInHand DEF ThreadOK
<1>2. CASE Insert
  BY <1>1, <1>2 DEF Insert, RowsOK, rowVars
<1>3. CASE UNCHANGED rowVars
  BY <1>1, <1>3 DEF RowsOK, rowVars
<1>4. ASSUME NEW k, NEW now, SaveImage(k, now) PROVE UNCHANGED rowVars
  BY <1>4 DEF SaveImage
<1>5. CASE \/ StartProcess \/ EndProcess \/ StoreResult \/ FrameDone
           \/ PruneRows \/ DeleteRows \/ ListImages \/ RemoveImage
  BY <1>3, <1>5 DEF StartProcess, EndProcess, StoreResult, FrameDone, PruneRows,
     DeleteRows, ListImages, RemoveImage
<1>6. CASE Dashboard \/ UNCHANGED recordVars
  BY <1>3, <1>6 DEF Dashboard, AskImage, SendImage, AskStats, CountRejects, CountPassed,
     Answered, recordVars
<1> QED  BY <1>2, <1>3, <1>4, <1>5, <1>6 DEF RecordsNext, Pipeline

(* What the steps do to the files.                                         *)
LEMMA FilesMove ==
  ASSUME Parts, [RecordsNext]_recordVars
  PROVE  \/ UNCHANGED fileVars
         \/ EndProcess
         \/ \E k \in 0 .. MaxDetections, now \in 0 .. MaxSeconds : SaveImage(k, now)
         \/ ListImages
         \/ RemoveImage
BY DEF RecordsNext, Pipeline, StartProcess, StoreResult, Insert, FrameDone, PruneRows,
   DeleteRows, Dashboard, AskImage, SendImage, AskStats, CountRejects, CountPassed,
   Answered, recordVars

LEMMA OldestFilesProperties ==
  ASSUME images \in Seq(FileTypes), NEW n \in 0 .. Len(images)
  PROVE  /\ OldestFiles(n) \in Seq(FileTypes) /\ Len(OldestFiles(n)) = n
         /\ \A k \in 1 .. n : OldestFiles(n)[k] = images[k]
<1>1. Len(images) \in Nat /\ \A k \in 1 .. Len(images) : images[k] \in FileTypes
  BY LenProperties, ElementOfSeq
<1>2. /\ n \in Int /\ 1 \in Int /\ \A k \in 1 .. n : images[k] \in FileTypes
      /\ (IF 1 <= n THEN n - 1 + 1 ELSE 0) = n /\ n - 1 + 1 = n
      /\ \A k \in 1 .. n : 1 + k - 1 = k
  BY <1>1
<1>3. /\ SubSeq(images, 1, n) \in Seq(FileTypes)
      /\ Len(SubSeq(images, 1, n)) = (IF 1 <= n THEN n - 1 + 1 ELSE 0)
      /\ \A k \in 1 .. n - 1 + 1 : SubSeq(images, 1, n)[k] = images[1 + k - 1]
  BY <1>2, SubSeqProperties
<1> QED  BY <1>2, <1>3 DEF OldestFiles

LEMMA Surplus ==
  ASSUME NEW n \in Nat, n > MaxImages
  PROVE  n - MaxImages \in 0 .. n /\ n - MaxImages # 0
BY Limits

(* The file that an image is written to.                                   *)
LEMMA FileWritten ==
  ASSUME Parts, NEW k \in 0 .. MaxDetections, NEW now \in 0 .. MaxSeconds, SaveImage(k, now)
  PROVE  /\ frame' = frame + 1 /\ step = "frame" /\ run' = run
         /\ <<now, frame + 1>> \in Names /\ <<run, frame + 1>> \in FrameNumbers
         /\ \/ images' = images
            \/ /\ k > 0
               /\ images' = Written([name |-> <<now, frame + 1>>, shows |-> <<run, frame + 1>>])
<1>1. /\ step = "frame" /\ calls < MaxInserts /\ frame' = frame + 1 /\ run' = run
  BY DEF SaveImage
<1>2. TypeOK /\ ThreadOK
  BY Zenon DEF Parts
<1>3. run \in 0 .. MaxRuns /\ (step # "record" => frame <= calls)
  BY <1>2, Zenon DEF ThreadOK
<1>4. frame + 1 \in 0 .. MaxInserts
  BY <1>1, <1>2, <1>3, FrameInHand, Limits
<1>5. CASE k > 0
  BY <1>1, <1>3, <1>4, <1>5 DEF SaveImage, ImageName, Names, FrameNumbers
<1>6. CASE ~(k > 0)
  BY <1>1, <1>3, <1>4, <1>6 DEF SaveImage, Names, FrameNumbers
<1> QED  BY <1>5, <1>6

LEMMA FilesStep ==
  ASSUME Parts, [RecordsNext]_recordVars, step' = "remove images" <=> doomed' # <<>>
  PROVE  FilesOK'
<1>1. FilesOK
  BY Zenon DEF Parts
<1>2. CASE UNCHANGED fileVars
  BY <1>1, <1>2 DEF FilesOK, fileVars
<1>3. CASE EndProcess
  BY <1>1, <1>3, EmptySeq DEF EndProcess, FilesOK
<1>4. ASSUME NEW k \in 0 .. MaxDetections, NEW now \in 0 .. MaxSeconds, SaveImage(k, now)
      PROVE  FilesOK'
  <2> DEFINE file == [name |-> <<now, frame + 1>>, shows |-> <<run, frame + 1>>]
  <2>1. file \in FileTypes
    BY <1>4, FileWritten DEF FileTypes
  <2>2. images' = images \/ images' = Append(Without(file.name), file)
    BY <1>4, FileWritten DEF Written
  <2> HIDE DEF file
  <2>3. images' \in Seq(FileTypes)
    <3>1. images \in Seq(FileTypes) /\ Without(file.name) \in Seq(FileTypes)
      BY <1>1, WithoutProperties DEF FilesOK
    <3>2. Append(Without(file.name), file) \in Seq(FileTypes)
      BY <2>1, <3>1, AppendProperties
    <3> QED  BY <2>2, <3>1, <3>2
  <2> QED  BY <1>1, <1>4, <2>3 DEF SaveImage, FilesOK
<1>5. CASE ListImages
  <2>1. CASE UNCHANGED doomed
    BY <1>1, <1>5, <2>1 DEF ListImages, FilesOK
  <2>2. CASE Len(images) > MaxImages /\ doomed' = OldestFiles(Len(images) - MaxImages)
    <3>1. Len(images) - MaxImages \in 0 .. Len(images)
      <4>1. Len(images) \in Nat
        BY <1>1, LenProperties DEF FilesOK
      <4> QED  BY <2>2, <4>1, Surplus
    <3>2. doomed' \in Seq(FileTypes)
      BY <1>1, <2>2, <3>1, OldestFilesProperties DEF FilesOK
    <3> QED  BY <1>1, <1>5, <3>2 DEF ListImages, FilesOK
  <2> QED  BY <1>5, <2>1, <2>2 DEF ListImages
<1>6. CASE RemoveImage
  <2>1. doomed # <<>>
    BY <1>1, <1>6 DEF RemoveImage, FilesOK
  <2>2. Head(doomed) \in FileTypes /\ Tail(doomed) \in Seq(FileTypes)
    BY <1>1, <2>1, HeadTailProperties DEF FilesOK
  <2>3. Head(doomed).shows \in FrameNumbers
    BY <2>2 DEF FileTypes
  <2>4. Without(Head(doomed).name) \in Seq(FileTypes)
    BY <1>1, WithoutProperties DEF FilesOK
  <2> QED  BY <1>1, <1>6, <2>2, <2>3, <2>4 DEF RemoveImage, FilesOK
<1> QED  BY <1>2, <1>3, <1>4, <1>5, <1>6, FilesMove

(* There are files to be removed in the loop that removes them only.       *)
LEMMA LoopStep ==
  ASSUME Parts, [RecordsNext]_recordVars
  PROVE  step' = "remove images" <=> doomed' # <<>>
<1>1. /\ step = "remove images" <=> doomed # <<>>
      /\ images \in Seq(FileTypes) /\ doomed \in Seq(FileTypes)
  BY Zenon DEF Parts, FilesOK
<1>2. ASSUME NEW k, NEW now, SaveImage(k, now)
      PROVE  step' = "remove images" <=> doomed' # <<>>
  BY <1>1, <1>2 DEF SaveImage
<1>3. CASE \/ StartProcess \/ EndProcess \/ StoreResult \/ Insert \/ FrameDone
           \/ PruneRows \/ DeleteRows
  BY <1>1, <1>3 DEF StartProcess, EndProcess, StoreResult, Insert, FrameDone,
     PruneRows, DeleteRows, fileVars, frameVars
<1>4. CASE ListImages
  <2>1. CASE UNCHANGED doomed /\ step' = "frame"
    BY <1>1, <1>4, <2>1 DEF ListImages
  <2>2. CASE /\ Len(images) > MaxImages /\ doomed' = OldestFiles(Len(images) - MaxImages)
             /\ step' = "remove images"
    <3>1. Len(images) \in Nat
      BY <1>1, LenProperties
    <3>2. Len(images) - MaxImages \in 0 .. Len(images) /\ Len(images) - MaxImages # 0
      BY <2>2, <3>1, Surplus
    <3>3. doomed' \in Seq(FileTypes) /\ Len(doomed') # 0
      <4> DEFINE n == Len(images) - MaxImages
      <4>1. doomed' = OldestFiles(n) /\ n \in 0 .. Len(images) /\ n # 0
        BY <2>2, <3>2
      <4> HIDE DEF n
      <4> QED  BY <1>1, <4>1, OldestFilesProperties
    <3> QED  BY <2>2, <3>3, EmptySeq
  <2> QED  BY <1>1, <1>4, <2>1, <2>2 DEF ListImages
<1>5. CASE RemoveImage
  BY <1>1, <1>5 DEF RemoveImage
<1>6. CASE Dashboard \/ UNCHANGED recordVars
  BY <1>1, <1>6 DEF Dashboard, AskImage, SendImage, AskStats, CountRejects, CountPassed,
     Answered, recordVars, fileVars, frameVars
<1> QED  BY <1>2, <1>3, <1>4, <1>5, <1>6 DEF RecordsNext, Pipeline

(* The number of rows that come and go in a step.                          *)
LEMMA RowsCounted ==
  ASSUME TypeOK, TypeOK'
  PROVE  /\ IsFiniteSet(db.inspections) /\ db.inspections \in SUBSET Inspections
         /\ db'.inspections \in SUBSET Inspections
         /\ Cardinality(db.inspections) \in Nat
         /\ Cardinality(db'.inspections \ db.inspections) \in Nat
         /\ Cardinality(db.inspections \ db'.inspections) \in Nat
         /\ \A v \in BOOLEAN : RowsOf(v) \in Nat
<1>1. db.inspections \in SUBSET Inspections /\ db'.inspections \in SUBSET Inspections
  <2>1. db \in Tables /\ db' \in Tables
    BY Zenon DEF TypeOK
  <2> QED  BY <2>1, TypedTables
<1>2. /\ db'.inspections \ db.inspections \in SUBSET Inspections
      /\ db.inspections \ db'.inspections \in SUBSET Inspections
      /\ \A v \in BOOLEAN : {i \in db.inspections : (size[i] > 0) = v} \in SUBSET Inspections
  BY <1>1
<1> QED  BY <1>1, <1>2, SetsOfInspections DEF RowsOf

LEMMA CountingRequest ==
  ASSUME request \in RequestTypes, request.asks \in {"rejects", "passed"}
  PROVE  request \in [asks : {"rejects", "passed"}, most : Int, least : Int]
BY DEF RequestTypes, NoRequest

LEMMA RequestStep ==
  ASSUME Parts, TypeOK', [RecordsNext]_recordVars
  PROVE  RequestOK'
<1>1. TypeOK /\ RowsOK /\ FilesOK /\ request \in RequestTypes
  BY Zenon DEF Parts, RequestOK
<1>2. ASSUME Noted PROVE RequestOK'
  <2>1. CASE request.asks \in {"rejects", "passed"}
    <3> DEFINE gone == Cardinality(db.inspections \ db'.inspections)
               new == Cardinality(db'.inspections \ db.inspections)
    <3>1. gone \in Nat /\ new \in Nat
      BY <1>1, RowsCounted
    <3>2. request' = [request EXCEPT !.most = @ + new, !.least = @ - gone]
      BY <1>2, <2>1 DEF Noted
    <3> HIDE DEF gone, new
    <3>3. PICK a \in {"rejects", "passed"}, m \in Int, l \in Int :
            request = [asks |-> a, most |-> m, least |-> l]
      BY <1>1, <2>1, CountingRequest
    <3>4. request' = [asks |-> a, most |-> m + new, least |-> l - gone]
      BY <3>2, <3>3
    <3>5. m + new \in Int /\ l - gone \in Int
      BY <3>1
    <3>6. request' \in [asks : {"rejects", "passed"}, most : Int, least : Int]
      BY <3>4, <3>5
    <3> QED  BY <3>6 DEF RequestOK, RequestTypes
  <2>2. CASE request' = request
    BY <1>1, <2>2 DEF RequestOK
  <2> QED  BY <1>2, <2>1, <2>2 DEF Noted
<1>3. CASE Pipeline
  BY <1>2, <1>3 DEF Pipeline, StartProcess, EndProcess, SaveImage, StoreResult, Insert,
     FrameDone, PruneRows, DeleteRows, ListImages, RemoveImage
<1>4. ASSUME NEW i \in Inspections, AskImage(i) PROVE RequestOK'
  <2>1. path[i] \in Names /\ picture[i] \in FrameNumbers
    BY <1>1, <1>4 DEF RowsOK, AskImage
  <2> QED  BY <1>4, <2>1 DEF AskImage, RequestOK, RequestTypes
<1>5. CASE SendImage
  <2> DEFINE shown == IF \E file \in ToSet(images) : file.name = request.path
                      THEN (CHOOSE file \in ToSet(images) :
                              file.name = request.path).shows
                      ELSE NoFrame
  <2>1. \A file \in ToSet(images) : file \in FileTypes
    <3>1. images \in Seq(FileTypes)
      BY <1>1 DEF FilesOK
    <3>2. \A k \in DOMAIN images : images[k] \in FileTypes
      BY <3>1, LenProperties, ElementOfSeq
    <3> QED  BY <3>2 DEF ToSet
  <2>2. NoFrame \in FrameNumbers
    BY Limits DEF NoFrame, FrameNumbers
  <2>3. shown \in FrameNumbers
    BY <2>1, <2>2 DEF FileTypes
  <2>4. request' = [asks |-> "sent", about |-> request.about, shows |-> shown]
    BY <1>5 DEF SendImage
  <2> HIDE DEF shown
  <2>5. request.about \in FrameNumbers
    BY <1>1, <1>5 DEF SendImage, RequestTypes, NoRequest
  <2> QED  BY <2>3, <2>4, <2>5 DEF RequestOK, RequestTypes
<1>6. CASE AskStats
  BY <1>1, <1>6, RowsCounted DEF AskStats, RequestOK, RequestTypes
<1>7. CASE CountRejects \/ CountPassed
  <2>1. RowsOf(TRUE) \in Nat /\ RowsOf(FALSE) \in Nat
    BY <1>1, RowsCounted
  <2>2. request.asks \in {"rejects", "passed"}
    BY <1>7 DEF CountRejects, CountPassed
  <2>3. PICK a \in {"rejects", "passed"}, m \in Int, l \in Int :
          request = [asks |-> a, most |-> m, least |-> l]
    BY <1>1, <2>2, CountingRequest
  <2>4. request.most = m /\ request.least = l
    BY <2>3
  <2>5. \A c \in Nat : m - c \in Int /\ l - c \in Int
    OBVIOUS
  <2>6. CASE CountRejects
    BY <2>1, <2>4, <2>5, <2>6 DEF CountRejects, RequestOK, RequestTypes
  <2>7. CASE CountPassed
    BY <2>1, <2>4, <2>7 DEF CountPassed, RequestOK, RequestTypes
  <2> QED  BY <1>7, <2>6, <2>7
<1>8. CASE Answered \/ UNCHANGED recordVars
  BY <1>1, <1>8 DEF Answered, recordVars, RequestOK, RequestTypes
<1> QED  BY <1>3, <1>4, <1>5, <1>6, <1>7, <1>8 DEF RecordsNext, Dashboard

LEMMA PartsHold == RecordsSpec => []Parts
<1>1. RecordsInit /\ FoundInv /\ TypeOK /\ ViewInv => Parts
  <2> SUFFICES ASSUME RecordsInit, FoundInv, TypeOK, ViewInv PROVE Parts
    OBVIOUS
  <2>1. 0 \in 0 .. PruneInterval - 1 /\ 0 \in 0 .. MaxSeconds /\ 0 \in 0 .. MaxRuns
        /\ 0 \in 0 .. MaxInserts
    BY Limits
  <2>2. at = "closed" /\ calls = 0
    BY DEF RecordsInit, Init
  <2>3. ThreadOK
    BY <2>1, <2>2 DEF RecordsInit, ThreadOK, Steps, Writing
  <2>4. NoFrame \in FrameNumbers
    BY <2>1 DEF NoFrame, FrameNumbers
  <2>5. RowsOK /\ RequestOK
    BY <2>4 DEF RecordsInit, RowsOK, RequestOK, RequestTypes
  <2>6. FilesOK
    BY <2>4, EmptySeq DEF RecordsInit, FilesOK
  <2> QED  BY <2>3, <2>5, <2>6, Zenon DEF Parts
<1>2. Parts /\ FoundInv' /\ TypeOK' /\ ViewInv' /\ [RecordsNext]_recordVars => Parts'
  BY ThreadStep, RowsStep, LoopStep, FilesStep, RequestStep, Zenon DEF Parts
<1> QED  BY <1>1, <1>2, DatabaseInside, PTL DEF RecordsSpec

(* Every variable of Records has its type, and the inference thread is     *)
(* where the database is: no statement runs outside the call it belongs    *)
(* to, and no file waits for its removal outside the loop that removes.    *)
THEOREM RecordsTypeCorrect == RecordsSpec => []RecordsTypeOK
BY PartsHold, PartsAreTyped, PTL

-----------------------------------------------------------------------------
(* Wherever a name is bound to a frame - by a file, by a row, by the frame *)
(* in hand or by the request of the dashboard - it is a name that the      *)
(* frame was given: they share the frame id, and names of one second are   *)
(* of one run.                                                             *)
ImageTag(n, p) == \E k \in 1 .. Len(images) : images[k].name = n /\ images[k].shows = p
RowTag(n, p) == \E i \in Inspections : path[i] # NoImage /\ path[i] = n /\ picture[i] = p
NameTag(n, p) == name # NoImage /\ name = n /\ p = <<run, frame>>
RequestTag(n, p) == request.asks = "image" /\ request.path = n /\ request.about = p

Tag(n, p) == ImageTag(n, p) \/ RowTag(n, p) \/ NameTag(n, p) \/ RequestTag(n, p)

TagInv ==
  /\ \A n \in Names, p \in FrameNumbers : Tag(n, p) =>
       n[1] <= second /\ n[2] = p[2] /\ (n[1] = second => p[1] = run)
  /\ \A n, m \in Names, p, q \in FrameNumbers :
       Tag(n, p) /\ Tag(m, q) /\ n[1] = m[1] => p[1] = q[1]

(* One name, one frame.                                                    *)
LEMMA NamesAreOfOneFrame ==
  ASSUME TagInv, NEW n \in Names, NEW p \in FrameNumbers, NEW q \in FrameNumbers,
         Tag(n, p), Tag(n, q)
  PROVE  p = q
<1>1. p[1] = q[1] /\ p[2] = q[2]
  BY DEF TagInv
<1> QED  BY <1>1 DEF FrameNumbers

NewTag(n, p) ==
  \E k \in 0 .. MaxDetections, now \in 0 .. MaxSeconds :
    SaveImage(k, now) /\ n = <<now, frame + 1>> /\ p = <<run, frame + 1>>

LEMMA WithoutKeeps ==
  ASSUME images \in Seq(FileTypes), NEW n, NEW j \in 1 .. Len(Without(n))
  PROVE  \E k \in 1 .. Len(images) : Without(n)[j] = images[k]
<1>1. Len(images) \in Nat
  BY LenProperties
<1>2. CASE Without(n) = images
  BY <1>2
<1>3. CASE TakenOut(n, Without(n))
  <2>1. PICK k \in 1 .. Len(images) :
          /\ Len(Without(n)) = Len(images) - 1
          /\ \A l \in 1 .. Len(images) - 1 :
               Without(n)[l] = images[IF l < k THEN l ELSE l + 1]
    BY <1>3 DEF TakenOut
  <2>2. (IF j < k THEN j ELSE j + 1) \in 1 .. Len(images)
    BY <1>1, <2>1
  <2> QED  BY <2>1, <2>2
<1> QED  BY <1>2, <1>3, WithoutProperties

LEMMA ImageTagsMove ==
  ASSUME Parts, [RecordsNext]_recordVars, NEW n, NEW p, ImageTag(n, p)'
  PROVE  ImageTag(n, p) \/ NewTag(n, p)
<1>1. images \in Seq(FileTypes)
  BY Zenon DEF Parts, FilesOK
<1>2. PICK j \in 1 .. Len(images') : images'[j].name = n /\ images'[j].shows = p
  BY DEF ImageTag
<1>3. ASSUME NEW m, images' = Without(m) PROVE ImageTag(n, p)
  <2>1. \E k \in 1 .. Len(images) : images'[j] = images[k]
    BY <1>1, <1>3, WithoutKeeps
  <2> QED  BY <1>2, <2>1 DEF ImageTag
<1>4. CASE images' = images
  BY <1>2, <1>4 DEF ImageTag
<1>5. ASSUME NEW k \in 0 .. MaxDetections, NEW now \in 0 .. MaxSeconds, SaveImage(k, now),
             images' # images
      PROVE  ImageTag(n, p) \/ NewTag(n, p)
  <2> DEFINE file == [name |-> <<now, frame + 1>>, shows |-> <<run, frame + 1>>]
             kept == Without(<<now, frame + 1>>)
  <2>1. file \in FileTypes /\ images' = Append(kept, file)
    BY <1>5, FileWritten DEF FileTypes, Written
  <2>2. file.name = <<now, frame + 1>> /\ file.shows = <<run, frame + 1>>
    OBVIOUS
  <2>3. kept \in Seq(FileTypes)
    BY <1>1, WithoutProperties
  <2>4. \A l \in 1 .. Len(kept) : \E i \in 1 .. Len(images) : kept[l] = images[i]
    BY <1>1, WithoutKeeps
  <2> HIDE DEF file, kept
  <2>5. /\ Len(kept) \in Nat /\ Len(images') = Len(kept) + 1
        /\ images'[Len(kept) + 1] = file
        /\ \A l \in 1 .. Len(kept) : images'[l] = kept[l]
    BY <2>1, <2>3, AppendProperties, LenProperties
  <2>6. CASE j = Len(kept) + 1
    BY <1>2, <1>5, <2>2, <2>5, <2>6 DEF NewTag
  <2>7. CASE j \in 1 .. Len(kept)
    BY <1>2, <2>4, <2>5, <2>7 DEF ImageTag
  <2> QED  BY <2>5, <2>6, <2>7
<1>6. CASE RemoveImage
  BY <1>3, <1>4, <1>6 DEF RemoveImage
<1>7. CASE EndProcess \/ ListImages \/ UNCHANGED fileVars
  BY <1>4, <1>7 DEF EndProcess, ListImages, fileVars
<1> QED  BY <1>4, <1>5, <1>6, <1>7, FilesMove

LEMMA RowTagsMove ==
  ASSUME Parts, [RecordsNext]_recordVars, NEW n, NEW p, RowTag(n, p)'
  PROVE  RowTag(n, p) \/ NameTag(n, p)
<1>1. RowsOK
  BY Zenon DEF Parts
<1>2. PICK i \in Inspections : path'[i] # NoImage /\ path'[i] = n /\ picture'[i] = p
  BY DEF RowTag
<1>3. CASE UNCHANGED rowVars
  BY <1>2, <1>3 DEF RowTag, rowVars
<1>4. CASE /\ path' = [path EXCEPT ![calls] = name]
           /\ picture' = [picture EXCEPT ![calls] = <<run, frame>>]
  <2>1. CASE i = calls
    BY <1>1, <1>2, <1>4, <2>1 DEF RowsOK, NameTag
  <2>2. CASE i # calls
    BY <1>1, <1>2, <1>4, <2>2 DEF RowsOK, RowTag
  <2> QED  BY <2>1, <2>2
<1>5. CASE Insert
  BY <1>3, <1>4, <1>5 DEF Insert
<1>6. ASSUME NEW k, NEW now, SaveImage(k, now) PROVE UNCHANGED rowVars
  BY <1>6 DEF SaveImage
<1>7. CASE \/ StartProcess \/ EndProcess \/ StoreResult \/ FrameDone
           \/ PruneRows \/ DeleteRows \/ ListImages \/ RemoveImage
  BY <1>3, <1>7 DEF StartProcess, EndProcess, StoreResult, FrameDone, PruneRows,
     DeleteRows, ListImages, RemoveImage
<1>8. CASE Dashboard \/ UNCHANGED recordVars
  BY <1>3, <1>8 DEF Dashboard, AskImage, SendImage, AskStats, CountRejects, CountPassed,
     Answered, recordVars
<1> QED  BY <1>3, <1>5, <1>6, <1>7, <1>8 DEF RecordsNext, Pipeline

LEMMA NameTagsMove ==
  ASSUME Parts, [RecordsNext]_recordVars, NEW n, NEW p, NameTag(n, p)'
  PROVE  NameTag(n, p) \/ NewTag(n, p)
<1>1. name # NoImage => step \in {"record", "insert"}
  BY Zenon DEF Parts, ThreadOK
<1>2. ASSUME NEW k \in 0 .. MaxDetections, NEW now \in 0 .. MaxSeconds, SaveImage(k, now)
      PROVE  NewTag(n, p)
  <2>1. name' = <<now, frame + 1>> /\ frame' = frame + 1 /\ run' = run
    BY <1>2 DEF SaveImage, ImageName, NameTag
  <2> QED  BY <1>2, <2>1 DEF NewTag, NameTag
<1>3. CASE StartProcess \/ EndProcess \/ FrameDone
  BY <1>1, <1>3 DEF StartProcess, EndProcess, FrameDone, NameTag
<1>4. CASE \/ StoreResult \/ Insert \/ PruneRows \/ DeleteRows \/ ListImages
           \/ RemoveImage
  BY <1>4 DEF StoreResult, Insert, PruneRows, DeleteRows, ListImages, RemoveImage,
     NameTag, frameVars, timeVars
<1>5. CASE Dashboard \/ UNCHANGED recordVars
  BY <1>5 DEF Dashboard, AskImage, SendImage, AskStats, CountRejects, CountPassed,
     Answered, recordVars, NameTag, frameVars, timeVars
<1> QED  BY <1>2, <1>3, <1>4, <1>5 DEF RecordsNext, Pipeline

LEMMA AskedNext ==
  /\ AskStats => request'.asks = "rejects"
  /\ CountRejects => request'.asks = "passed"
  /\ CountPassed => request'.asks = "stats"
  /\ Answered => request'.asks = "nothing"
<1>1. AskStats => request'.asks = "rejects"
  BY DEF AskStats
<1>2. CountRejects => request'.asks = "passed"
  BY DEF CountRejects
<1>3. CountPassed => request'.asks = "stats"
  BY DEF CountPassed
<1>4. Answered => request'.asks = "nothing"
  BY DEF Answered, NoRequest
<1> QED  BY <1>1, <1>2, <1>3, <1>4

LEMMA RequestTagsMove ==
  ASSUME Parts, [RecordsNext]_recordVars, NEW n, NEW p, RequestTag(n, p)'
  PROVE  RequestTag(n, p) \/ RowTag(n, p)
<1>1. request \in RequestTypes
  BY Zenon DEF Parts, RequestOK
<1>2. ASSUME Noted PROVE RequestTag(n, p)
  <2>1. CASE request.asks \in {"rejects", "passed"}
    <3>1. request \in [asks : {"rejects", "passed"}, most : Int, least : Int]
      BY <1>1, <2>1, CountingRequest
    <3>2. request'.asks = request.asks
      BY <1>2, <2>1, <3>1 DEF Noted
    <3> QED  BY <2>1, <3>2 DEF RequestTag
  <2>2. CASE request' = request
    BY <2>2 DEF RequestTag
  <2> QED  BY <1>2, <2>1, <2>2 DEF Noted
<1>3. CASE Pipeline
  BY <1>2, <1>3 DEF Pipeline, StartProcess, EndProcess, SaveImage, StoreResult, Insert,
     FrameDone, PruneRows, DeleteRows, ListImages, RemoveImage
<1>4. ASSUME NEW i \in Inspections, AskImage(i) PROVE RowTag(n, p)
  <2>1. request'.path = path[i] /\ request'.about = picture[i] /\ path[i] # NoImage
    BY <1>4 DEF AskImage
  <2> QED  BY <2>1 DEF RequestTag, RowTag
<1>5. CASE SendImage \/ AskStats \/ CountRejects \/ CountPassed \/ Answered
  <2>1. CASE SendImage
    BY <2>1 DEF SendImage, RequestTag
  <2>2. CASE AskStats \/ CountRejects \/ CountPassed
    <3>1. request'.asks \in {"rejects", "passed", "stats"}
      BY <2>2, AskedNext
    <3> QED  BY <3>1 DEF RequestTag
  <2>3. CASE Answered
    BY <2>3 DEF Answered, NoRequest, RequestTag
  <2> QED  BY <1>5, <2>1, <2>2, <2>3
<1>6. CASE UNCHANGED recordVars
  BY <1>6 DEF recordVars, RequestTag
<1> QED  BY <1>3, <1>4, <1>5, <1>6 DEF RecordsNext, Dashboard

LEMMA TagsMove ==
  ASSUME Parts, [RecordsNext]_recordVars, NEW n, NEW p, Tag(n, p)'
  PROVE  Tag(n, p) \/ NewTag(n, p)
BY ImageTagsMove, RowTagsMove, NameTagsMove, RequestTagsMove DEF Tag

(* The clock and the number of the run move together.                      *)
LEMMA TimeMoves ==
  ASSUME Parts, [RecordsNext]_recordVars
  PROVE  /\ second \in Nat /\ second' \in Nat
         /\ \/ second' = second /\ run' = run
            \/ second' > second /\ \A n, p : ~NewTag(n, p)
            \/ \E k \in 0 .. MaxDetections :
                 SaveImage(k, second') /\ second' >= second /\ run' = run
<1>1. second \in Nat /\ MaxSeconds \in Nat
  <2>1. second \in 0 .. MaxSeconds
    BY Zenon DEF Parts, ThreadOK
  <2> QED  BY <2>1, Limits
<1>2. CASE StartProcess
  <2>1. second' = second + 1 /\ step = "down"
    BY <1>2 DEF StartProcess
  <2>2. \A n, p : ~NewTag(n, p)
    BY <2>1 DEF NewTag, SaveImage
  <2> QED  BY <1>1, <2>1, <2>2
<1>3. ASSUME NEW k \in 0 .. MaxDetections, NEW now \in 0 .. MaxSeconds, SaveImage(k, now)
      PROVE  second' = now /\ second' \in Nat /\ second' >= second /\ run' = run
  BY <1>1, <1>3 DEF SaveImage
<1>4. CASE \/ EndProcess \/ StoreResult \/ Insert \/ FrameDone
           \/ PruneRows \/ DeleteRows \/ ListImages \/ RemoveImage
  BY <1>1, <1>4 DEF EndProcess, StoreResult, Insert, FrameDone, PruneRows,
     DeleteRows, ListImages, RemoveImage, timeVars
<1>5. CASE Dashboard \/ UNCHANGED recordVars
  BY <1>1, <1>5 DEF Dashboard, AskImage, SendImage, AskStats, CountRejects, CountPassed,
     Answered, recordVars, timeVars
<1> QED  BY <1>1, <1>2, <1>3, <1>4, <1>5 DEF RecordsNext, Pipeline

LEMMA NamesAndFrames ==
  ASSUME NEW n \in Names, NEW p \in FrameNumbers
  PROVE  n[1] \in Nat /\ n[2] \in Nat /\ p[1] \in Nat /\ p[2] \in Nat
BY Limits DEF Names, FrameNumbers

LEMMA TagsInductive == RecordsSpec => []TagInv
<1>1. RecordsInit => TagInv
  <2> SUFFICES ASSUME RecordsInit PROVE TagInv
    OBVIOUS
  <2>1. ASSUME NEW n, NEW p PROVE ~Tag(n, p)
    BY EmptySeq DEF RecordsInit, Tag, ImageTag, RowTag, NameTag, RequestTag, NoRequest
  <2> QED  BY <2>1 DEF TagInv
<1>2. Parts /\ TagInv /\ [RecordsNext]_recordVars => TagInv'
  <2> SUFFICES ASSUME Parts, TagInv, [RecordsNext]_recordVars PROVE TagInv'
    OBVIOUS
  <2>1. ASSUME NEW n \in Names, NEW p \in FrameNumbers, NewTag(n, p)
        PROVE  /\ n[1] = second' /\ n[2] = p[2] /\ p[1] = run
               /\ second' >= second /\ run' = run
    BY <2>1 DEF NewTag, SaveImage
  <2>2. ASSUME NEW n \in Names, NEW p \in FrameNumbers, Tag(n, p)
        PROVE  n[1] <= second /\ n[2] = p[2] /\ (n[1] = second => p[1] = run)
    BY <2>2 DEF TagInv
  <2>3. ASSUME NEW n \in Names, NEW p \in FrameNumbers, Tag(n, p)'
        PROVE  n[1] <= second' /\ n[2] = p[2] /\ (n[1] = second' => p[1] = run')
    <3>1. Tag(n, p) \/ NewTag(n, p)
      BY <2>3, TagsMove
    <3>2. CASE NewTag(n, p)
      BY <2>1, <3>2, NamesAndFrames
    <3>3. CASE Tag(n, p)
      BY <2>2, <3>3, TimeMoves, NamesAndFrames
    <3> QED  BY <3>1, <3>2, <3>3
  <2>4. ASSUME NEW n \in Names, NEW m \in Names, NEW p \in FrameNumbers, NEW q \in FrameNumbers,
               Tag(n, p)', Tag(m, q)', n[1] = m[1]
        PROVE  p[1] = q[1]
    <3>1. (Tag(n, p) \/ NewTag(n, p)) /\ (Tag(m, q) \/ NewTag(m, q))
      BY <2>4, TagsMove
    <3>2. CASE Tag(n, p) /\ Tag(m, q)
      BY <2>4, <3>2 DEF TagInv
    <3>3. ASSUME NewTag(n, p), Tag(m, q) PROVE p[1] = q[1]
      BY <2>1, <2>2, <2>4, <3>3, TimeMoves, NamesAndFrames
    <3>4. ASSUME Tag(n, p), NewTag(m, q) PROVE p[1] = q[1]
      BY <2>1, <2>2, <2>4, <3>4, TimeMoves, NamesAndFrames
    <3>5. CASE NewTag(n, p) /\ NewTag(m, q)
      BY <2>1, <3>5
    <3> QED  BY <3>1, <3>2, <3>3, <3>4, <3>5
  <2> QED  BY <2>3, <2>4 DEF TagInv
<1> QED  BY <1>1, <1>2, PartsHold, PTL DEF RecordsSpec

(* An image that the dashboard sends for an inspection is the image of     *)
(* that inspection, although frame ids start over with every process, the  *)
(* files are pruned apart from the rows that name them, and the row is     *)
(* read some time before the file is.  A name is bound to one frame as     *)
(* long as anything holds it, because a start of the process takes longer  *)
(* than the second that names tell apart.                                  *)
THEOREM RightImageIsSent == RecordsSpec => []SentImageIsTheRows
<1>1. RecordsInit => SentImageIsTheRows
  BY DEF RecordsInit, SentImageIsTheRows, NoRequest
<1>2. Parts /\ TagInv /\ SentImageIsTheRows /\ [RecordsNext]_recordVars => SentImageIsTheRows'
  <2> SUFFICES ASSUME Parts, TagInv, SentImageIsTheRows, [RecordsNext]_recordVars,
                      request'.asks = "sent", request'.shows # NoFrame
               PROVE  request'.shows = request'.about
    BY DEF SentImageIsTheRows
  <2>1. images \in Seq(FileTypes) /\ request \in RequestTypes
    BY Zenon DEF Parts, FilesOK, RequestOK
  <2>2. CASE SendImage
    <3>1. PICK file \in ToSet(images) :
            file.name = request.path /\ request'.shows = file.shows
      BY <2>2 DEF SendImage
    <3>2. PICK k \in 1 .. Len(images) : images[k] = file
      BY <2>1, LenProperties DEF ToSet
    <3>3. file \in FileTypes
      BY <2>1, <3>2, ElementOfSeq
    <3>4. file.name \in Names /\ file.shows \in FrameNumbers /\ Tag(file.name, file.shows)
      BY <3>2, <3>3 DEF FileTypes, Tag, ImageTag
    <3>5. request \in [asks : {"image"}, path : Names, about : FrameNumbers]
      BY <2>1, <2>2 DEF SendImage, RequestTypes, NoRequest
    <3>6. request'.about = request.about /\ request.about \in FrameNumbers
          /\ Tag(file.name, request.about)
      BY <2>2, <3>1, <3>5 DEF SendImage, Tag, RequestTag
    <3> QED  BY <3>1, <3>4, <3>6, NamesAreOfOneFrame
  <2>3. ASSUME Noted PROVE request' = request
    <3>1. CASE request.asks \in {"rejects", "passed"}
      <4>1. request'.asks = request.asks
        BY <2>1, <2>3, <3>1, CountingRequest DEF Noted
      <4> QED  BY <3>1, <4>1
    <3> QED  BY <2>3, <3>1 DEF Noted
  <2>4. CASE Pipeline
    <3>1. Noted
      BY <2>4 DEF Pipeline, StartProcess, EndProcess, SaveImage, StoreResult, Insert,
         FrameDone, PruneRows, DeleteRows, ListImages, RemoveImage
    <3> QED  BY <2>3, <3>1 DEF SentImageIsTheRows
  <2>5. ASSUME NEW i, AskImage(i) PROVE FALSE
    BY <2>5 DEF AskImage
  <2>6. CASE AskStats \/ CountRejects \/ CountPassed \/ Answered
    <3>1. request'.asks \in {"rejects", "passed", "stats", "nothing"}
      BY <2>6, AskedNext
    <3> QED  BY <3>1
  <2>7. CASE UNCHANGED recordVars
    BY <2>7 DEF recordVars, SentImageIsTheRows
  <2> QED  BY <2>2, <2>4, <2>5, <2>6, <2>7 DEF RecordsNext, Dashboard
<1> QED  BY <1>1, <1>2, PartsHold, TagsInductive, PTL DEF RecordsSpec

-----------------------------------------------------------------------------
(* Frames in the order in which they were captured.                        *)
LEMMA LaterOrders ==
  ASSUME NEW p \in FrameNumbers, NEW q \in FrameNumbers, NEW r \in FrameNumbers
  PROVE  /\ ~Later(p, p)
         /\ Later(p, q) \/ p = q \/ Later(q, p)
         /\ Later(p, q) => ~Later(q, p)
         /\ Later(p, q) /\ Later(q, r) => Later(p, r)
         /\ Later(p, q) /\ ~Later(r, q) => Later(p, r)
         /\ p[2] >= 1 => Later(p, NoFrame)
<1>1. /\ p[1] \in Nat /\ p[2] \in Nat /\ q[1] \in Nat /\ q[2] \in Nat
      /\ r[1] \in Nat /\ r[2] \in Nat
      /\ p = <<p[1], p[2]>> /\ q = <<q[1], q[2]>> /\ r = <<r[1], r[2]>>
  BY Limits DEF FrameNumbers
<1>2. Later(p, q) \/ p = q \/ Later(q, p)
  <2>1. p[1] = q[1] /\ p[2] = q[2] => p = q
    BY <1>1
  <2> QED  BY <1>1, <2>1 DEF Later
<1>3. /\ ~Later(p, p) /\ (Later(p, q) => ~Later(q, p))
      /\ Later(p, q) /\ Later(q, r) => Later(p, r)
  BY <1>1 DEF Later
<1>4. Later(p, q) /\ ~Later(r, q) => Later(p, r)
  <2>1. r[1] = q[1] /\ r[2] = q[2] => r = q
    BY <1>1
  <2> QED  BY <1>1, <2>1 DEF Later
<1>5. p[2] >= 1 => Later(p, NoFrame)
  BY <1>1 DEF Later, NoFrame
<1> QED  BY <1>2, <1>3, <1>4, <1>5

(* The frames whose images are kept or have been removed are not later     *)
(* than the frame in hand, and the images are in the order of their        *)
(* frames.                                                                 *)
Past(p) == p[1] <= run /\ (step # "down" => ~Later(p, <<run, frame>>))

WrittenInv ==
  /\ \A p \in FrameNumbers :
       p = removed \/ (\E k \in 1 .. Len(images) : images[k].shows = p) => Past(p)
  /\ \A k \in 1 .. Len(images) : images[k].shows[2] >= 1
  /\ \A k, l \in 1 .. Len(images) : k < l => Later(images[l].shows, images[k].shows)

(* The loop that removes files: they are the oldest but for files that     *)
(* could not be removed, and enough are left without them.                 *)
LoopInv ==
  /\ \A m \in 1 .. Len(doomed) : \E l \in 1 .. Len(images) : images[l] = doomed[m]
  /\ \A m, o \in 1 .. Len(doomed) : m < o => Later(doomed[o].shows, doomed[m].shows)
  /\ doomed # <<>> => Len(images) >= MaxImages + Len(doomed)
  /\ \A l \in 1 .. Len(images) :
       \/ images[l].shows \in stubborn
       \/ \E m \in 1 .. Len(doomed) : images[l] = doomed[m]
       \/ \A m \in 1 .. Len(doomed) : Later(images[l].shows, doomed[m].shows)

KeptInv ==
  removed # NoFrame =>
    /\ \A l \in 1 .. Len(images) :
         images[l].shows \in stubborn \/ Later(images[l].shows, removed)
    /\ Len(images) >= MaxImages

ImagesInv == WrittenInv /\ LoopInv /\ KeptInv

LEMMA FilesTyped ==
  ASSUME FilesOK
  PROVE  /\ images \in Seq(FileTypes) /\ Len(images) \in Nat
         /\ doomed \in Seq(FileTypes) /\ Len(doomed) \in Nat
         /\ \A k \in 1 .. Len(images) :
              /\ images[k] \in FileTypes
              /\ images[k].shows \in FrameNumbers /\ images[k].name \in Names
         /\ \A m \in 1 .. Len(doomed) :
              doomed[m] \in FileTypes /\ doomed[m].shows \in FrameNumbers
         /\ removed \in FrameNumbers
<1>1. images \in Seq(FileTypes) /\ doomed \in Seq(FileTypes) /\ removed \in FrameNumbers
  BY DEF FilesOK
<1>2. /\ Len(images) \in Nat /\ Len(doomed) \in Nat
      /\ \A k \in 1 .. Len(images) : images[k] \in FileTypes
      /\ \A m \in 1 .. Len(doomed) : doomed[m] \in FileTypes
  BY <1>1, LenProperties, ElementOfSeq
<1> QED  BY <1>1, <1>2 DEF FileTypes

(* What is past stays past, and the frame that is saved is past then.      *)
LEMMA PastStays ==
  ASSUME Parts, [RecordsNext]_recordVars, NEW p \in FrameNumbers, Past(p)
  PROVE  Past(p)'
<1>1. p[1] \in Nat /\ p[2] \in Nat /\ run \in Nat /\ frame \in Nat
  <2>1. run \in 0 .. MaxRuns /\ frame \in Nat
    BY Zenon DEF Parts, ThreadOK
  <2> QED  BY <2>1, Limits DEF FrameNumbers
<1>2. CASE StartProcess
  <2>1. run' = run + 1
    BY <1>2 DEF StartProcess
  <2>2. p[1] < run'
    BY <1>1, <2>1 DEF Past
  <2>3. ~Later(p, <<run', frame'>>)
    BY <1>1, <2>1, <2>2 DEF Later
  <2> QED  BY <1>1, <2>1, <2>2, <2>3 DEF Past
<1>3. CASE EndProcess
  BY <1>3 DEF EndProcess, Past, timeVars
<1>4. ASSUME NEW k, NEW now, SaveImage(k, now) PROVE Past(p)'
  <2>1. step = "frame" /\ frame' = frame + 1 /\ run' = run
    BY <1>4 DEF SaveImage
  <2>2. ~Later(p, <<run, frame + 1>>)
    BY <1>1, <2>1 DEF Past, Later
  <2> QED  BY <2>1, <2>2 DEF Past
<1>5. CASE StoreResult \/ Insert \/ FrameDone
  BY <1>5 DEF StoreResult, Insert, FrameDone, Past, timeVars, frameVars
<1>6. CASE PruneRows \/ DeleteRows \/ ListImages \/ RemoveImage
  BY <1>6 DEF PruneRows, DeleteRows, ListImages, RemoveImage, Past, timeVars
<1>7. CASE Dashboard \/ UNCHANGED recordVars
  BY <1>7 DEF Dashboard, AskImage, SendImage, AskStats, CountRejects, CountPassed,
     Answered, recordVars, Past, timeVars, frameVars
<1> QED  BY <1>2, <1>3, <1>4, <1>5, <1>6, <1>7 DEF RecordsNext, Pipeline

(* No image is ever replaced: the name of the frame in hand is new.        *)
LEMMA NameIsNew ==
  ASSUME Parts, TagInv, WrittenInv,
         NEW k \in 0 .. MaxDetections, NEW now \in 0 .. MaxSeconds, SaveImage(k, now)
  PROVE  Without(<<now, frame + 1>>) = images
<1>1. FilesOK /\ step # "down" /\ now >= second
  BY Zenon DEF Parts, SaveImage
<1>2. second \in Nat /\ now \in Nat
  <2>1. second \in 0 .. MaxSeconds
    BY Zenon DEF Parts, ThreadOK
  <2> QED  BY <2>1, Limits
<1>3. ASSUME NEW l \in 1 .. Len(images), images[l].name = <<now, frame + 1>> PROVE FALSE
  <2>1. images[l].name \in Names /\ images[l].shows \in FrameNumbers
    BY <1>1, FilesTyped
  <2>2. PICK n \in Names, p \in FrameNumbers :
          n = <<now, frame + 1>> /\ images[l].name = n /\ images[l].shows = p
    BY <1>3, <2>1
  <2>3. Tag(n, p) /\ Past(p)
    BY <2>2 DEF Tag, ImageTag, WrittenInv
  <2>4. now <= second /\ p[2] = frame + 1 /\ (now = second => p[1] = run)
    BY <2>2, <2>3 DEF TagInv
  <2>5. p[1] = run
    BY <1>1, <1>2, <2>4
  <2>6. frame \in Nat
    BY Zenon DEF Parts, ThreadOK
  <2>7. Later(p, <<run, frame>>)
    BY <2>4, <2>5, <2>6 DEF Later
  <2> QED  BY <1>1, <2>3, <2>7 DEF Past
<1>4. ~TakenOut(<<now, frame + 1>>, Without(<<now, frame + 1>>))
  BY <1>3 DEF TakenOut
<1> QED  BY <1>1, <1>4, WithoutProperties, FilesTyped

(* The removal of the first doomed file takes exactly that one out.        *)
LEMMA FirstIsTaken ==
  ASSUME Parts, TagInv, ImagesInv, doomed # <<>>
  PROVE  /\ Len(doomed) >= 1 /\ Head(doomed) = doomed[1]
         /\ \E k \in 1 .. Len(images) :
              /\ images[k] = doomed[1]
              /\ Len(Without(doomed[1].name)) = Len(images) - 1
              /\ \A j \in 1 .. Len(images) - 1 :
                   Without(doomed[1].name)[j] = images[IF j < k THEN j ELSE j + 1]
<1>1. FilesOK
  BY Zenon DEF Parts
<1>2. Len(doomed) >= 1 /\ Head(doomed) = doomed[1]
  <2>1. doomed \in Seq(FileTypes)
    BY <1>1 DEF FilesOK
  <2>2. Len(doomed) \in Nat \ {0}
    BY <2>1, EmptySeq
  <2>3. Head(doomed) = doomed[1]
    BY <2>1, <2>2
  <2> QED  BY <2>2, <2>3
<1>3. PICK l \in 1 .. Len(images) : images[l] = doomed[1]
  <2>1. 1 \in 1 .. Len(doomed)
    BY <1>1, <1>2, FilesTyped
  <2> QED  BY <2>1 DEF ImagesInv, LoopInv
<1>4. TakenOut(doomed[1].name, Without(doomed[1].name))
  BY <1>1, <1>3, WithoutProperties, FilesTyped
<1>5. PICK k \in 1 .. Len(images) :
        /\ images[k].name = doomed[1].name
        /\ Len(Without(doomed[1].name)) = Len(images) - 1
        /\ \A j \in 1 .. Len(images) - 1 :
             Without(doomed[1].name)[j] = images[IF j < k THEN j ELSE j + 1]
  BY <1>4 DEF TakenOut
<1>6. images[k].shows = images[l].shows
  <2>1. images[k].name = images[l].name
    BY <1>3, <1>5
  <2>2. images[k].name \in Names /\ images[k].shows \in FrameNumbers
        /\ images[l].shows \in FrameNumbers
    BY <1>1, FilesTyped
  <2>3. Tag(images[k].name, images[k].shows) /\ Tag(images[k].name, images[l].shows)
    BY <2>1 DEF Tag, ImageTag
  <2> QED  BY <2>2, <2>3, NamesAreOfOneFrame
<1>7. k = l
  <2>1. ~Later(images[l].shows, images[k].shows) /\ ~Later(images[k].shows, images[l].shows)
    BY <1>1, <1>6, FilesTyped, LaterOrders
  <2>2. ~(k < l) /\ ~(l < k)
    BY <2>1 DEF ImagesInv, WrittenInv
  <2>3. k \in Int /\ l \in Int
    OBVIOUS
  <2> QED  BY <2>2, <2>3
<1> QED  BY <1>2, <1>3, <1>5, <1>7

(* The invariants say of the images:                                       *)
LEMMA ImagesSaid ==
  ASSUME Parts, ImagesInv
  PROVE  /\ Past(removed) /\ \A k \in 1 .. Len(images) : Past(images[k].shows)
         /\ \A k \in 1 .. Len(images) : images[k].shows[2] >= 1
         /\ \A k, l \in 1 .. Len(images) : k < l => Later(images[l].shows, images[k].shows)
<1>1. FilesOK /\ WrittenInv
  BY Zenon DEF Parts, ImagesInv
<1> QED  BY <1>1, FilesTyped DEF WrittenInv

LEMMA SavedIsLater ==
  ASSUME Parts, step # "down", NEW p \in FrameNumbers, Past(p)
  PROVE  Later(<<run, frame + 1>>, p)
<1>1. p[1] \in Nat /\ p[2] \in Nat /\ run \in Nat /\ frame \in Nat
  <2>1. run \in 0 .. MaxRuns /\ frame \in Nat
    BY Zenon DEF Parts, ThreadOK
  <2> QED  BY <2>1, Limits DEF FrameNumbers
<1> QED  BY <1>1 DEF Past, Later

(* Steps that only add an image, or none.                                  *)
LEMMA ImagesSaved ==
  ASSUME Parts, TagInv, ImagesInv, FilesOK', [RecordsNext]_recordVars,
         NEW k \in 0 .. MaxDetections, NEW now \in 0 .. MaxSeconds, SaveImage(k, now)
  PROVE  ImagesInv'
<1>1. FilesOK /\ WrittenInv /\ LoopInv /\ KeptInv
  BY Zenon DEF Parts, ImagesInv
<1>2. /\ doomed' = doomed /\ removed' = removed /\ stubborn' = stubborn /\ step = "frame"
      /\ frame' = frame + 1 /\ run' = run /\ step' = "record"
  BY DEF SaveImage
<1>3. doomed = <<>> /\ Len(doomed) = 0
  BY <1>1, <1>2, EmptySeq DEF FilesOK
<1>4. CASE images' = images
  <2>1. WrittenInv'
    BY <1>1, <1>2, <1>4, FilesTyped, PastStays DEF WrittenInv
  <2>2. LoopInv' /\ KeptInv'
    BY <1>1, <1>2, <1>3, <1>4 DEF LoopInv, KeptInv
  <2> QED  BY <2>1, <2>2 DEF ImagesInv
<1>5. CASE images' # images
  <2> DEFINE this == <<run, frame + 1>>
             file == [name |-> <<now, frame + 1>>, shows |-> this]
  <2>1. images' = Append(images, file) /\ file \in FileTypes /\ this \in FrameNumbers
    BY <1>1, <1>5, FileWritten, NameIsNew DEF Written, FileTypes, ImagesInv
  <2>2. file.shows = this /\ this = <<run', frame'>> /\ this[1] = run' /\ this[2] = frame + 1
    BY <1>2
  <2>3. frame \in Nat /\ run' \in Nat
    <3>1. frame \in Nat /\ run \in 0 .. MaxRuns
      BY Zenon DEF Parts, ThreadOK
    <3> QED  BY <1>2, <3>1, Limits
  <2> HIDE DEF this, file
  <2>4. /\ Len(images) \in Nat /\ Len(images') = Len(images) + 1
        /\ images'[Len(images) + 1] = file
        /\ \A j \in 1 .. Len(images) : images'[j] = images[j]
    BY <1>1, <2>1, FilesTyped, AppendProperties
  <2>5. \A j \in 1 .. Len(images') : j = Len(images) + 1 \/ j \in 1 .. Len(images)
    BY <2>4
  <2>6. ASSUME NEW p \in FrameNumbers, Past(p) PROVE Later(this, p)
    BY <1>2, <2>6, SavedIsLater DEF this
  <2>7. WrittenInv'
    <3>1. ASSUME NEW p \in FrameNumbers, p = this PROVE Past(p)'
      BY <2>1, <2>2, <2>3, <3>1, LaterOrders DEF Past
    <3>2. ASSUME NEW p \in FrameNumbers,
                 p = removed' \/ (\E j \in 1 .. Len(images') : images'[j].shows = p)
          PROVE  Past(p)'
      <4>1. CASE p = this
        BY <3>1, <4>1
      <4>2. CASE p # this
        <5>1. p = removed \/ \E j \in 1 .. Len(images) : images[j].shows = p
          BY <1>2, <2>2, <2>4, <2>5, <3>2, <4>2
        <5>2. Past(p)
          BY <1>1, <5>1 DEF WrittenInv
        <5> QED  BY <5>2, PastStays
      <4> QED  BY <4>1, <4>2
    <3>3. \A j \in 1 .. Len(images') : images'[j].shows[2] >= 1
      BY <2>2, <2>3, <2>4, <2>5, ImagesSaid
    <3>4. ASSUME NEW i \in 1 .. Len(images'), NEW j \in 1 .. Len(images'), i < j
          PROVE  Later(images'[j].shows, images'[i].shows)
      <4>1. i \in 1 .. Len(images)
        BY <2>4, <3>4
      <4>2. images[i].shows \in FrameNumbers /\ Past(images[i].shows)
        BY <1>1, <4>1, FilesTyped, ImagesSaid
      <4>3. CASE j = Len(images) + 1
        BY <2>2, <2>4, <2>6, <4>1, <4>2, <4>3
      <4>4. CASE j \in 1 .. Len(images)
        BY <2>4, <3>4, <4>1, <4>4, ImagesSaid
      <4> QED  BY <2>5, <4>3, <4>4
    <3> QED  BY <3>2, <3>3, <3>4 DEF WrittenInv
  <2>8. LoopInv'
    BY <1>2, <1>3 DEF LoopInv
  <2>9. KeptInv'
    <3>1. removed \in FrameNumbers /\ Past(removed)
      BY <1>1, FilesTyped, ImagesSaid
    <3>2. Later(this, removed)
      BY <2>6, <3>1
    <3> QED  BY <1>1, <1>2, <2>2, <2>4, <2>5, <3>2, Limits DEF KeptInv
  <2> QED  BY <2>7, <2>8, <2>9 DEF ImagesInv
<1> QED  BY <1>4, <1>5

(* Steps that leave the files as they are.                                 *)
LEMMA OrderStays ==
  ASSUME Parts, ImagesInv, [RecordsNext]_recordVars, UNCHANGED <<images, removed>>
  PROVE  WrittenInv'
<1>1. FilesOK /\ WrittenInv
  BY Zenon DEF Parts, ImagesInv
<1> QED  BY <1>1, FilesTyped, PastStays DEF WrittenInv

(* What is listed for removal is the front of the images.                  *)
LEMMA ImagesListed ==
  ASSUME Parts, ImagesInv, [RecordsNext]_recordVars, ListImages
  PROVE  ImagesInv'
<1>1. FilesOK /\ WrittenInv /\ LoopInv /\ KeptInv
  BY Zenon DEF Parts, ImagesInv
<1>2. images' = images /\ removed' = removed /\ stubborn' = stubborn
  BY DEF ListImages
<1>3. WrittenInv' /\ KeptInv'
  BY <1>1, <1>2, OrderStays DEF KeptInv
<1>4. CASE UNCHANGED doomed
  BY <1>1, <1>2, <1>3, <1>4 DEF LoopInv, ImagesInv
<1>5. CASE doomed' # doomed
  <2> DEFINE n == Len(images) - MaxImages
  <2>1. n \in 0 .. Len(images) /\ Len(images) = MaxImages + n /\ doomed' = OldestFiles(n)
    <3>1. Len(images) > MaxImages /\ doomed' = OldestFiles(Len(images) - MaxImages)
      BY <1>5 DEF ListImages
    <3>2. Len(images) \in Nat
      BY <1>1, FilesTyped
    <3> QED  BY <3>1, <3>2, Surplus, Limits
  <2> HIDE DEF n
  <2>2. Len(doomed') = n /\ \A k \in 1 .. n : doomed'[k] = images[k] /\ k \in 1 .. Len(images)
    <3>1. images \in Seq(FileTypes) /\ Len(images) \in Nat
      BY <1>1, FilesTyped
    <3>2. Len(doomed') = n /\ \A k \in 1 .. n : doomed'[k] = images[k]
      BY <2>1, <3>1, OldestFilesProperties
    <3>3. \A k \in 1 .. n : k \in 1 .. Len(images)
      BY <2>1, <3>1
    <3> QED  BY <3>2, <3>3
  <2>3. \A l \in 1 .. Len(images) : l \in 1 .. n \/ \A m \in 1 .. n : m < l
    BY <2>1
  <2>4. LoopInv'
    <3>1. \A m \in 1 .. Len(doomed') : \E l \in 1 .. Len(images') : images'[l] = doomed'[m]
      BY <1>2, <2>2
    <3>2. \A m, o \in 1 .. Len(doomed') : m < o => Later(doomed'[o].shows, doomed'[m].shows)
      BY <2>2, ImagesSaid
    <3>3. Len(images') >= MaxImages + Len(doomed')
      BY <1>1, <1>2, <2>1, <2>2, FilesTyped, Limits
    <3>4. ASSUME NEW l \in 1 .. Len(images')
          PROVE  \/ \E m \in 1 .. Len(doomed') : images'[l] = doomed'[m]
                 \/ \A m \in 1 .. Len(doomed') : Later(images'[l].shows, doomed'[m].shows)
      <4>1. CASE l \in 1 .. n
        BY <1>2, <2>2, <4>1
      <4>2. CASE \A m \in 1 .. n : m < l
        BY <1>2, <2>2, <4>2, ImagesSaid
      <4> QED  BY <1>2, <2>3, <4>1, <4>2
    <3> QED  BY <3>1, <3>2, <3>3, <3>4 DEF LoopInv
  <2> QED  BY <1>3, <2>4 DEF ImagesInv
<1> QED  BY <1>4, <1>5

(* The rest of the loop's files.                                           *)
LEMMA RestOfTheLoop ==
  ASSUME Parts, TagInv, ImagesInv, RemoveImage
  PROVE  /\ doomed # <<>> /\ doomed' = Tail(doomed)
         /\ Len(doomed) >= 1 /\ Len(doomed') = Len(doomed) - 1
         /\ \A m \in 1 .. Len(doomed') :
              doomed'[m] = doomed[m + 1] /\ m + 1 \in 1 .. Len(doomed)
         /\ \A m \in 1 .. Len(doomed) :
              m = 1 \/ (m - 1 \in 1 .. Len(doomed') /\ doomed'[m - 1] = doomed[m])
         /\ Head(doomed) = doomed[1]
<1>1. FilesOK
  BY Zenon DEF Parts
<1>2. doomed # <<>> /\ doomed' = Tail(doomed)
  BY <1>1 DEF RemoveImage, FilesOK
<1>3. Len(doomed) >= 1 /\ Head(doomed) = doomed[1]
  BY <1>2, FirstIsTaken
<1>4. /\ Len(doomed) \in Nat /\ Len(doomed') = Len(doomed) - 1
      /\ \A m \in 1 .. Len(doomed') : doomed'[m] = doomed[m + 1]
  BY <1>1, <1>2, FilesTyped, HeadTailProperties
<1>5. \A m \in 1 .. Len(doomed') : m + 1 \in 1 .. Len(doomed)
  BY <1>4
<1>6. \A m \in 1 .. Len(doomed) :
        m = 1 \/ (m - 1 \in 1 .. Len(doomed') /\ (m - 1) + 1 = m)
  BY <1>4
<1>7. \A m \in 1 .. Len(doomed) : m = 1 \/ doomed'[m - 1] = doomed[m]
  BY <1>4, <1>6
<1> QED  BY <1>2, <1>3, <1>4, <1>5, <1>6, <1>7

(* A file that cannot be removed is noted as such.                         *)
LEMMA RemovalFailed ==
  ASSUME Parts, TagInv, ImagesInv, [RecordsNext]_recordVars, RemoveImage,
         UNCHANGED <<images, removed>>, stubborn' = stubborn \cup {doomed[1].shows}
  PROVE  ImagesInv'
<1>1. FilesOK /\ WrittenInv /\ LoopInv /\ KeptInv
  BY Zenon DEF Parts, ImagesInv
<1>2. WrittenInv' /\ KeptInv'
  BY <1>1, OrderStays DEF KeptInv
<1>3. LoopInv'
  <2>1. \A m \in 1 .. Len(doomed') : \E l \in 1 .. Len(images') : images'[l] = doomed'[m]
    BY <1>1, RestOfTheLoop DEF LoopInv
  <2>2. \A m, o \in 1 .. Len(doomed') : m < o => Later(doomed'[o].shows, doomed'[m].shows)
    <3>1. \A m, o \in 1 .. Len(doomed') : m < o => m + 1 < o + 1
      OBVIOUS
    <3> QED  BY <1>1, <3>1, RestOfTheLoop DEF LoopInv
  <2>3. Len(images') >= MaxImages + Len(doomed')
    BY <1>1, RestOfTheLoop, FilesTyped, Limits DEF LoopInv
  <2>4. ASSUME NEW l \in 1 .. Len(images')
        PROVE  \/ images'[l].shows \in stubborn'
               \/ \E m \in 1 .. Len(doomed') : images'[l] = doomed'[m]
               \/ \A m \in 1 .. Len(doomed') : Later(images'[l].shows, doomed'[m].shows)
    <3>1. CASE \E m \in 1 .. Len(doomed) : images[l] = doomed[m]
      BY <3>1, RestOfTheLoop
    <3>2. CASE \A m \in 1 .. Len(doomed) : Later(images[l].shows, doomed[m].shows)
      BY <3>2, RestOfTheLoop
    <3> QED  BY <1>1, <3>1, <3>2 DEF LoopInv
  <2> QED  BY <2>1, <2>2, <2>3, <2>4 DEF LoopInv
<1> QED  BY <1>2, <1>3 DEF ImagesInv

(* A file that is removed is the oldest of those that are not stubborn.    *)
LEMMA RemovalDone ==
  ASSUME Parts, TagInv, ImagesInv, [RecordsNext]_recordVars, RemoveImage, stubborn' = stubborn,
         images' = Without(doomed[1].name),
         removed' = IF Later(doomed[1].shows, removed) THEN doomed[1].shows ELSE removed
  PROVE  ImagesInv'
<1> DEFINE first == doomed[1].shows
           before(j, k) == IF j < k THEN j ELSE j + 1
<1>1. FilesOK /\ WrittenInv /\ LoopInv /\ KeptInv
  BY Zenon DEF Parts, ImagesInv
<1>2. PICK k \in 1 .. Len(images) :
        /\ images[k] = doomed[1]
        /\ Len(images') = Len(images) - 1
        /\ \A j \in 1 .. Len(images) - 1 : images'[j] = images[before(j, k)]
  BY FirstIsTaken, RestOfTheLoop
<1>3. Len(images) \in Nat /\ Len(doomed) \in Nat /\ 1 \in 1 .. Len(doomed)
  BY <1>1, FilesTyped, RestOfTheLoop
(* The images that are left, and where they were.                          *)
<1>4. \A j \in 1 .. Len(images') :
        /\ before(j, k) \in 1 .. Len(images) /\ before(j, k) # k
        /\ images'[j] = images[before(j, k)]
  BY <1>2, <1>3
<1>5. \A i, j \in 1 .. Len(images') : i < j => before(i, k) < before(j, k)
  BY <1>2, <1>3
<1>6. \A l \in 1 .. Len(images) :
        l = k \/ \E j \in 1 .. Len(images') : images'[j] = images[l]
  <2>1. ASSUME NEW l \in 1 .. Len(images), l # k
        PROVE  \E j \in 1 .. Len(images') : before(j, k) = l
    <3>1. CASE l < k
      BY <1>2, <1>3, <3>1
    <3>2. CASE l > k
      <4>1. l - 1 \in 1 .. Len(images') /\ before(l - 1, k) = l
        BY <1>2, <1>3, <3>2
      <4> QED  BY <4>1
    <3> QED  BY <2>1, <3>1, <3>2
  <2> QED  BY <1>4, <2>1
<1> HIDE DEF before
<1>7. first \in FrameNumbers /\ first[2] >= 1 /\ Past(first) /\ removed \in FrameNumbers
  BY <1>1, <1>2, FilesTyped, ImagesSaid
<1> HIDE DEF first
<1>8. removed' = IF Later(first, removed) THEN first ELSE removed
  BY DEF first
(* Each of them is stubborn or later than the file that is gone.           *)
<1>9. \A l \in 1 .. Len(images) :
        l # k => images[l].shows \in stubborn \/ Later(images[l].shows, first)
  <2> SUFFICES ASSUME NEW l \in 1 .. Len(images), l # k, images[l].shows \notin stubborn
               PROVE  Later(images[l].shows, first)
    OBVIOUS
  <2>1. CASE \A m \in 1 .. Len(doomed) : Later(images[l].shows, doomed[m].shows)
    BY <1>3, <2>1 DEF first
  <2>2. CASE \E m \in 1 .. Len(doomed) : images[l] = doomed[m]
    <3>1. PICK m \in 1 .. Len(doomed) : images[l] = doomed[m]
      BY <2>2
    <3>2. images[l] # images[k]
      BY <1>1, <1>2, FilesTyped, ImagesSaid, LaterOrders
    <3>3. 1 < m
      BY <1>2, <1>3, <3>1, <3>2
    <3> QED  BY <1>1, <1>3, <3>1, <3>3 DEF LoopInv, first
  <2> QED  BY <1>1, <2>1, <2>2 DEF LoopInv
<1>10. WrittenInv'
  <2>1. ASSUME NEW p \in FrameNumbers,
               p = removed' \/ \E j \in 1 .. Len(images') : images'[j].shows = p
        PROVE  Past(p)'
    <3>1. p = first \/ p = removed \/ \E l \in 1 .. Len(images) : images[l].shows = p
      BY <1>4, <1>8, <2>1
    <3>2. Past(p)
      BY <1>1, <1>7, <3>1 DEF WrittenInv
    <3> QED  BY <3>2, PastStays
  <2>2. \A j \in 1 .. Len(images') : images'[j].shows[2] >= 1
    BY <1>4, ImagesSaid
  <2>3. \A i, j \in 1 .. Len(images') : i < j => Later(images'[j].shows, images'[i].shows)
    BY <1>4, <1>5, ImagesSaid
  <2> QED  BY <2>1, <2>2, <2>3 DEF WrittenInv
<1>11. LoopInv'
  <2>1. ASSUME NEW m \in 1 .. Len(doomed')
        PROVE  \E j \in 1 .. Len(images') : images'[j] = doomed'[m]
    <3>1. doomed'[m] = doomed[m + 1] /\ m + 1 \in 1 .. Len(doomed) /\ 1 < m + 1
      BY RestOfTheLoop
    <3>2. PICK l \in 1 .. Len(images) : images[l] = doomed[m + 1]
      BY <1>1, <3>1 DEF LoopInv
    <3>3. Later(doomed[m + 1].shows, first)
      BY <1>1, <1>3, <3>1 DEF LoopInv, first
    <3>4. l # k
      BY <1>2, <1>7, <3>2, <3>3, LaterOrders DEF first
    <3> QED  BY <1>6, <3>1, <3>2, <3>4
  <2>2. \A m, o \in 1 .. Len(doomed') : m < o => Later(doomed'[o].shows, doomed'[m].shows)
    <3>1. \A m, o \in 1 .. Len(doomed') : m < o => m + 1 < o + 1
      OBVIOUS
    <3> QED  BY <1>1, <3>1, RestOfTheLoop DEF LoopInv
  <2>3. Len(images') >= MaxImages + Len(doomed')
    BY <1>1, <1>2, <1>3, RestOfTheLoop, Limits DEF LoopInv
  <2>4. ASSUME NEW j \in 1 .. Len(images')
        PROVE  \/ images'[j].shows \in stubborn'
               \/ \E m \in 1 .. Len(doomed') : images'[j] = doomed'[m]
               \/ \A m \in 1 .. Len(doomed') : Later(images'[j].shows, doomed'[m].shows)
    <3>1. PICK l \in 1 .. Len(images) : l # k /\ images'[j] = images[l]
      BY <1>4
    <3>2. CASE \A m \in 1 .. Len(doomed) : Later(images[l].shows, doomed[m].shows)
      BY <3>1, <3>2, RestOfTheLoop
    <3>3. CASE \E m \in 1 .. Len(doomed) : images[l] = doomed[m]
      <4>1. images[l] # images[k]
        BY <1>1, <1>2, <3>1, FilesTyped, ImagesSaid, LaterOrders
      <4> QED  BY <1>2, <3>1, <3>3, <4>1, RestOfTheLoop
    <3> QED  BY <1>1, <3>1, <3>2, <3>3 DEF LoopInv
  <2> QED  BY <2>1, <2>2, <2>3, <2>4 DEF LoopInv
<1>12. KeptInv'
  <2>1. Len(images') >= MaxImages
    BY <1>1, <1>2, <1>3, RestOfTheLoop, Limits DEF LoopInv
  <2>2. ASSUME NEW l \in 1 .. Len(images), l # k
        PROVE  images[l].shows \in stubborn \/ Later(images[l].shows, removed')
    <3>1. CASE Later(first, removed)
      BY <1>8, <1>9, <2>2, <3>1
    <3>2. CASE ~Later(first, removed)
      <4>1. removed' = removed /\ removed # NoFrame
        BY <1>7, <1>8, <3>2, LaterOrders
      <4> QED  BY <1>1, <4>1 DEF KeptInv
    <3> QED  BY <3>1, <3>2
  <2> QED  BY <1>4, <2>1, <2>2 DEF KeptInv
<1> QED  BY <1>10, <1>11, <1>12 DEF ImagesInv

LEMMA ImagesStep ==
  ASSUME Parts, TagInv, ImagesInv, FilesOK', [RecordsNext]_recordVars
  PROVE  ImagesInv'
<1>1. FilesOK /\ WrittenInv /\ LoopInv /\ KeptInv
  BY Zenon DEF Parts, ImagesInv
<1>2. CASE UNCHANGED fileVars
  BY <1>1, <1>2, OrderStays DEF fileVars, LoopInv, KeptInv, ImagesInv
<1>3. CASE EndProcess
  <2>1. images' = images /\ removed' = removed /\ stubborn' = stubborn /\ doomed' = <<>>
    BY <1>3 DEF EndProcess
  <2>2. WrittenInv'
    BY <2>1, OrderStays
  <2>3. LoopInv' /\ KeptInv'
    BY <1>1, <2>1, EmptySeq DEF LoopInv, KeptInv
  <2> QED  BY <2>2, <2>3 DEF ImagesInv
<1>4. CASE RemoveImage
  <2>1. Head(doomed) = doomed[1]
    BY <1>4, RestOfTheLoop
  <2> QED  BY <1>4, <2>1, RemovalDone, RemovalFailed DEF RemoveImage
<1> QED  BY <1>2, <1>3, <1>4, ImagesSaved, ImagesListed, FilesMove

(* The pruning of the images keeps the newest: what it has removed is      *)
(* older than whatever is left, except for files that could not be         *)
(* removed, and it never leaves fewer than max_defect_images.              *)
THEOREM NewestAreKept == RecordsSpec => []NewestImagesKept
<1>1. RecordsInit => ImagesInv
  <2> SUFFICES ASSUME RecordsInit PROVE ImagesInv
    OBVIOUS
  <2>1. /\ images = <<>> /\ doomed = <<>> /\ removed = NoFrame /\ run = 0 /\ step = "down"
        /\ Len(images) = 0 /\ Len(doomed) = 0
    BY EmptySeq DEF RecordsInit
  <2> QED  BY <2>1 DEF ImagesInv, WrittenInv, LoopInv, KeptInv, Past, NoFrame
<1>2. Parts /\ Parts' /\ TagInv /\ ImagesInv /\ [RecordsNext]_recordVars => ImagesInv'
  BY ImagesStep, Zenon DEF Parts
<1>3. Parts /\ ImagesInv => NewestImagesKept
  <2> SUFFICES ASSUME Parts, ImagesInv PROVE NewestImagesKept
    OBVIOUS
  <2>1. images \in Seq(FileTypes) /\ KeptInv
    BY Zenon DEF Parts, FilesOK, ImagesInv
  <2>2. DOMAIN images = 1 .. Len(images)
    BY <2>1, LenProperties
  <2> QED  BY <2>1, <2>2 DEF NewestImagesKept, KeptInv, ToSet
<1> QED  BY <1>1, <1>2, <1>3, PartsHold, TagsInductive, PTL DEF RecordsSpec

-----------------------------------------------------------------------------
(* How the number of rows of some kind moves.                              *)
LEMMA CountsMove ==
  ASSUME NEW S \in SUBSET Inspections, NEW T \in SUBSET Inspections,
         NEW P \in SUBSET Inspections
  PROVE  /\ Cardinality(S \cap P) \in Nat /\ Cardinality(T \cap P) \in Nat
         /\ Cardinality(T \ S) \in Nat /\ Cardinality(S \ T) \in Nat
         /\ Cardinality(T \cap P) <= Cardinality(S \cap P) + Cardinality(T \ S)
         /\ Cardinality(T \cap P) >= Cardinality(S \cap P) - Cardinality(S \ T)
<1>1. ASSUME NEW A \in SUBSET Inspections, NEW B \in SUBSET Inspections
      PROVE  Cardinality(B \cap P) <= Cardinality(A \cap P) + Cardinality(B \ A)
  <2>1. /\ IsFiniteSet(A \cap P) /\ Cardinality(A \cap P) \in Nat
        /\ IsFiniteSet(B \ A) /\ Cardinality(B \ A) \in Nat
    <3>1. A \cap P \in SUBSET Inspections /\ B \ A \in SUBSET Inspections
      OBVIOUS
    <3> QED  BY <3>1, SetsOfInspections
  <2>2. /\ IsFiniteSet((A \cap P) \cup (B \ A))
        /\ Cardinality((A \cap P) \cup (B \ A)) =
             Cardinality(A \cap P) + Cardinality(B \ A) - Cardinality((A \cap P) \cap (B \ A))
    BY <2>1, FS_Union
  <2>3. (A \cap P) \cap (B \ A) = {}
    OBVIOUS
  <2>4. Cardinality((A \cap P) \cup (B \ A)) = Cardinality(A \cap P) + Cardinality(B \ A)
    <3>1. Cardinality((A \cap P) \cap (B \ A)) = 0
      BY <2>3, FS_EmptySet
    <3> QED  BY <2>1, <2>2, <3>1
  <2>5. B \cap P \in SUBSET ((A \cap P) \cup (B \ A))
    OBVIOUS
  <2>6. Cardinality(B \cap P) <= Cardinality((A \cap P) \cup (B \ A))
    BY <2>2, <2>5, FS_Subset
  <2> QED  BY <2>4, <2>6
<1>2. /\ Cardinality(S \cap P) \in Nat /\ Cardinality(T \cap P) \in Nat
      /\ Cardinality(T \ S) \in Nat /\ Cardinality(S \ T) \in Nat
  <2>1. /\ S \cap P \in SUBSET Inspections /\ T \cap P \in SUBSET Inspections
        /\ T \ S \in SUBSET Inspections /\ S \ T \in SUBSET Inspections
    OBVIOUS
  <2> QED  BY <2>1, SetsOfInspections
<1>3. /\ Cardinality(T \cap P) <= Cardinality(S \cap P) + Cardinality(T \ S)
      /\ Cardinality(S \cap P) <= Cardinality(T \cap P) + Cardinality(S \ T)
  BY <1>1
<1> QED  BY <1>2, <1>3

(* Rejects and passes add up to the inspections.                           *)
Rejects == RowsOf(TRUE)
Passes == RowsOf(FALSE)

LEMMA RowsAddUp ==
  ASSUME TypeOK
  PROVE  /\ Rejects \in Nat /\ Passes \in Nat
         /\ Rejects + Passes = Cardinality(db.inspections)
<1> DEFINE S == {i \in db.inspections : (size[i] > 0) = TRUE}
           T == {i \in db.inspections : (size[i] > 0) = FALSE}
<1>1. db.inspections \in SUBSET Inspections
  <2>1. db \in Tables
    BY Zenon DEF TypeOK
  <2> QED  BY <2>1, TypedTables
<1>2. S \cap T = {} /\ S \cup T = db.inspections
  <2>1. ASSUME NEW b \in BOOLEAN PROVE (b = TRUE \/ b = FALSE) /\ ~(b = TRUE /\ b = FALSE)
    OBVIOUS
  <2>2. ASSUME NEW i \in db.inspections PROVE (size[i] > 0) \in BOOLEAN
    <3>1. size[i] \in 0 .. MaxDetections
      BY <1>1 DEF TypeOK
    <3> QED  BY <3>1, Limits
  <2> QED  BY <2>1, <2>2, Zenon
<1>3. S \in SUBSET Inspections /\ T \in SUBSET Inspections
  BY <1>1
<1>4. Rejects = Cardinality(S) /\ Passes = Cardinality(T)
  BY DEF Rejects, Passes, RowsOf
<1> HIDE DEF S, T
<1>5. Cardinality(S \cup T) = Cardinality(S) + Cardinality(T) - Cardinality({})
  BY <1>2, <1>3, SetsOfInspections, FS_Union
<1>6. Cardinality({}) = 0 /\ Cardinality(S) \in Nat /\ Cardinality(T) \in Nat
  BY <1>3, SetsOfInspections, FS_EmptySet
<1>7. Cardinality(db.inspections) = Cardinality(S) + Cardinality(T) - Cardinality({})
  BY <1>2, <1>5, Zenon
<1> QED  BY <1>4, <1>6, <1>7

(* The size of an inspection is settled before its row is committed.       *)
LEMMA SizesAreSettled ==
  ASSUME TypeOK, ViewInv, TypeOK', [Next]_vars,
         NEW i \in Inspections, i \in db.inspections \/ i \in db'.inspections
  PROVE  size'[i] = size[i]
<1>1. ASSUME NEW k, BeginInsert(k) PROVE size'[i] = size[i]
  <2>1. calls \in Nat /\ calls + 1 \in Nat /\ calls + 1 > calls
    BY Limits DEF TypeOK
  <2>2. i \in db.inspections
    BY <1>1 DEF BeginInsert
  <2>3. i # calls + 1
    BY <2>1, <2>2 DEF ViewInv, Untouched
  <2>4. size \in [Inspections -> 0 .. MaxDetections]
    BY Zenon DEF TypeOK
  <2> QED  BY <1>1, <2>3, <2>4 DEF BeginInsert
<1>2. CASE Open \/ Close \/ Crash \/ InsertInspection \/ InsertDetection \/ InsertFails
  BY <1>2 DEF Open, Close, Crash, InsertInspection, InsertDetection, InsertFails, opVars
<1>3. CASE Commit \/ PruneCount \/ DeleteDetections \/ DeleteInspections \/ UNCHANGED vars
  BY <1>3 DEF Commit, PruneCount, DeleteDetections, DeleteInspections, opVars, vars
<1> QED  BY <1>1, <1>2, <1>3 DEF Next

(* While the dashboard counts, what it has yet to count is within its      *)
(* bounds.                                                                 *)
CountInv ==
  /\ request.asks = "rejects" =>
       Cardinality(db.inspections) \in request.least .. request.most
  /\ request.asks = "passed" => Passes \in request.least .. request.most

LEMMA RowsMove ==
  ASSUME TypeOK, ViewInv, TypeOK', [Next]_vars
  PROVE  LET new == Cardinality(db'.inspections \ db.inspections)
             gone == Cardinality(db.inspections \ db'.inspections)
         IN  /\ new \in Nat /\ gone \in Nat
             /\ Cardinality(db'.inspections) \in Nat /\ Passes' \in Nat
             /\ Cardinality(db'.inspections) <= Cardinality(db.inspections) + new
             /\ Cardinality(db'.inspections) >= Cardinality(db.inspections) - gone
             /\ Passes' <= Passes + new
             /\ Passes' >= Passes - gone
<1> DEFINE S == db.inspections
           T == db'.inspections
           P == {i \in Inspections : (size[i] > 0) = FALSE}
<1>1. S \in SUBSET Inspections /\ T \in SUBSET Inspections /\ P \in SUBSET Inspections
  <2>1. db \in Tables /\ db' \in Tables
    BY Zenon DEF TypeOK
  <2> QED  BY <2>1, TypedTables
<1>2. S \cap Inspections = S /\ T \cap Inspections = T
  BY <1>1
<1>3. Passes = Cardinality(S \cap P)
  <2>1. {i \in db.inspections : (size[i] > 0) = FALSE} = S \cap P
    BY <1>1
  <2> QED  BY <2>1 DEF Rejects, Passes, RowsOf
<1>4. Passes' = Cardinality(T \cap P)
  <2>1. {i \in db'.inspections : (size'[i] > 0) = FALSE} = T \cap P
    BY <1>1, SizesAreSettled
  <2> QED  BY <2>1 DEF Rejects, Passes, RowsOf
<1> HIDE DEF S, T, P
<1>5. /\ Cardinality(T \ S) \in Nat /\ Cardinality(S \ T) \in Nat
      /\ Cardinality(T) \in Nat /\ Cardinality(T \cap P) \in Nat
      /\ Cardinality(T \cap P) <= Cardinality(S \cap P) + Cardinality(T \ S)
      /\ Cardinality(T \cap P) >= Cardinality(S \cap P) - Cardinality(S \ T)
  BY <1>1, CountsMove, SetsOfInspections
<1>6. /\ Cardinality(T) <= Cardinality(S) + Cardinality(T \ S)
      /\ Cardinality(T) >= Cardinality(S) - Cardinality(S \ T)
  <2>1. Inspections \in SUBSET Inspections
    OBVIOUS
  <2>2. /\ Cardinality(T \cap Inspections) <=
             Cardinality(S \cap Inspections) + Cardinality(T \ S)
        /\ Cardinality(T \cap Inspections) >=
             Cardinality(S \cap Inspections) - Cardinality(S \ T)
    BY <1>1, <2>1, CountsMove
  <2> QED  BY <1>2, <2>2
<1> QED  BY <1>3, <1>4, <1>5, <1>6 DEF S, T

LEMMA CountsHold ==
  ASSUME Parts, TypeOK', CountInv, [RecordsNext]_recordVars
  PROVE  CountInv'
<1>1. TypeOK /\ ViewInv /\ FoundInv /\ request \in RequestTypes
  BY Zenon DEF Parts, RequestOK
<1>2. ASSUME Noted PROVE CountInv'
  <2>1. CASE request.asks \in {"rejects", "passed"}
    <3> DEFINE new == Cardinality(db'.inspections \ db.inspections)
               gone == Cardinality(db.inspections \ db'.inspections)
    <3>1. PICK a \in {"rejects", "passed"}, m \in Int, l \in Int :
            request = [asks |-> a, most |-> m, least |-> l]
      BY <1>1, <2>1, CountingRequest
    <3>2. request' = [request EXCEPT !.most = @ + new, !.least = @ - gone]
      BY <1>2, <2>1 DEF Noted
    <3>3. /\ new \in Nat /\ gone \in Nat
          /\ Cardinality(db'.inspections) \in Nat /\ Passes' \in Nat
          /\ Cardinality(db'.inspections) <= Cardinality(db.inspections) + new
          /\ Cardinality(db'.inspections) >= Cardinality(db.inspections) - gone
          /\ Passes' <= Passes + new
          /\ Passes' >= Passes - gone
      BY <1>1, StepsOfTheDatabase, RowsMove
    <3> HIDE DEF new, gone
    <3>4. request' = [asks |-> a, most |-> m + new, least |-> l - gone]
      BY <3>1, <3>2
    <3>5. request'.asks = a /\ request'.most = m + new /\ request'.least = l - gone
      BY <3>4
    <3>6. /\ Cardinality(db.inspections) \in Nat /\ Passes \in Nat
          /\ a = "rejects" => l <= Cardinality(db.inspections) /\ Cardinality(db.inspections) <= m
          /\ a = "passed" => l <= Passes /\ Passes <= m
      <4>1. request.asks = a /\ request.most = m /\ request.least = l
        BY <3>1
      <4>2. Cardinality(db.inspections) \in Nat /\ Passes \in Nat
        BY <1>1, RowsAddUp, RowsCounted
      <4> QED  BY <4>1, <4>2 DEF CountInv
    <3>7. a = "rejects" => Cardinality(db'.inspections) \in request'.least .. request'.most
      BY <3>3, <3>5, <3>6
    <3>8. a = "passed" => Passes' \in request'.least .. request'.most
      BY <3>3, <3>5, <3>6
    <3> QED  BY <3>5, <3>7, <3>8 DEF CountInv
  <2>2. CASE request.asks \notin {"rejects", "passed"}
    BY <1>2, <2>2 DEF Noted, CountInv
  <2> QED  BY <2>1, <2>2
<1>3. CASE Pipeline
  <2>1. Noted
    BY <1>3 DEF Pipeline, StartProcess, EndProcess, SaveImage, StoreResult, Insert,
       FrameDone, PruneRows, DeleteRows, ListImages, RemoveImage
  <2> QED  BY <1>2, <2>1
<1>4. CASE AskStats
  <2> DEFINE rows == Cardinality(db.inspections)
  <2>1. rows \in Nat /\ db' = db
    BY <1>1, <1>4, RowsCounted DEF AskStats, dbVars, vars, txVars
  <2>2. request' = [asks |-> "rejects", most |-> rows, least |-> rows]
    BY <1>4 DEF AskStats
  <2> HIDE DEF rows
  <2>3. request'.asks = "rejects" /\ request'.most = rows /\ request'.least = rows
    BY <2>2
  <2>4. rows \in request'.least .. request'.most
    BY <2>1, <2>3
  <2> QED  BY <2>1, <2>3, <2>4 DEF CountInv, rows
<1>5. CASE CountRejects
  <2>1. request.asks = "rejects" /\ UNCHANGED <<db, size>>
    BY <1>5 DEF CountRejects, dbVars, vars, txVars, opVars
  <2>2. Passes' = Passes
    BY <2>1 DEF Rejects, Passes, RowsOf
  <2>3. PICK a \in {"rejects", "passed"}, m \in Int, l \in Int :
          request = [asks |-> a, most |-> m, least |-> l]
    BY <1>1, <2>1, CountingRequest
  <2>4. request.most = m /\ request.least = l
    BY <2>3
  <2>5. /\ request'.asks = "passed" /\ request'.most = m - Rejects
        /\ request'.least = l - Rejects
    BY <1>5, <2>4 DEF CountRejects, Rejects
  <2>6. Cardinality(db.inspections) \in l .. m
    BY <2>1, <2>4 DEF CountInv
  <2>7. ASSUME NEW r \in Nat, NEW p \in Nat, r + p = Cardinality(db.inspections)
        PROVE  p \in l - r .. m - r
    BY <2>6, <2>7
  <2>8. Passes \in l - Rejects .. m - Rejects
    BY <1>1, <2>7, RowsAddUp
  <2> QED  BY <2>2, <2>5, <2>8 DEF CountInv
<1>6. CASE CountPassed \/ Answered
  <2>1. request'.asks \in {"stats", "nothing"}
    BY <1>6, AskedNext
  <2> QED  BY <2>1 DEF CountInv
<1>7. ASSUME NEW i, AskImage(i) \/ SendImage PROVE CountInv'
  <2>1. request'.asks \in {"image", "sent"}
    BY <1>7 DEF AskImage, SendImage
  <2> QED  BY <2>1 DEF CountInv
<1>8. CASE UNCHANGED recordVars
  <2>1. UNCHANGED <<request, db, size>>
    BY <1>8 DEF recordVars, dbVars, vars, txVars, opVars
  <2>2. Passes' = Passes
    BY <2>1 DEF Rejects, Passes, RowsOf
  <2> QED  BY <2>1, <2>2 DEF CountInv
<1> QED  BY <1>3, <1>4, <1>5, <1>6, <1>7, <1>8 DEF RecordsNext, Dashboard

(* The three counts of /api/stats come from three moments, so that rejects *)
(* and passes need not add up to the total; they are off by no more than   *)
(* the rows that came and went in between, whatever was inserted, pruned   *)
(* or lost by a crash meanwhile.                                           *)
THEOREM StatsWithinCommits == RecordsSpec => []AnswerWithinCommits
<1>1. RecordsInit => CountInv /\ AnswerWithinCommits
  BY DEF RecordsInit, CountInv, AnswerWithinCommits, NoRequest
<1>2. Parts /\ TypeOK' /\ CountInv /\ [RecordsNext]_recordVars => CountInv'
  BY CountsHold
<1>3. CountInv /\ AnswerWithinCommits /\ Parts /\ [RecordsNext]_recordVars
        => AnswerWithinCommits'
  <2> SUFFICES ASSUME CountInv, AnswerWithinCommits, Parts, [RecordsNext]_recordVars,
                      request'.asks = "stats"
               PROVE  request'.passed \in request'.least .. request'.most
    BY DEF AnswerWithinCommits
  <2>1. CASE CountPassed
    <3>1. request.asks = "passed"
      BY <2>1 DEF CountPassed
    <3>2. /\ request'.passed = Passes /\ request'.least = request.least
          /\ request'.most = request.most
      BY <2>1 DEF CountPassed, Passes
    <3> QED  BY <3>1, <3>2 DEF CountInv
  <2>2. CASE AskStats \/ CountRejects \/ Answered
    BY <2>2, AskedNext
  <2>3. ASSUME NEW i, AskImage(i) \/ SendImage PROVE FALSE
    BY <2>3 DEF AskImage, SendImage
  <2>4. CASE Pipeline
    <3>1. Noted
      BY <2>4 DEF Pipeline, StartProcess, EndProcess, SaveImage, StoreResult, Insert,
         FrameDone, PruneRows, DeleteRows, ListImages, RemoveImage
    <3>2. request \in RequestTypes
      BY Zenon DEF Parts, RequestOK
    <3>3. CASE request.asks \in {"rejects", "passed"}
      <4>1. request'.asks = request.asks
        BY <3>1, <3>2, <3>3, CountingRequest DEF Noted
      <4> QED  BY <3>3, <4>1
    <3>4. CASE request' = request
      BY <3>4 DEF AnswerWithinCommits
    <3> QED  BY <3>1, <3>3, <3>4 DEF Noted
  <2>5. CASE UNCHANGED recordVars
    BY <2>5 DEF recordVars, AnswerWithinCommits
  <2> QED  BY <2>1, <2>2, <2>3, <2>4, <2>5 DEF RecordsNext, Dashboard
<1>4. Parts => TypeOK
  BY Zenon DEF Parts
<1> QED  BY <1>1, <1>2, <1>3, <1>4, PartsHold, PTL DEF RecordsSpec
=============================================================================
