------------------------ MODULE DefectDatabaseProofs ------------------------
(***************************************************************************)
(* Proofs about DefectDatabase, for every number of inserts and detections *)
(* and every limit that prune() is called with.                            *)
(***************************************************************************)
EXTENDS DefectDatabase, FiniteSetTheorems, WellFoundedInduction, TLAPS

LEMMA SetsOfInspections ==
  ASSUME NEW S \in SUBSET Inspections
  PROVE  /\ IsFiniteSet(S) /\ Cardinality(S) \in Nat /\ Cardinality(S) <= MaxInserts
         /\ \A i \in S : i \in Nat
<1>1. MaxInserts \in Nat
  BY BoundsAssumption
<1>2. IsFiniteSet(Inspections) /\ Cardinality(Inspections) = MaxInserts
  BY <1>1, FS_Interval DEF Inspections
<1>3. IsFiniteSet(S) /\ Cardinality(S) <= Cardinality(Inspections)
  BY <1>2, FS_Subset
<1> QED  BY <1>1, <1>2, <1>3, FS_CardinalityType DEF Inspections

(* What the three writing statements make of a pair of tables.             *)
LEMMA TablesWithInspection ==
  ASSUME NEW t \in Tables, NEW i \in Inspections, NEW u,
         u = [t EXCEPT !.inspections = @ \cup {i}]
  PROVE  /\ u \in Tables
         /\ u.inspections = t.inspections \cup {i} /\ u.detections = t.detections
BY DEF Tables

LEMMA TablesWithDetection ==
  ASSUME NEW t \in Tables, NEW i \in Inspections,
         t.detections[i] + 1 \in 0 .. MaxDetections
  PROVE  LET u == [t EXCEPT !.detections[i] = @ + 1]
         IN  /\ u \in Tables
             /\ u.inspections = t.inspections
             /\ u.detections[i] = t.detections[i] + 1
             /\ \A j \in Inspections \ {i} : u.detections[j] = t.detections[j]
BY DEF Tables

LEMMA TablesWithoutDetections ==
  ASSUME NEW t \in Tables, NEW old, NEW u,
         u = [t EXCEPT !.detections = [i \in Inspections |-> IF i \in old THEN 0 ELSE @[i]]]
  PROVE  /\ u \in Tables
         /\ u.inspections = t.inspections
         /\ \A i \in Inspections :
              u.detections[i] = IF i \in old THEN 0 ELSE t.detections[i]
<1>1. 0 \in 0 .. MaxDetections
  BY BoundsAssumption
<1> QED  BY <1>1 DEF Tables

LEMMA TablesWithoutInspections ==
  ASSUME NEW t \in Tables, NEW old, NEW u,
         u = [t EXCEPT !.inspections = @ \ old]
  PROVE  /\ u \in Tables
         /\ u.inspections = t.inspections \ old /\ u.detections = t.detections
BY DEF Tables

LEMMA TypedTables ==
  ASSUME NEW t \in Tables
  PROVE  /\ t.inspections \in SUBSET Inspections
         /\ t.detections \in [Inspections -> 0 .. MaxDetections]
         /\ \A i \in Inspections : t.detections[i] \in Nat
<1>1. /\ t.inspections \in SUBSET Inspections
      /\ t.detections \in [Inspections -> 0 .. MaxDetections]
  BY DEF Tables
<1> QED  BY <1>1, BoundsAssumption

LEMMA OneDetectionLess ==
  ASSUME NEW d \in Nat, NEW n \in 0 .. MaxDetections, NEW s \in 0 .. MaxDetections,
         n > 0, d + n = s
  PROVE  /\ d + 1 \in 0 .. MaxDetections /\ n - 1 \in 0 .. MaxDetections
         /\ (d + 1) + (n - 1) = s /\ (n - 1 > 0 \/ n - 1 = 0)
BY BoundsAssumption

LEMMA SomeOverTheLimit ==
  ASSUME NEW n \in Nat, n <= MaxInserts, n > MaxRecords
  PROVE  n - MaxRecords \in 0 .. MaxInserts
BY BoundsAssumption

-----------------------------------------------------------------------------
(* The connection between the view and the committed tables: they differ   *)
(* only inside a transaction, and inside insert_result() only in the rows  *)
(* of the current inspection, of which `left` detections are missing.      *)
Writing == {"insert inspection", "insert detection", "commit"}

Untouched(t, i) == i \notin t.inspections /\ t.detections[i] = 0

ViewInv ==
  /\ ~inTx => view = db
  /\ at = "closed" => ~inTx
  /\ \A i \in Inspections : i > calls => Untouched(view, i) /\ Untouched(db, i)
  /\ at \in Writing =>
       /\ inTx /\ calls \in Inspections
       /\ Untouched(db, calls)
       /\ view.inspections \ {calls} = db.inspections
       /\ \A i \in Inspections \ {calls} : view.detections[i] = db.detections[i]
       /\ view.detections[calls] + left = size[calls]
  /\ at = "insert inspection" => Untouched(view, calls)
  /\ at = "insert detection" => calls \in view.inspections /\ left > 0
  /\ at = "commit" => calls \in view.inspections /\ left = 0

LEMMA TypeAndView == Spec => [](TypeOK /\ ViewInv)
<1>1. Init => TypeOK /\ ViewInv
  <2> SUFFICES ASSUME Init PROVE TypeOK /\ ViewInv
    OBVIOUS
  <2>1. 0 \in 0 .. MaxDetections /\ 0 \in 0 .. MaxInserts
    BY BoundsAssumption
  <2>2. /\ Empty \in Tables /\ Empty.inspections = {}
        /\ \A i \in Inspections : Empty.detections[i] = 0
    BY <2>1 DEF Empty, Tables
  <2>3. /\ at = "closed" /\ db = Empty /\ view = Empty /\ calls = 0 /\ left = 0
        /\ toDelete = 0 /\ size = [i \in Inspections |-> 0]
        /\ acked = {} /\ deleted = {}
    BY DEF Init
  <2>4. inTx = FALSE /\ failedCommit = FALSE /\ failedDelete = FALSE /\ cutShort = FALSE
    BY DEF Init
  <2>5. /\ inTx \in BOOLEAN /\ failedCommit \in BOOLEAN
        /\ failedDelete \in BOOLEAN /\ cutShort \in BOOLEAN
    BY <2>4, Zenon
  <2>6. TypeOK
    BY <2>1, <2>2, <2>3, <2>5 DEF TypeOK
  <2>7. ViewInv
    BY <2>2, <2>3, <2>4 DEF ViewInv, Untouched, Writing
  <2> QED  BY <2>6, <2>7
<1>2. TypeOK /\ ViewInv /\ [Next]_vars => TypeOK' /\ ViewInv'
  <2> SUFFICES ASSUME TypeOK, ViewInv, [Next]_vars
               PROVE  TypeOK' /\ ViewInv'
    OBVIOUS
  <2>1. /\ db \in Tables /\ view \in Tables
        /\ calls \in 0 .. MaxInserts /\ MaxInserts \in Nat
        /\ left \in 0 .. MaxDetections /\ toDelete \in 0 .. MaxInserts
        /\ MaxDetections \in Nat /\ MaxRecords \in Nat \ {0}
        /\ size \in [Inspections -> 0 .. MaxDetections]
        /\ acked \subseteq Inspections /\ deleted \subseteq Inspections
        /\ 0 \in 0 .. MaxInserts /\ 0 \in 0 .. MaxDetections
        /\ \A i : i \in Inspections <=> i \in Nat /\ 1 <= i /\ i <= MaxInserts
    BY BoundsAssumption DEF TypeOK, Inspections
  <2>a. db \in Tables /\ view \in Tables
    BY <2>1
  <2>b. /\ calls \in Nat /\ MaxInserts \in Nat
        /\ \A i : i \in Inspections <=> i \in Nat /\ 1 <= i /\ i <= MaxInserts
    BY <2>1
  <2>2. /\ inTx \in BOOLEAN /\ failedCommit \in BOOLEAN
        /\ failedDelete \in BOOLEAN /\ cutShort \in BOOLEAN
    BY DEF TypeOK
  <2>3. /\ inTx' \in BOOLEAN /\ failedCommit' \in BOOLEAN
        /\ failedDelete' \in BOOLEAN /\ cutShort' \in BOOLEAN
    <3>1. inTx' \in {inTx, TRUE, FALSE} /\ failedCommit' \in {failedCommit, TRUE}
          /\ failedDelete' \in {failedDelete, TRUE}
      BY Zenon DEF Next, Open, Close, Crash, BeginInsert, InsertInspection,
         InsertDetection, InsertFails, Commit, PruneCount, DeleteDetections,
         DeleteInspections, Execute, Rollback, vars, txVars, opVars, histVars
    <3>2. cutShort' \in {cutShort, TRUE, FALSE}
      BY Zenon DEF Next, Open, Close, Crash, BeginInsert, InsertInspection,
         InsertDetection, InsertFails, Commit, PruneCount, DeleteDetections,
         DeleteInspections, Execute, Rollback, vars, txVars, opVars, histVars
    <3> QED  BY <2>2, <3>1, <3>2, Zenon
  <2> DEFINE Types ==
        /\ at \in {"closed", "idle"} \cup Statements
        /\ db \in Tables /\ view \in Tables
        /\ calls \in 0 .. MaxInserts
        /\ left \in 0 .. MaxDetections
        /\ toDelete \in 0 .. MaxInserts
        /\ size \in [Inspections -> 0 .. MaxDetections]
        /\ acked \subseteq Inspections /\ deleted \subseteq Inspections
  <2>4. Types
    BY DEF TypeOK
  <2>5. ASSUME Types' PROVE TypeOK'
    BY <2>3, <2>5 DEF TypeOK
  <2> USE DEF Statements, Writing
  <2>6. CASE Open
    <3>1. Types'  BY <2>4, <2>6 DEF Open, txVars, opVars, histVars
    <3>2. ViewInv'  BY <2>6 DEF Open, ViewInv, Untouched, txVars, opVars
    <3> QED  BY <2>5, <3>1, <3>2
  <2>7. CASE Close
    <3>1. Types'  BY <2>4, <2>7 DEF Close, Rollback, opVars, histVars
    <3>2. ViewInv'  BY <2>7 DEF Close, Rollback, ViewInv, Untouched, opVars
    <3> QED  BY <2>5, <3>1, <3>2
  <2>8. CASE Crash
    <3>1. Types'  BY <2>4, <2>1, <2>8 DEF Crash, Rollback
    <3>2. ViewInv'  BY <2>8 DEF Crash, Rollback, ViewInv, Untouched
    <3> QED  BY <2>5, <3>1, <3>2
  <2>9. ASSUME NEW k \in 0 .. MaxDetections, BeginInsert(k)
        PROVE  TypeOK' /\ ViewInv'
    <3>0. /\ at = "idle" /\ calls' = calls + 1 /\ calls < MaxInserts
          /\ UNCHANGED <<db, view, toDelete, acked, deleted>>
      BY <2>9 DEF BeginInsert, histVars
    <3>a. calls' \in 0 .. MaxInserts /\ calls' \in Inspections /\ calls' > calls
      BY <2>b, <3>0
    <3>b. \A i \in Inspections : i > calls' => i > calls
      BY <2>b, <3>0
    <3>1. /\ at = "idle" /\ calls' = calls + 1 /\ calls' \in Inspections
          /\ UNCHANGED <<db, view, toDelete, acked, deleted>>
      BY <3>0, <3>a
    <3>c. \A i \in Inspections : i > calls' => Untouched(view, i) /\ Untouched(db, i)
      BY <3>b DEF ViewInv
    <3>2. CASE UNCHANGED <<at, inTx, left, size>>
      <4>1. Types'  BY <2>4, <3>a, <3>1, <3>2
      <4>2. ViewInv'  BY <3>c, <3>1, <3>2 DEF ViewInv, Untouched
      <4> QED  BY <2>5, <4>1, <4>2
    <3>3. CASE ~inTx /\ inTx' = TRUE /\ at' = "insert inspection"
               /\ left' = k /\ size' = [size EXCEPT ![calls + 1] = k]
      <4>0. size \in [Inspections -> 0 .. MaxDetections]
        BY <2>4
      <4>1. size' \in [Inspections -> 0 .. MaxDetections] /\ size'[calls'] = k
        BY <3>1, <3>3, <4>0
      <4>2. Types'  BY <2>4, <2>9, <3>a, <3>1, <3>3, <4>1
      <4>3. Untouched(view, calls') /\ Untouched(db, calls') /\ view = db
        BY <3>a, <3>3 DEF ViewInv
      <4>4. view.detections[calls'] + left' = size'[calls']
        <5>1. view.detections[calls'] = 0 /\ left' = k /\ size'[calls'] = k
          BY <3>3, <4>1, <4>3 DEF Untouched
        <5>2. k \in Nat
          OBVIOUS
        <5> QED  BY <5>1, <5>2
      <4>6. view.inspections \ {calls'} = db.inspections
        BY <4>3 DEF Untouched
      <4>7. ViewInv'
        BY <3>c, <3>1, <3>3, <4>3, <4>4, <4>6 DEF ViewInv, Untouched
      <4> QED  BY <2>5, <4>2, <4>7
    <3> QED  BY <2>9, <3>2, <3>3 DEF BeginInsert
  <2>10. CASE InsertInspection
    <3>1. /\ inTx /\ calls \in Inspections /\ at = "insert inspection"
          /\ view' = [view EXCEPT !.inspections = @ \cup {calls}]
          /\ db' = db /\ inTx' = inTx
          /\ UNCHANGED <<calls, left, toDelete, size, acked, deleted>>
          /\ at' = IF left > 0 THEN "insert detection" ELSE "commit"
      BY <2>10 DEF InsertInspection, Execute, ViewInv, opVars, histVars
    <3>2. /\ view' \in Tables /\ view'.inspections = view.inspections \cup {calls}
          /\ view'.detections = view.detections
      BY <2>a, <3>1, TablesWithInspection
    <3>3. Types'  BY <2>4, <3>1, <3>2
    <3>a. \A i \in Inspections : i > calls => i # calls
      BY <2>b
    <3>b. \A i \in Inspections : i > calls => Untouched(view, i)' /\ Untouched(db, i)'
      BY <3>a, <3>1, <3>2 DEF ViewInv, Untouched
    <3>c. /\ Untouched(db, calls)' /\ view'.inspections \ {calls} = db'.inspections
          /\ \A i \in Inspections \ {calls} : view'.detections[i] = db'.detections[i]
          /\ view'.detections[calls] + left' = size'[calls]
      BY <3>1, <3>2 DEF ViewInv, Untouched
    <3>d. left > 0 \/ left = 0
      BY <2>1
    <3>4. ViewInv'  BY <3>1, <3>2, <3>b, <3>c, <3>d DEF ViewInv
    <3> QED  BY <2>5, <3>3, <3>4
  <2>11. CASE InsertDetection
    <3>1. /\ inTx /\ calls \in Inspections /\ at = "insert detection"
          /\ view' = [view EXCEPT !.detections[calls] = @ + 1]
          /\ db' = db /\ inTx' = inTx /\ left' = left - 1
          /\ UNCHANGED <<calls, toDelete, size, acked, deleted>>
          /\ at' = IF left' > 0 THEN "insert detection" ELSE "commit"
      BY <2>11 DEF InsertDetection, Execute, ViewInv, histVars
    <3>2. calls \in Inspections /\ left' = left - 1
      BY <3>1
    <3>c. view.detections[calls] \in Nat
      BY <2>a, <3>2, TypedTables
    <3>d. size[calls] \in 0 .. MaxDetections /\ left \in 0 .. MaxDetections
      BY <2>4, <3>2
    <3>e. view.detections[calls] + left = size[calls] /\ left > 0
      BY <3>1 DEF ViewInv
    <3>3. /\ view.detections[calls] + 1 \in 0 .. MaxDetections
          /\ left' \in 0 .. MaxDetections /\ (left' > 0 \/ left' = 0)
          /\ (view.detections[calls] + 1) + left' = size[calls]
      BY <3>2, <3>c, <3>d, <3>e, OneDetectionLess
    <3>f. view' = [view EXCEPT !.detections[calls] = @ + 1]
      BY <3>1
    <3>4. /\ view' \in Tables
          /\ view'.inspections = view.inspections
          /\ view'.detections[calls] = view.detections[calls] + 1
          /\ \A j \in Inspections \ {calls} : view'.detections[j] = view.detections[j]
      <4> DEFINE u == [view EXCEPT !.detections[calls] = @ + 1]
      <4>1. /\ u \in Tables
            /\ u.inspections = view.inspections
            /\ u.detections[calls] = view.detections[calls] + 1
            /\ \A j \in Inspections \ {calls} : u.detections[j] = view.detections[j]
        BY <2>a, <3>2, <3>3, TablesWithDetection
      <4>2. view' = u
        BY <3>f
      <4> HIDE DEF u
      <4> QED  BY <4>1, <4>2
    <3>5. Types'  BY <2>4, <3>1, <3>3, <3>4
    <3>6. view'.detections[calls] + left' = size[calls]
      BY <3>3, <3>4
    <3>a. \A i \in Inspections : i > calls => i # calls
      BY <2>b
    <3>7. \A i \in Inspections : i > calls => Untouched(view, i)' /\ Untouched(db, i)'
      BY <3>a, <3>1, <3>4 DEF ViewInv, Untouched
    <3>8. left' > 0 \/ left' = 0
      BY <3>3
    <3>b. /\ Untouched(db, calls)' /\ view'.inspections \ {calls} = db'.inspections
          /\ \A i \in Inspections \ {calls} : view'.detections[i] = db'.detections[i]
          /\ calls \in view'.inspections
      BY <3>1, <3>4 DEF ViewInv, Untouched
    <3>9. ViewInv'
      BY <3>1, <3>6, <3>7, <3>8, <3>b DEF ViewInv
    <3> QED  BY <2>5, <3>5, <3>9
  <2>12. CASE InsertFails
    <3>1. Types'  BY <2>4, <2>1, <2>12 DEF InsertFails, Rollback, histVars
    <3>2. ViewInv'  BY <2>12 DEF InsertFails, Rollback, ViewInv, Untouched
    <3> QED  BY <2>5, <3>1, <3>2
  <2>13. CASE Commit
    <3>1. calls \in Inspections  BY <2>13 DEF Commit, ViewInv
    <3>2. Types'  BY <2>4, <2>13, <3>1 DEF Commit, Rollback, txVars, opVars
    <3>3. ViewInv'  BY <2>13 DEF Commit, Rollback, ViewInv, Untouched, txVars, opVars
    <3> QED  BY <2>5, <3>2, <3>3
  <2>14. CASE PruneCount
    <3>1. Cardinality(view.inspections) \in Nat
          /\ Cardinality(view.inspections) <= MaxInserts
      BY <2>a, TypedTables, SetsOfInspections
    <3>a. /\ Cardinality(view.inspections) > MaxRecords
          /\ toDelete' = Cardinality(view.inspections) - MaxRecords
          /\ at' = "delete detections"
          /\ UNCHANGED <<db, view, calls, left, size, acked, deleted>>
      BY <2>14 DEF PruneCount, txVars, histVars
    <3>b. toDelete' \in 0 .. MaxInserts
      BY <3>1, <3>a, SomeOverTheLimit
    <3>2. Types'
      BY <2>4, <3>a, <3>b
    <3>3. ViewInv'  BY <2>14 DEF PruneCount, ViewInv, Untouched, txVars
    <3> QED  BY <2>5, <3>2, <3>3
  <2>15. CASE DeleteDetections
    <3>1. /\ at' = "delete inspections"
          /\ UNCHANGED <<calls, left, toDelete, size, acked, deleted>>
      BY <2>15 DEF DeleteDetections, opVars
    <3>2. CASE UNCHANGED txVars
      <4>1. Types'  BY <2>4, <3>1, <3>2 DEF txVars
      <4>2. ViewInv'  BY <3>1, <3>2 DEF ViewInv, Untouched, txVars
      <4> QED  BY <2>5, <4>1, <4>2
    <3>3. ASSUME NEW old,
                 Execute([view EXCEPT !.detections =
                           [i \in Inspections |-> IF i \in old THEN 0 ELSE @[i]]])
          PROVE  TypeOK' /\ ViewInv'
      <4>1. /\ view' \in Tables /\ view'.inspections = view.inspections
            /\ \A i \in Inspections :
                 view'.detections[i] = IF i \in old THEN 0 ELSE view.detections[i]
        BY <2>1, <3>3, TablesWithoutDetections DEF Execute
      <4>2. db' = (IF inTx THEN db ELSE view') /\ inTx' = inTx
        BY <3>3 DEF Execute
      <4>3. Types'  BY <2>4, <3>1, <4>1, <4>2
      <4>4. ViewInv'  BY <3>1, <4>1, <4>2 DEF ViewInv, Untouched
      <4> QED  BY <2>5, <4>3, <4>4
    <3> QED  BY <2>15, <3>2, <3>3 DEF DeleteDetections
  <2>16. CASE DeleteInspections
    <3>1. /\ at' = "idle" /\ toDelete' = 0
          /\ deleted' = deleted \cup (db.inspections \ db'.inspections)
          /\ UNCHANGED <<calls, left, size, acked>>
      BY <2>16 DEF DeleteInspections
    <3>2. deleted' \subseteq Inspections
      BY <2>1, <3>1, TypedTables
    <3>3. CASE UNCHANGED txVars
      <4>1. Types'  BY <2>4, <2>1, <3>1, <3>2, <3>3 DEF txVars
      <4>2. ViewInv'  BY <3>1, <3>3 DEF ViewInv, Untouched, txVars
      <4> QED  BY <2>5, <4>1, <4>2
    <3>4. CASE Execute([view EXCEPT !.inspections = @ \ Oldest(@, toDelete)])
      <4>1. /\ view' \in Tables /\ view'.detections = view.detections
            /\ view'.inspections = view.inspections \ Oldest(view.inspections, toDelete)
        BY <2>1, <3>4, TablesWithoutInspections DEF Execute
      <4>2. db' = (IF inTx THEN db ELSE view') /\ inTx' = inTx
        BY <3>4 DEF Execute
      <4>3. Types'  BY <2>4, <2>1, <3>1, <3>2, <4>1, <4>2
      <4>4. ViewInv'  BY <3>1, <4>1, <4>2 DEF ViewInv, Untouched
      <4> QED  BY <2>5, <4>3, <4>4
    <3> QED  BY <2>16, <3>3, <3>4 DEF DeleteInspections
  <2>17. CASE UNCHANGED vars
    <3>1. Types'  BY <2>4, <2>17 DEF vars, txVars, opVars, histVars
    <3>2. ViewInv'  BY <2>17 DEF vars, ViewInv, Untouched, txVars, opVars, histVars
    <3> QED  BY <2>5, <3>1, <3>2
  <2> QED
    BY <2>6, <2>7, <2>8, <2>9, <2>10, <2>11, <2>12, <2>13, <2>14, <2>15, <2>16,
       <2>17 DEF Next
<1> QED  BY <1>1, <1>2, PTL DEF Spec

(* Every reachable state has the types TypeOK gives.                       *)
THEOREM TypeCorrect == Spec => []TypeOK
BY TypeAndView, PTL
-----------------------------------------------------------------------------
(* As long as no DELETE has failed and no prune was cut short, the         *)
(* committed tables agree except between the two DELETEs; there, the       *)
(* inspections that are about to go have no detections left.               *)
Agree(t) ==
  \A i \in Inspections : t.detections[i] = IF i \in t.inspections THEN size[i] ELSE 0

HalfPruned(t) ==
  \A i \in Inspections :
    t.detections[i] = IF i \in t.inspections \ Oldest(t.inspections, toDelete)
                      THEN size[i] ELSE 0

AgreeInv ==
  ~failedDelete /\ ~cutShort =>
    /\ inTx \/ at # "delete inspections" => Agree(db)
    /\ at \in {"closed", "idle", "delete detections"} => Agree(view)
    /\ at = "delete inspections" => HalfPruned(view)

LEMMA AgreeInductive == Spec => []AgreeInv
<1>1. Init => AgreeInv
  BY DEF Init, AgreeInv, Agree, Empty
<1>2. TypeOK /\ ViewInv /\ AgreeInv /\ [Next]_vars /\ ViewInv' => AgreeInv'
  <2> SUFFICES ASSUME TypeOK, ViewInv, AgreeInv, [Next]_vars, ViewInv',
                      ~failedDelete', ~cutShort'
               PROVE  /\ inTx' \/ at' # "delete inspections" => Agree(db)'
                      /\ at' \in {"closed", "idle", "delete detections"} => Agree(view)'
                      /\ at' = "delete inspections" => HalfPruned(view)'
    BY DEF AgreeInv
  <2> DEFINE Goal == /\ inTx' \/ at' # "delete inspections" => Agree(db)'
                     /\ at' \in {"closed", "idle", "delete detections"} => Agree(view)'
                     /\ at' = "delete inspections" => HalfPruned(view)'
  <2>1. /\ db \in Tables /\ view \in Tables
        /\ size \in [Inspections -> 0 .. MaxDetections]
    BY DEF TypeOK
  <2>2. /\ ~inTx => view = db
        /\ ~inTx' => view' = db'
    BY DEF ViewInv
  <2>3. ~failedDelete /\ ~cutShort
    <3>1. failedDelete' \in {failedDelete, TRUE}
      BY Zenon DEF Next, Open, Close, Crash, BeginInsert, InsertInspection,
         InsertDetection, InsertFails, Commit, PruneCount, DeleteDetections,
         DeleteInspections, Execute, Rollback, vars, txVars, opVars, histVars
    <3>2. cutShort' = cutShort \/ cutShort' = (cutShort \/ at = "delete inspections")
      BY Zenon DEF Next, Open, Close, Crash, BeginInsert, InsertInspection,
         InsertDetection, InsertFails, Commit, PruneCount, DeleteDetections,
         DeleteInspections, Execute, Rollback, vars, txVars, opVars, histVars
    <3>3. ~failedDelete
      BY <3>1, Zenon
    <3>4. ~cutShort
      BY <3>2, Zenon
    <3> QED  BY <3>3, <3>4
  <2>4. /\ inTx \/ at # "delete inspections" => Agree(db)
        /\ at \in {"closed", "idle", "delete detections"} => Agree(view)
        /\ at = "delete inspections" => HalfPruned(view)
    BY <2>3 DEF AgreeInv
  <2>5. CASE Open
    BY <2>4, <2>5 DEF Open, Agree, txVars, opVars
  <2>6. CASE Close
    BY <2>4, <2>6 DEF Close, Rollback, Agree, opVars
  <2>7. CASE Crash
    <3>1. /\ at # "delete inspections" /\ at' = "closed"
          /\ db' = db /\ view' = db /\ size' = size
      BY <2>7 DEF Crash, Rollback
    <3> QED  BY <2>4, <3>1 DEF Agree
  <2>8. ASSUME NEW k \in 0 .. MaxDetections, BeginInsert(k)
        PROVE  Goal
    <3>1. at = "idle" /\ db' = db /\ view' = view
      BY <2>8 DEF BeginInsert
    <3>2. Agree(db) /\ Agree(view)
      BY <2>4, <3>1
    <3>3. CASE UNCHANGED <<at, inTx, left, size>>
      BY <3>1, <3>2, <3>3 DEF Agree
    <3>4. CASE at' = "insert inspection" /\ size' = [size EXCEPT ![calls + 1] = k]
      <4>1. \A i \in Inspections : i = calls + 1 => Untouched(db, i)
        <5>1. \A i \in Inspections : i = calls + 1 => i > calls
          BY DEF TypeOK, Inspections
        <5> QED  BY <5>1 DEF ViewInv
      <4>2. \A i \in Inspections : i # calls + 1 => size'[i] = size[i]
        BY <2>1, <3>4
      <4>3. \A i \in Inspections :
              db.detections[i] = IF i \in db.inspections THEN size'[i] ELSE 0
        BY <3>2, <4>1, <4>2 DEF Agree, Untouched
      <4> QED  BY <3>1, <3>4, <4>3 DEF Agree
    <3> QED  BY <2>8, <3>3, <3>4 DEF BeginInsert
  <2>9. CASE InsertInspection \/ InsertDetection
    <3>1. /\ inTx /\ at \in Writing /\ at' \in Writing
          /\ db' = db /\ size' = size
      BY <2>9 DEF InsertInspection, InsertDetection, Execute, ViewInv, Writing, opVars
    <3> QED  BY <2>4, <3>1 DEF Agree, Writing
  <2>10. CASE InsertFails
    <3>1. /\ at \in Writing /\ at' = "idle" /\ db' = db /\ view' = db /\ size' = size
      BY <2>10 DEF InsertFails, Rollback, Writing
    <3> QED  BY <2>4, <3>1 DEF Agree, Writing
  <2>11. CASE Commit
    <3>1. /\ at = "commit" /\ at' = "idle" /\ size' = size
          /\ db' \in {db, view} /\ view' \in {db, view}
      BY <2>11 DEF Commit, Rollback, txVars, opVars
    <3>2. Agree(db)
      BY <2>4, <3>1
    <3>3. /\ calls \in view.inspections /\ calls \in Inspections
          /\ view.detections[calls] + left = size[calls] /\ left = 0
          /\ view.inspections \ {calls} = db.inspections
          /\ \A i \in Inspections \ {calls} : view.detections[i] = db.detections[i]
      BY <3>1 DEF ViewInv, Writing
    <3>4. view.detections[calls] = size[calls]
      <4>1. view.detections[calls] \in Nat
        BY <2>1, <3>3, TypedTables
      <4> QED  BY <3>3, <4>1
    <3>5. Agree(view)
      BY <3>2, <3>3, <3>4 DEF Agree
    <3> QED  BY <3>1, <3>2, <3>5 DEF Agree
  <2>12. CASE PruneCount
    BY <2>4, <2>12 DEF PruneCount, Agree, txVars
  <2>13. CASE DeleteDetections
    <3>1. /\ at = "delete detections" /\ at' = "delete inspections"
          /\ UNCHANGED <<toDelete, size>>
      BY <2>13 DEF DeleteDetections, opVars
    <3> DEFINE old == Oldest(view.inspections, toDelete)
    <3>2. Execute([view EXCEPT !.detections =
                    [i \in Inspections |-> IF i \in old THEN 0 ELSE @[i]]])
      BY <2>13 DEF DeleteDetections
    <3>3. /\ view'.inspections = view.inspections
          /\ \A i \in Inspections :
               view'.detections[i] = IF i \in old THEN 0 ELSE view.detections[i]
          /\ inTx' = inTx /\ (inTx => db' = db)
      BY <2>1, <3>2, TablesWithoutDetections DEF Execute
    <3>4. HalfPruned(view)'
      BY <2>4, <3>1, <3>3 DEF HalfPruned, Agree
    <3> QED  BY <2>4, <3>1, <3>3, <3>4 DEF Agree
  <2>14. CASE DeleteInspections
    <3>1. /\ at = "delete inspections" /\ at' = "idle" /\ size' = size
      BY <2>14 DEF DeleteInspections
    <3>2. Execute([view EXCEPT !.inspections = @ \ Oldest(@, toDelete)])
      BY <2>14 DEF DeleteInspections
    <3>3. /\ view'.inspections = view.inspections \ Oldest(view.inspections, toDelete)
          /\ view'.detections = view.detections
          /\ inTx' = inTx /\ (inTx => db' = db)
      BY <2>1, <3>2, TablesWithoutInspections DEF Execute
    <3>4. Agree(view)'
      BY <2>4, <3>1, <3>3 DEF HalfPruned, Agree
    <3>5. Agree(db)'
      BY <2>2, <2>4, <3>1, <3>3, <3>4 DEF Agree
    <3> QED  BY <3>1, <3>4, <3>5
  <2>15. CASE UNCHANGED vars
    BY <2>4, <2>15 DEF vars, Agree, HalfPruned, txVars, opVars
  <2> QED
    BY <2>5, <2>6, <2>7, <2>8, <2>9, <2>10, <2>11, <2>12, <2>13, <2>14, <2>15 DEF Next
<1> QED  BY <1>1, <1>2, TypeAndView, PTL DEF Spec

(* Wherever the process dies and whichever INSERT or COMMIT fails, the     *)
(* committed tables agree outside of a prune: insert_result() is atomic,   *)
(* and a prune that neither fails nor is interrupted leaves no orphans.    *)
THEOREM CommittedTablesAgree == Spec => []TablesAgree
<1>1. AgreeInv => TablesAgree
  BY DEF AgreeInv, Agree, TablesAgree
<1> QED  BY <1>1, AgreeInductive, PTL

-----------------------------------------------------------------------------
(* Without a failed COMMIT a transaction is open only within               *)
(* insert_result(), so that nothing acknowledged is ever rolled back.      *)
AckInv ==
  ~failedCommit => /\ acked \subseteq db.inspections \cup deleted
                   /\ inTx => at \in Writing

(* What is acknowledged stays committed until a prune removes it, over any *)
(* number of crashes.                                                      *)
THEOREM Durability == Spec => []AckedIsDurable
<1>1. Init => AckInv
  BY DEF Init, AckInv
<1>2. TypeOK /\ ViewInv /\ AckInv /\ [Next]_vars => AckInv'
  <2> SUFFICES ASSUME TypeOK, ViewInv, AckInv, [Next]_vars, ~failedCommit'
               PROVE  /\ acked' \subseteq db'.inspections \cup deleted'
                      /\ inTx' => at' \in Writing
    BY DEF AckInv
  <2>1. ~failedCommit
    <3>1. failedCommit' \in {failedCommit, TRUE}
      BY Zenon DEF Next, Open, Close, Crash, BeginInsert, InsertInspection,
         InsertDetection, InsertFails, Commit, PruneCount, DeleteDetections,
         DeleteInspections, Execute, Rollback, vars, txVars, opVars, histVars
    <3> QED  BY <3>1, Zenon
  <2>2. /\ acked \subseteq db.inspections \cup deleted
        /\ inTx => at \in Writing
    BY <2>1 DEF AckInv
  <2>3. db \in Tables /\ view \in Tables
    BY DEF TypeOK
  <2>4. CASE Open
    BY <2>2, <2>4 DEF Open, Writing, txVars, histVars
  <2>5. CASE Close \/ InsertFails \/ Crash
    BY <2>2, <2>5 DEF Close, InsertFails, Crash, Rollback, histVars
  <2>6. ASSUME NEW k \in 0 .. MaxDetections, BeginInsert(k)
        PROVE  /\ acked' \subseteq db'.inspections \cup deleted'
               /\ inTx' => at' \in Writing
    <3>1. at = "idle" /\ UNCHANGED <<db, acked, deleted>>
      BY <2>6 DEF BeginInsert, histVars
    <3>2. at' = "insert inspection" \/ (at' = at /\ inTx' = inTx)
      BY <2>6, Zenon DEF BeginInsert
    <3>3. ~inTx
      BY <2>2, <3>1 DEF Writing
    <3>4. inTx' => at' \in Writing
      BY <3>2, <3>3, Zenon DEF Writing
    <3> QED  BY <2>2, <3>1, <3>4
  <2>7. CASE InsertInspection \/ InsertDetection
    <3>1. /\ at' \in Writing /\ db' = db
          /\ UNCHANGED <<acked, deleted>>
      BY <2>7 DEF InsertInspection, InsertDetection, Execute, ViewInv, Writing, histVars
    <3> QED  BY <2>2, <3>1
  <2>8. CASE Commit
    <3>1. /\ at = "commit" /\ acked' = acked \cup {calls} /\ deleted' = deleted
          /\ db' = view /\ inTx' = FALSE
      BY <2>8 DEF Commit
    <3>2. calls \in view.inspections /\ db.inspections \subseteq view.inspections
      BY <3>1 DEF ViewInv, Writing
    <3> QED  BY <2>2, <3>1, <3>2
  <2>9. CASE PruneCount
    BY <2>2, <2>9 DEF PruneCount, Writing, txVars, histVars
  <2>10. CASE DeleteDetections
    <3>1. ~inTx /\ inTx' = inTx /\ acked' = acked /\ deleted' = deleted
      BY <2>2, <2>10 DEF DeleteDetections, Execute, Writing, txVars
    <3>2. db'.inspections = db.inspections
      <4>1. CASE UNCHANGED txVars
        BY <4>1 DEF txVars
      <4>2. ASSUME NEW old,
                   Execute([view EXCEPT !.detections =
                             [i \in Inspections |-> IF i \in old THEN 0 ELSE @[i]]])
            PROVE  db'.inspections = db.inspections
        <5>1. view = db
          BY <3>1 DEF ViewInv
        <5>2. view'.inspections = view.inspections
          BY <2>3, <4>2, TablesWithoutDetections DEF Execute
        <5>3. db' = view'
          BY <3>1, <4>2 DEF Execute
        <5> QED  BY <5>1, <5>2, <5>3
      <4> QED  BY <2>10, <4>1, <4>2 DEF DeleteDetections
    <3> QED  BY <2>2, <3>1, <3>2
  <2>11. CASE DeleteInspections
    <3>1. ~inTx /\ inTx' = inTx /\ acked' = acked
          /\ deleted' = deleted \cup (db.inspections \ db'.inspections)
      BY <2>2, <2>11 DEF DeleteInspections, Execute, Writing, txVars
    <3> QED  BY <2>2, <3>1
  <2>12. CASE UNCHANGED vars
    BY <2>2, <2>12 DEF vars, txVars, histVars
  <2> QED
    BY <2>4, <2>5, <2>6, <2>7, <2>8, <2>9, <2>10, <2>11, <2>12 DEF Next
<1>3. AckInv => AckedIsDurable
  BY DEF AckInv, AckedIsDurable
<1> QED  BY <1>1, <1>2, <1>3, TypeAndView, PTL DEF Spec
-----------------------------------------------------------------------------
(* Nothing outside Oldest(S, n) comes before an element of it.             *)
LEMMA OldestComeFirst ==
  ASSUME NEW S \in SUBSET Inspections, NEW n \in Nat,
         NEW i \in Oldest(S, n), NEW j \in S \ Oldest(S, n)
  PROVE  i < j
<1> DEFINE Before(k) == {x \in S : x < k}
<1>1. i \in Nat /\ j \in Nat /\ \A x \in S : x \in Nat
  BY SetsOfInspections DEF Oldest
<1>2. SUFFICES ASSUME j <= i PROVE FALSE
  BY <1>1
<1>3. Before(j) \in SUBSET Inspections /\ Before(i) \in SUBSET Inspections
  OBVIOUS
<1>4. /\ IsFiniteSet(Before(i))
      /\ Cardinality(Before(i)) \in Nat /\ Cardinality(Before(j)) \in Nat
  BY <1>3, SetsOfInspections
<1>5. Before(j) \subseteq Before(i)
  <2>1. ASSUME NEW x \in S, x < j PROVE x < i
    <3>1. x \in Nat
      BY <1>1
    <3> QED  BY <1>1, <1>2, <2>1, <3>1
  <2> QED  BY <2>1
<1>6. Cardinality(Before(j)) <= Cardinality(Before(i))
  BY <1>4, <1>5, FS_Subset
<1>7. Cardinality(Before(i)) < n /\ ~(Cardinality(Before(j)) < n)
  BY DEF Oldest
<1> QED  BY <1>4, <1>6, <1>7

(* What has been pruned is older than all that is left and than the        *)
(* inspection being inserted.                                              *)
AllBefore(t) == \A i \in deleted, j \in t.inspections : i < j

OrderInv ==
  /\ AllBefore(db) /\ AllBefore(view)
  /\ \A i \in deleted : i <= calls /\ (at \in Writing => i < calls)

(* A prune removes the oldest inspections: none that is still there, then  *)
(* or later, is older than one that a prune has removed.                   *)
THEOREM PruneOrder == Spec => []PruneRemovesOldest
<1>1. Init => OrderInv
  BY DEF Init, OrderInv, AllBefore
<1>2. TypeOK /\ ViewInv /\ OrderInv /\ [Next]_vars /\ TypeOK' => OrderInv'
  <2> SUFFICES ASSUME TypeOK, ViewInv, OrderInv, [Next]_vars, TypeOK'
               PROVE  OrderInv'
    OBVIOUS
  <2>1. /\ AllBefore(db) /\ AllBefore(view)
        /\ \A i \in deleted : i <= calls /\ (at \in Writing => i < calls)
    BY DEF OrderInv
  <2>2. db \in Tables /\ view \in Tables /\ deleted \subseteq Inspections
    BY DEF TypeOK
  <2>3. calls \in Nat /\ toDelete \in Nat /\ \A i \in Inspections : i \in Nat
    BY BoundsAssumption DEF TypeOK, Inspections
  <2>4. CASE Open \/ Close \/ Crash \/ InsertFails
    <3>1. /\ db' = db /\ view' \in {db, view}
          /\ UNCHANGED <<deleted, calls>> /\ at' \notin Writing
      BY <2>4 DEF Open, Close, Crash, InsertFails, Rollback, Writing,
         txVars, opVars, histVars
    <3> QED  BY <2>1, <3>1 DEF OrderInv, AllBefore
  <2>5. ASSUME NEW k \in 0 .. MaxDetections, BeginInsert(k)
        PROVE  OrderInv'
    <3>1. calls' = calls + 1 /\ UNCHANGED <<db, view, deleted>>
      BY <2>5 DEF BeginInsert, histVars
    <3>2. \A i \in deleted : i <= calls
      BY <2>1
    <3>3. \A i \in deleted : i <= calls' /\ i < calls'
      BY <2>2, <2>3, <3>1, <3>2
    <3> QED  BY <2>1, <3>1, <3>3 DEF OrderInv, AllBefore
  <2>6. CASE InsertInspection
    <3>1. /\ at \in Writing /\ inTx /\ calls \in Inspections
          /\ view' = [view EXCEPT !.inspections = @ \cup {calls}]
          /\ db' = db /\ UNCHANGED <<calls, deleted>>
      BY <2>6 DEF InsertInspection, Execute, ViewInv, Writing, opVars, histVars
    <3>2. view'.inspections = view.inspections \cup {calls}
      BY <2>2, <3>1, TablesWithInspection
    <3> QED  BY <2>1, <3>1, <3>2 DEF OrderInv, AllBefore
  <2>7. CASE InsertDetection
    <3>1. /\ at \in Writing /\ inTx /\ calls \in Inspections
          /\ view' = [view EXCEPT !.detections[calls] = @ + 1]
          /\ db' = db /\ UNCHANGED <<calls, deleted>>
      BY <2>7 DEF InsertDetection, Execute, ViewInv, Writing, histVars
    <3>2. view'.inspections = view.inspections
      BY <2>2, <3>1 DEF Tables
    <3> QED  BY <2>1, <3>1, <3>2 DEF OrderInv, AllBefore
  <2>8. CASE Commit
    <3>1. /\ at' = "idle" /\ db' \in {db, view} /\ view' \in {db, view}
          /\ UNCHANGED <<deleted, calls>>
      BY <2>8 DEF Commit, Rollback, txVars, opVars
    <3> QED  BY <2>1, <3>1 DEF OrderInv, AllBefore, Writing
  <2>9. CASE PruneCount
    BY <2>1, <2>9 DEF PruneCount, OrderInv, AllBefore, Writing, txVars, histVars
  <2>10. CASE DeleteDetections
    <3>1. at' = "delete inspections" /\ UNCHANGED <<deleted, calls>>
      BY <2>10 DEF DeleteDetections, opVars
    <3>2. CASE UNCHANGED txVars
      BY <2>1, <3>1, <3>2 DEF OrderInv, AllBefore, Writing, txVars
    <3>3. ASSUME NEW old,
                 Execute([view EXCEPT !.detections =
                           [i \in Inspections |-> IF i \in old THEN 0 ELSE @[i]]])
          PROVE  OrderInv'
      <4>1. view'.inspections = view.inspections
        BY <2>2, <3>3, TablesWithoutDetections DEF Execute
      <4>2. db' \in {db, view'}
        BY <3>3 DEF Execute
      <4> QED  BY <2>1, <3>1, <4>1, <4>2 DEF OrderInv, AllBefore, Writing
    <3> QED  BY <2>10, <3>2, <3>3 DEF DeleteDetections
  <2>11. CASE DeleteInspections
    <3>1. /\ at' = "idle" /\ calls' = calls
          /\ deleted' = deleted \cup (db.inspections \ db'.inspections)
      BY <2>11 DEF DeleteInspections
    <3>2. CASE UNCHANGED txVars
      BY <2>1, <3>1, <3>2 DEF OrderInv, AllBefore, Writing, txVars
    <3>3. CASE Execute([view EXCEPT !.inspections = @ \ Oldest(@, toDelete)])
      <4>1. view'.inspections = view.inspections \ Oldest(view.inspections, toDelete)
        BY <2>2, <3>3, TablesWithoutInspections DEF Execute
      <4>2. CASE inTx
        <5>1. db' = db /\ deleted' = deleted
          BY <3>1, <3>3, <4>2 DEF Execute
        <5> QED  BY <2>1, <3>1, <4>1, <5>1 DEF OrderInv, AllBefore, Writing
      <4>3. CASE ~inTx
        <5>1. db' = view' /\ view = db
          BY <3>3, <4>3 DEF Execute, ViewInv
        <5>2. \A i \in deleted' \ deleted : i \in Oldest(view.inspections, toDelete)
          BY <3>1, <4>1, <5>1
        <5>3. AllBefore(db)'
          <6>1. view.inspections \in SUBSET Inspections
            BY <2>2, TypedTables
          <6> QED  BY <2>1, <2>3, <4>1, <5>1, <5>2, <6>1, OldestComeFirst DEF AllBefore
        <5>4. \A i \in deleted' : i <= calls
          <6>1. ASSUME NEW i \in deleted' \ deleted PROVE i <= calls
            <7>1. i \in view.inspections /\ i \in Inspections
              BY <2>2, <5>2, TypedTables DEF Oldest
            <7>2. ~(i > calls)
              BY <7>1 DEF ViewInv, Untouched
            <7> QED  BY <2>3, <7>1, <7>2
          <6> QED  BY <2>1, <6>1
        <5> QED  BY <3>1, <5>1, <5>3, <5>4 DEF OrderInv, AllBefore, Writing
      <4> QED  BY <4>2, <4>3
    <3> QED  BY <2>11, <3>2, <3>3 DEF DeleteInspections
  <2>12. CASE UNCHANGED vars
    BY <2>1, <2>12 DEF vars, OrderInv, AllBefore, txVars, opVars, histVars
  <2> QED
    BY <2>4, <2>5, <2>6, <2>7, <2>8, <2>9, <2>10, <2>11, <2>12 DEF Next
<1>3. OrderInv => PruneRemovesOldest
  BY DEF OrderInv, AllBefore, PruneRemovesOldest
<1> QED  BY <1>1, <1>2, <1>3, TypeAndView, PTL DEF Spec
-----------------------------------------------------------------------------
(* Sets of inspections have a first and a last element.                    *)
LEMMA FirstInspection ==
  ASSUME NEW S \in SUBSET Inspections, S # {}
  PROVE  \E i \in S : \A j \in S : i <= j
<1>1. S \subseteq Nat  BY DEF Inspections
<1>2. PICK i \in S : \A j \in S : ~ (<<j, i>> \in OpToRel(<, Nat))
  BY <1>1, NatLessThanWellFounded, WFMin, Zenon
<1>3. \A j \in S : ~ (j < i)
  BY <1>1, <1>2, Zenon DEF OpToRel
<1> QED  BY <1>1, <1>3

LEMMA LastInspection ==
  ASSUME NEW S \in SUBSET Inspections, S # {}
  PROVE  \E i \in S : \A j \in S : j <= i
<1> DEFINE Back(i) == MaxInserts + 1 - i
           T == {Back(i) : i \in S}
<1>1. MaxInserts \in Nat  BY BoundsAssumption
<1>2. T \in SUBSET Inspections /\ T # {}
  <2>1. ASSUME NEW i \in S PROVE Back(i) \in Inspections
    <3>1. i \in 1 .. MaxInserts  BY DEF Inspections
    <3> QED  BY <1>1, <3>1 DEF Inspections
  <2> QED  BY <2>1
<1> HIDE DEF T
<1>3. PICK t \in T : \A u \in T : t <= u  BY <1>2, FirstInspection
<1>4. PICK i \in S : t = Back(i)  BY DEF T
<1>5. ASSUME NEW j \in S PROVE j <= i
  <2>1. Back(j) \in T  BY DEF T
  <2>2. Back(i) <= Back(j)  BY <1>3, <1>4, <2>1
  <2>3. i \in Nat /\ j \in Nat  BY DEF Inspections
  <2> QED  BY <1>1, <2>2, <2>3
<1> QED  BY <1>5

(* ORDER BY id ASC LIMIT n yields n rows where there are as many.          *)
LEMMA OldestAreMany ==
  ASSUME NEW S \in SUBSET Inspections, NEW n \in Nat, n <= Cardinality(S)
  PROVE  Cardinality(Oldest(S, n)) = n
<1> DEFINE O == Oldest(S, n)
           Before(k) == {x \in S : x < k}
<1>1. O \in SUBSET Inspections /\ O \subseteq S  BY DEF Oldest
<1>2. \A k : Before(k) \in SUBSET Inspections  OBVIOUS
<1>3. \A k \in S : k \in O <=> Cardinality(Before(k)) < n  BY DEF Oldest
<1>4. \A x \in S : x \in Nat  BY SetsOfInspections
<1> HIDE DEF O, Before
<1>5. IsFiniteSet(O) /\ Cardinality(O) \in Nat  BY <1>1, SetsOfInspections
<1>6. \A k : IsFiniteSet(Before(k)) /\ Cardinality(Before(k)) \in Nat
  BY <1>2, SetsOfInspections
<1>7. Cardinality(O) <= n
  <2>1. CASE O = {}
    <3>1. Cardinality({}) = 0  BY FS_EmptySet
    <3> QED  BY <2>1, <3>1
  <2>2. CASE O # {}
    <3>1. PICK m \in O : \A x \in O : x <= m  BY <1>1, <2>2, LastInspection
    <3>2. O \subseteq Before(m) \cup {m}
      BY <1>1, <1>4, <3>1 DEF Before
    <3>3. m \notin Before(m)  BY <1>1, <1>4 DEF Before
    <3>4. /\ Cardinality(Before(m) \cup {m}) = Cardinality(Before(m)) + 1
          /\ IsFiniteSet(Before(m) \cup {m})
      BY <1>6, <3>3, FS_AddElement
    <3>5. Cardinality(O) <= Cardinality(Before(m) \cup {m})
      BY <3>2, <3>4, FS_Subset
    <3>6. Cardinality(Before(m)) < n  BY <1>1, <1>3
    <3>7. Cardinality(Before(m)) \in Nat  BY <1>6
    <3> QED  BY <1>5, <3>4, <3>5, <3>6, <3>7
  <2> QED  BY <2>1, <2>2
<1>8. Cardinality(O) >= n
  <2>1. CASE S \ O = {}
    <3>1. O = S  BY <1>1, <2>1
    <3> QED  BY <1>5, <3>1
  <2>2. CASE S \ O # {}
    <3>1. S \ O \in SUBSET Inspections  OBVIOUS
    <3>2. PICK m \in S \ O : \A x \in S \ O : m <= x
      BY <2>2, <3>1, FirstInspection
    <3>3. Before(m) \subseteq O
      BY <1>4, <3>2 DEF Before
    <3>4. Cardinality(Before(m)) <= Cardinality(O)
      BY <1>5, <3>3, FS_Subset
    <3>5. ~(Cardinality(Before(m)) < n)  BY <1>3
    <3>6. Cardinality(Before(m)) \in Nat  BY <1>6
    <3> QED  BY <1>5, <3>4, <3>5, <3>6
  <2> QED  BY <2>1, <2>2
<1> QED  BY <1>5, <1>7, <1>8 DEF O

(* Between the statements of a prune to_delete stays what was counted.     *)
CountedInv ==
  at \in {"delete detections", "delete inspections"} =>
    /\ Cardinality(view.inspections) > MaxRecords
    /\ toDelete = Cardinality(view.inspections) - MaxRecords

LEMMA CountedInvariant == Spec => []CountedInv
<1>1. Init => CountedInv
  BY DEF Init, CountedInv
<1>2. TypeOK /\ CountedInv /\ [Next]_vars => CountedInv'
  <2> SUFFICES ASSUME TypeOK, CountedInv, [Next]_vars PROVE CountedInv'
    OBVIOUS
  <2>1. CASE PruneCount
    BY <2>1 DEF PruneCount, CountedInv, txVars
  <2>2. CASE DeleteDetections
    <3>1. /\ at = "delete detections" /\ toDelete' = toDelete
      BY <2>2 DEF DeleteDetections, opVars
    <3>2. view'.inspections = view.inspections
      <4>1. CASE UNCHANGED txVars
        BY <4>1 DEF txVars
      <4>2. ASSUME NEW old,
                   Execute([view EXCEPT !.detections =
                             [i \in Inspections |-> IF i \in old THEN 0 ELSE @[i]]])
            PROVE  view'.inspections = view.inspections
        BY <4>2, TablesWithoutDetections DEF Execute, TypeOK
      <4> QED  BY <2>2, <4>1, <4>2 DEF DeleteDetections
    <3> QED  BY <3>1, <3>2 DEF CountedInv
  <2>3. CASE UNCHANGED vars
    BY <2>3 DEF vars, CountedInv, txVars, opVars
  <2>4. CASE Open \/ Close \/ Crash \/ InsertFails \/ Commit \/ DeleteInspections
             \/ InsertInspection \/ InsertDetection
    <3>1. at' \notin {"delete detections", "delete inspections"}
      BY <2>4
      DEF Open, Close, Crash, InsertFails, Commit, DeleteInspections,
          InsertInspection, InsertDetection
    <3> QED  BY <3>1 DEF CountedInv
  <2>5. ASSUME NEW k \in 0 .. MaxDetections, BeginInsert(k) PROVE CountedInv'
    <3>1. at' \in {"idle", "insert inspection"}
      BY <2>5 DEF BeginInsert
    <3> QED  BY <3>1 DEF CountedInv
  <2> QED
    BY <2>1, <2>2, <2>3, <2>4, <2>5 DEF Next
<1> QED  BY <1>1, <1>2, TypeCorrect, PTL DEF Spec

(* A prune that removes anything leaves exactly MaxRecords inspections,    *)
(* also where earlier prunes have failed: to_delete is counted anew, and   *)
(* nothing is inserted between the count and the DELETE.                   *)
THEOREM PruneLeavesTheLimit == Spec => PruneLeavesMaxRecords
<1>1. TypeOK /\ ViewInv /\ CountedInv /\ [Next]_vars
        => [deleted' # deleted => Cardinality(db'.inspections) = MaxRecords]_vars
  <2> SUFFICES ASSUME TypeOK, ViewInv, CountedInv, [Next]_vars, deleted' # deleted
               PROVE  Cardinality(db'.inspections) = MaxRecords
    OBVIOUS
  <2>1. DeleteInspections
    BY DEF Next, Open, Close, Crash, BeginInsert, InsertInspection, InsertDetection,
       InsertFails, Commit, PruneCount, DeleteDetections, vars, histVars
  <2>2. /\ at = "delete inspections"
        /\ deleted' = deleted \cup (db.inspections \ db'.inspections)
    BY <2>1 DEF DeleteInspections
  <2>3. db' # db  BY <2>2
  <2>4. Execute([view EXCEPT !.inspections = @ \ Oldest(@, toDelete)])
    BY <2>1, <2>3 DEF DeleteInspections, txVars
  <2>5. view = db /\ db' = view'
    BY <2>3, <2>4 DEF Execute, ViewInv
  <2> DEFINE S == view.inspections
  <2>6. S \in SUBSET Inspections /\ db'.inspections = S \ Oldest(S, toDelete)
    BY <2>4, <2>5, TablesWithoutInspections, TypedTables DEF Execute, TypeOK
  <2>7. Cardinality(S) > MaxRecords /\ toDelete = Cardinality(S) - MaxRecords
    BY <2>2 DEF CountedInv
  <2>8. toDelete \in Nat /\ MaxRecords \in Nat  BY BoundsAssumption DEF TypeOK
  <2> HIDE DEF S
  <2>9. IsFiniteSet(S) /\ Cardinality(S) \in Nat  BY <2>6, SetsOfInspections
  <2>10. Cardinality(Oldest(S, toDelete)) = toDelete
    BY <2>6, <2>7, <2>8, <2>9, OldestAreMany
  <2>11. S \cap Oldest(S, toDelete) = Oldest(S, toDelete)  BY DEF Oldest
  <2>12. Cardinality(S \ Oldest(S, toDelete)) = Cardinality(S) - toDelete
    <3>1. Cardinality(S \ Oldest(S, toDelete))
            = Cardinality(S) - Cardinality(S \cap Oldest(S, toDelete))
      BY <2>9, FS_Difference
    <3> QED  BY <2>10, <2>11, <3>1
  <2> QED  BY <2>6, <2>7, <2>8, <2>9, <2>12
<1> QED
  BY <1>1, TypeAndView, CountedInvariant, PTL DEF Spec, PruneLeavesMaxRecords
=============================================================================
