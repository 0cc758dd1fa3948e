--------------------------- MODULE DefectDatabase ---------------------------
(***************************************************************************)
(* The writing side of DefectDatabase, src/db/defect_database.cpp: its two *)
(* tables, insert_result() and prune(), one SQL statement per step.  The   *)
(* class's mutex keeps its operations apart; a crash does not, and neither *)
(* does a reader in another process (the dashboard), which sees the        *)
(* committed tables after every step.                                      *)
(*                                                                         *)
(* An inspection is the number of the call that inserts it, which orders   *)
(* inspections as their AUTOINCREMENT ids do.  SQLite is modelled by what  *)
(* it promises: a transaction takes effect at COMMIT or not at all, and a  *)
(* statement outside one is a transaction of its own.                      *)
(***************************************************************************)
EXTENDS Naturals, FiniteSets

CONSTANTS MaxRecords,      \* the argument prune() is called with
          MaxDetections,   \* bound: detections of an inspection
          MaxInserts       \* bound: calls of insert_result()

ASSUME BoundsAssumption ==
  /\ MaxRecords \in Nat \ {0}
  /\ MaxDetections \in Nat /\ MaxInserts \in Nat

Inspections == 1 .. MaxInserts
Tables == [inspections : SUBSET Inspections,
           detections : [Inspections -> 0 .. MaxDetections]]

VARIABLES
  at,           \* "closed", "idle", or the next statement of the operation
  db,           \* the committed tables
  view,         \* the tables as the connection sees them
  inTx,         \* the connection has a transaction open
  calls,        \* how many times insert_result() has been called
  left,         \* detections the current insert_result() has yet to insert
  toDelete,     \* to_delete of the current prune()
  size,         \* num_detections, per inspection
  acked,        \* history: inspections insert_result() returned true for
  deleted,      \* history: inspections that a prune has removed
  failedCommit, \* history: a COMMIT has failed
  failedDelete, \* history: a DELETE of a prune has failed
  cutShort      \* history: a crash came between the two DELETEs of a prune

txVars == <<db, view, inTx>>
opVars == <<calls, left, toDelete, size>>
histVars == <<acked, deleted, failedCommit, failedDelete, cutShort>>
vars == <<at, txVars, opVars, histVars>>

Empty == [inspections |-> {}, detections |-> [i \in Inspections |-> 0]]

Init ==
  /\ at = "closed"
  /\ db = Empty /\ view = Empty /\ inTx = FALSE
  /\ calls = 0 /\ left = 0 /\ toDelete = 0
  /\ size = [i \in Inspections |-> 0]
  /\ acked = {} /\ deleted = {}
  /\ failedCommit = FALSE /\ failedDelete = FALSE /\ cutShort = FALSE

-----------------------------------------------------------------------------
(* The connection: a statement changes its view, which is committed at     *)
(* once unless a transaction is open.                                      *)
Execute(tables) ==
  /\ view' = tables
  /\ db' = IF inTx THEN db ELSE tables
  /\ UNCHANGED inTx

Rollback == view' = db /\ inTx' = FALSE /\ UNCHANGED db

Open ==
  /\ at = "closed"
  /\ at' = "idle"
  /\ UNCHANGED <<txVars, opVars, histVars>>

(* Closing the connection ends an open transaction.                        *)
Close ==
  /\ at = "idle"
  /\ at' = "closed"
  /\ Rollback
  /\ UNCHANGED <<opVars, histVars>>

(* The process dies between two statements.                                *)
Crash ==
  /\ at \notin {"closed", "idle"}
  /\ at' = "closed"
  /\ left' = 0 /\ toDelete' = 0
  /\ Rollback
  /\ cutShort' = (cutShort \/ at = "delete inspections")
  /\ UNCHANGED <<calls, size, acked, deleted, failedCommit, failedDelete>>

-----------------------------------------------------------------------------
(* Faulty variant: no transaction.                                         *)
InsertWithoutBegin(k) ==
  /\ at = "idle"
  /\ calls < MaxInserts
  /\ calls' = calls + 1
  /\ left' = k /\ size' = [size EXCEPT ![calls + 1] = k]
  /\ at' = "insert inspection"
  /\ UNCHANGED <<txVars, toDelete, histVars>>

(* insert_result, in the order of its statements.  BEGIN fails inside a    *)
(* transaction, and may fail otherwise.                                    *)
BeginInsert(k) ==
  /\ at = "idle"
  /\ calls < MaxInserts
  /\ calls' = calls + 1
  /\ \/ /\ ~inTx
        /\ inTx' = TRUE /\ at' = "insert inspection"
        /\ left' = k /\ size' = [size EXCEPT ![calls + 1] = k]
     \/ UNCHANGED <<at, inTx, left, size>>
  /\ UNCHANGED <<db, view, toDelete, histVars>>

InsertInspection ==
  /\ at = "insert inspection"
  /\ Execute([view EXCEPT !.inspections = @ \cup {calls}])
  /\ at' = IF left > 0 THEN "insert detection" ELSE "commit"
  /\ UNCHANGED <<opVars, histVars>>

(* Faulty variant: the loop runs once too often.                           *)
InsertOneMore ==
  /\ at = "insert detection"
  /\ Execute([view EXCEPT !.detections[calls] = @ + 1])
  /\ left' = left - 1
  /\ at' = IF left > 0 THEN "insert detection" ELSE "commit"
  /\ UNCHANGED <<calls, toDelete, size, histVars>>

InsertDetection ==
  /\ at = "insert detection"
  /\ Execute([view EXCEPT !.detections[calls] = @ + 1])
  /\ left' = left - 1
  /\ at' = IF left' > 0 THEN "insert detection" ELSE "commit"
  /\ UNCHANGED <<calls, toDelete, size, histVars>>

(* An INSERT that fails: ROLLBACK, and false.                              *)
InsertFails ==
  /\ at \in {"insert inspection", "insert detection"}
  /\ at' = "idle"
  /\ left' = 0
  /\ Rollback
  /\ UNCHANGED <<calls, toDelete, size, histVars>>

(* Faulty variant: an inspection without detections returns early.         *)
CommitIfDetections ==
  /\ at = "commit"
  /\ at' = "idle"
  /\ acked' = acked \cup {calls}
  /\ IF size[calls] > 0 THEN db' = view /\ inTx' = FALSE /\ UNCHANGED view
     ELSE UNCHANGED txVars
  /\ UNCHANGED <<opVars, deleted, failedCommit, failedDelete, cutShort>>

(* COMMIT, then true.  Nothing looks at the result of COMMIT: where it     *)
(* fails, the transaction has been rolled back or is still open.           *)
Commit ==
  /\ at = "commit"
  /\ at' = "idle"
  /\ acked' = acked \cup {calls}
  /\ \/ db' = view /\ inTx' = FALSE /\ UNCHANGED <<view, failedCommit>>
     \/ failedCommit' = TRUE /\ (Rollback \/ UNCHANGED txVars)
  /\ UNCHANGED <<opVars, deleted, failedDelete, cutShort>>

-----------------------------------------------------------------------------
(* Faulty variant: ORDER BY id DESC.                                       *)
Newest(S, n) == {i \in S : Cardinality({j \in S : j > i}) < n}

(* SELECT id FROM inspections ORDER BY id ASC LIMIT n.                     *)
Oldest(S, n) == {i \in S : Cardinality({j \in S : j < i}) < n}

(* prune, in the order of its statements.  With no more than MaxRecords    *)
(* rows, or when counting them fails, it returns at once.                  *)
PruneCount ==
  /\ at = "idle"
  /\ Cardinality(view.inspections) > MaxRecords
  /\ toDelete' = Cardinality(view.inspections) - MaxRecords
  /\ at' = "delete detections"
  /\ UNCHANGED <<txVars, calls, left, size, histVars>>

(* The DELETEs are no transaction, and nothing looks at their results.     *)
DeleteDetections ==
  /\ at = "delete detections"
  /\ at' = "delete inspections"
  /\ \/ LET old == Oldest(view.inspections, toDelete)
        IN  /\ Execute([view EXCEPT !.detections =
                         [i \in Inspections |-> IF i \in old THEN 0 ELSE @[i]]])
            /\ UNCHANGED failedDelete
     \/ failedDelete' = TRUE /\ UNCHANGED txVars
  /\ UNCHANGED <<opVars, acked, deleted, failedCommit, cutShort>>

DeleteInspections ==
  /\ at = "delete inspections"
  /\ at' = "idle"
  /\ \/ /\ Execute([view EXCEPT !.inspections = @ \ Oldest(@, toDelete)])
        /\ UNCHANGED failedDelete
     \/ failedDelete' = TRUE /\ UNCHANGED txVars
  /\ deleted' = deleted \cup (db.inspections \ db'.inspections)
  /\ toDelete' = 0
  /\ UNCHANGED <<calls, left, size, acked, failedCommit, cutShort>>

Next ==
  \/ Open \/ Close \/ Crash
  \/ \E k \in 0 .. MaxDetections : BeginInsert(k)
  \/ InsertInspection \/ InsertDetection \/ InsertFails \/ Commit
  \/ PruneCount \/ DeleteDetections \/ DeleteInspections

Spec == Init /\ [][Next]_vars
-----------------------------------------------------------------------------
Statements == {"insert inspection", "insert detection", "commit",
               "delete detections", "delete inspections"}

(* Every variable has its type.                                            *)
TypeOK ==
  /\ at \in {"closed", "idle"} \cup Statements
  /\ db \in Tables /\ view \in Tables
  /\ inTx \in BOOLEAN
  /\ calls \in 0 .. MaxInserts
  /\ left \in 0 .. MaxDetections
  /\ toDelete \in 0 .. MaxInserts
  /\ size \in [Inspections -> 0 .. MaxDetections]
  /\ acked \subseteq Inspections /\ deleted \subseteq Inspections
  /\ failedCommit \in BOOLEAN /\ failedDelete \in BOOLEAN /\ cutShort \in BOOLEAN

(* The committed tables agree: an inspection has all its detections and    *)
(* there are none without one, whatever failed and wherever the process    *)
(* died, as long as that was not within a prune.  Another process sees     *)
(* exactly these tables.                                                   *)
TablesAgree ==
  at # "delete inspections" /\ ~failedDelete /\ ~cutShort =>
    \A i \in Inspections :
      db.detections[i] = IF i \in db.inspections THEN size[i] ELSE 0

(* What insert_result() returned true for is committed and outlives every  *)
(* crash until it is pruned, unless a COMMIT failed.                       *)
AckedIsDurable == ~failedCommit => acked \subseteq db.inspections \cup deleted

(* A prune removes the oldest inspections, also if it is interrupted,      *)
(* fails half way, or runs inside a transaction that was left open.        *)
PruneRemovesOldest ==
  \A i \in deleted, j \in db.inspections : i < j

(* A prune leaves MaxRecords inspections, and a second one after a failure *)
(* does not take more.                                                     *)
PruneLeavesMaxRecords ==
  [][deleted' # deleted => Cardinality(db'.inspections) = MaxRecords]_vars
-----------------------------------------------------------------------------
(* What the code's own words promise and the code does not keep.           *)

(* "A crash mid-write cannot leave orphaned inspection rows"               *)
(* (README.md:439): after a crash every inspection has its detections,     *)
(* provided no statement of a prune failed.                                *)
NoOrphansAfterCrash ==
  at = "closed" /\ ~failedDelete =>
    \A i \in db.inspections : db.detections[i] = size[i]
=============================================================================
