-------------------------------- MODULE Logger --------------------------------
(***************************************************************************)
(* The files of Logger, include/edgeai/common/logger.h: log() appends a    *)
(* line to the current file and rotates the files when it has grown to     *)
(* max_file_size_.  Both run under the logger's mutex, so that threads do  *)
(* not appear here; what may come between two steps is a crash of the      *)
(* process and its restart, and each step may fail.                        *)
(*                                                                         *)
(* Lines are numbered in the order log() takes the mutex, and a file is    *)
(* the set of its lines, all of one size.  File 0 is the current one and   *)
(* file i the backup <path>.i.                                             *)
(***************************************************************************)
EXTENDS Integers, FiniteSets

CONSTANTS MaxLines,    \* max_file_size_ in lines, 0 for no rotation
          Backups,     \* max_rotated_files_
          MaxLogged,   \* bound: lines logged
          MaxCrashes   \* bound: crashes of the process

ASSUME BoundsAssumption ==
  /\ MaxLines \in Nat /\ Backups \in Nat
  /\ MaxLogged \in Nat /\ MaxCrashes \in Nat

(* Without backups the current file is renamed to <path>.1 all the same.   *)
LastFile == IF Backups = 0 THEN 1 ELSE Backups
Files == 0 .. LastFile
Lines == 1 .. MaxLogged

VARIABLES
  at,       \* "down", "idle", "written", "shift", "current" or "reopen"
  stream,   \* file_: "closed", "good", or "bad" after a failed write
  present,  \* the files that exist
  lines,    \* the lines of each file
  slot,     \* i of the loop in rotate_files()
  logged,   \* how many lines log() has been given
  missed,   \* history: lines that were written to no file
  broken,   \* history: a remove, a rename or a write has failed
  crashes   \* how often the process has died

diskVars == <<present, lines>>
vars == <<at, stream, diskVars, slot, logged, missed, broken, crashes>>

Init ==
  /\ at = "down" /\ stream = "closed"
  /\ present = {} /\ lines = [i \in Files |-> {}]
  /\ slot = 0 /\ logged = 0 /\ missed = {} /\ broken = FALSE /\ crashes = 0

-----------------------------------------------------------------------------
(* The file system.  Renaming a file that does not exist, like removing    *)
(* one, changes nothing.                                                   *)
Remove(i) ==
  /\ present' = present \ {i}
  /\ lines' = [lines EXCEPT ![i] = {}]

Rename(i, j) ==
  IF i \in present
  THEN /\ present' = (present \ {i}) \cup {j}
       /\ lines' = [lines EXCEPT ![j] = lines[i], ![i] = {}]
  ELSE UNCHANGED diskVars

Try(step) == (step /\ UNCHANGED broken) \/ (broken' = TRUE /\ UNCHANGED diskVars)

(* set_file(), which opens the file to append; where that fails the log    *)
(* goes to the standard output alone.                                      *)
SetFile ==
  /\ at = "down"
  /\ at' = "idle"
  /\ \/ stream' = "good" /\ present' = present \cup {0}
     \/ stream' = "closed" /\ UNCHANGED present
  /\ UNCHANGED <<lines, slot, logged, missed, broken, crashes>>

(* log() without an open file.                                             *)
LogNowhere ==
  /\ at = "idle" /\ stream = "closed"
  /\ logged < MaxLogged
  /\ logged' = logged + 1
  /\ missed' = missed \cup {logged'}
  /\ UNCHANGED <<at, stream, diskVars, slot, broken, crashes>>

(* log() writes and flushes the line.  A write that fails, as on a full    *)
(* disk, leaves the stream bad, and nothing more is written to a bad one.  *)
LogLine ==
  /\ at = "idle" /\ stream # "closed"
  /\ logged < MaxLogged
  /\ logged' = logged + 1
  /\ at' = "written"
  /\ \/ /\ stream = "good"
        /\ lines' = [lines EXCEPT ![0] = @ \cup {logged'}]
        /\ UNCHANGED <<stream, missed, broken>>
     \/ /\ stream' = "bad" /\ broken' = TRUE
        /\ missed' = missed \cup {logged'}
        /\ UNCHANGED lines
  /\ UNCHANGED <<present, slot, crashes>>

(* file_size(): tellp() of a bad stream is -1, which as a size_t exceeds   *)
(* every size.                                                             *)
Full == stream = "bad" \/ Cardinality(lines[0]) >= MaxLines

(* Faulty variant: the current file is left open while it is renamed.      *)
MeasureKeepsOpen ==
  /\ at = "written"
  /\ IF MaxLines > 0 /\ Full
     THEN /\ at' = IF Backups = 0 THEN "current" ELSE "shift"
          /\ slot' = Backups /\ UNCHANGED stream
     ELSE at' = "idle" /\ UNCHANGED <<stream, slot>>
  /\ UNCHANGED <<diskVars, logged, missed, broken, crashes>>

(* The end of log(), or the start of rotate_files().                       *)
Measure ==
  /\ at = "written"
  /\ IF MaxLines > 0 /\ Full
     THEN /\ at' = IF Backups = 0 THEN "current" ELSE "shift"
          /\ stream' = "closed" /\ slot' = Backups
     ELSE at' = "idle" /\ UNCHANGED <<stream, slot>>
  /\ UNCHANGED <<diskVars, logged, missed, broken, crashes>>

(* Faulty variant: the backups are shifted from the newest on.             *)
ShiftUpwards ==
  /\ at = "shift"
  /\ LET i == Backups + 1 - slot
     IN  Try(IF i = Backups THEN Remove(i) ELSE Rename(i, i + 1))
  /\ slot' = slot - 1
  /\ at' = IF slot = 1 THEN "current" ELSE "shift"
  /\ UNCHANGED <<stream, logged, missed, crashes>>

(* The loop of rotate_files(): the oldest backup is removed, the others    *)
(* move up, and errors are ignored.                                        *)
Shift ==
  /\ at = "shift"
  /\ Try(IF slot = Backups THEN Remove(slot) ELSE Rename(slot, slot + 1))
  /\ slot' = slot - 1
  /\ at' = IF slot = 1 THEN "current" ELSE "shift"
  /\ UNCHANGED <<stream, logged, missed, crashes>>

(* Faulty variant: the current file is copied, to be truncated afterwards. *)
CopyCurrent ==
  /\ at = "current"
  /\ Try(/\ present' = present \cup {1}
         /\ lines' = [lines EXCEPT ![1] = lines[0]])
  /\ at' = "reopen"
  /\ UNCHANGED <<stream, slot, logged, missed, crashes>>

RotateCurrent ==
  /\ at = "current"
  /\ Try(Rename(0, 1))
  /\ at' = "reopen"
  /\ UNCHANGED <<stream, slot, logged, missed, crashes>>

(* Faulty variant: the new file is opened to append.                       *)
ReopenToAppend ==
  /\ at = "reopen"
  /\ at' = "idle"
  /\ stream' = "good" /\ present' = present \cup {0}
  /\ UNCHANGED <<lines, slot, logged, missed, broken, crashes>>

(* The new current file, truncated in case it is still there; if it cannot *)
(* be opened, the log is silent from here on.                              *)
Reopen ==
  /\ at = "reopen"
  /\ at' = "idle"
  /\ \/ /\ stream' = "good"
        /\ present' = present \cup {0}
        /\ lines' = [lines EXCEPT ![0] = {}]
     \/ UNCHANGED <<stream, diskVars>>
  /\ UNCHANGED <<slot, logged, missed, broken, crashes>>

Crash ==
  /\ at # "down"
  /\ crashes < MaxCrashes
  /\ crashes' = crashes + 1
  /\ at' = "down" /\ stream' = "closed" /\ slot' = 0
  /\ UNCHANGED <<diskVars, logged, missed, broken>>

Next ==
  \/ SetFile \/ LogNowhere \/ LogLine \/ Measure
  \/ Shift \/ RotateCurrent \/ Reopen \/ Crash

Spec == Init /\ [][Next]_vars
-----------------------------------------------------------------------------
Kept == UNION {lines[i] : i \in Files}

(* Every variable has its type; a file without lines may exist, a file     *)
(* with lines and the file of an open stream do, and rotate_files() works  *)
(* with the stream closed.                                                 *)
TypeOK ==
  /\ at \in {"down", "idle", "written", "shift", "current", "reopen"}
  /\ stream \in {"closed", "good", "bad"}
  /\ at \in {"down", "shift", "current", "reopen"} => stream = "closed"
  /\ at = "idle" /\ MaxLines > 0 => stream # "bad"
  /\ present \subseteq Files /\ lines \in [Files -> SUBSET Lines]
  /\ \A i \in Files : lines[i] # {} => i \in present
  /\ stream # "closed" => 0 \in present
  /\ slot \in 0 .. Backups /\ (at = "shift" => slot > 0)
  /\ logged \in 0 .. MaxLogged /\ missed \subseteq 1 .. logged
  /\ broken \in BOOLEAN /\ crashes \in 0 .. MaxCrashes

(* Read from the last backup to the current file, the log is in order and  *)
(* has no line twice, whatever step of a rotation failed or was cut short  *)
(* by a crash.                                                             *)
FilesInOrder ==
  \A i, j \in Files : j < i => \A k \in lines[i], m \in lines[j] : k < m

(* As long as no step has failed, only the oldest lines go, none before    *)
(* the backups are full: what is kept has no gap, and a process that dies  *)
(* in the middle of a rotation costs one backup at most.                   *)
OnlyOldestLost ==
  ~broken =>
    LET lost == (1 .. logged) \ (Kept \cup missed)
    IN  lost # {} => /\ \A k \in Kept, m \in lost : m < k
                     /\ Cardinality(Kept) >= (Backups - crashes) * MaxLines

(* The disk space is bounded: a file outgrows its maximum only by the      *)
(* lines that restarts add to it before it is rotated.                     *)
FilesBounded ==
  MaxLines > 0 => \A i \in Files : Cardinality(lines[i]) <= MaxLines + crashes
-----------------------------------------------------------------------------
(* What the code's own words promise and the code does not keep.           *)

(* "when the log file exceeds max_file_size_ bytes, the current file is    *)
(* renamed" (logger.h:7): a file becomes a backup when it is full.         *)
RotatesFullFiles ==
  [][at = "current" /\ 0 \in present /\ 0 \notin present' =>
       Cardinality(lines[0]) >= MaxLines]_vars
=============================================================================
