---------------------------- MODULE LoggerProofs ----------------------------
(***************************************************************************)
(* Proofs about Logger, for every size of the files, number of backups,    *)
(* of lines and of crashes.                                                *)
(***************************************************************************)
EXTENDS Logger, FiniteSetTheorems, TLAPS

LEMMA FileNumbers ==
  /\ Files \subseteq Nat /\ 0 \in Files /\ 1 \in Files
  /\ \A i \in 1 .. Backups : i \in Files
  /\ \A i \in Files : Backups > 0 => i <= Backups
  /\ \A i \in Files : Backups = 0 => i \in {0, 1}
BY BoundsAssumption DEF Files, LastFile

(* Sets of lines are finite, and those of disjoint files add up.           *)
LEMMA SetsOfLines ==
  ASSUME NEW S \in SUBSET Lines
  PROVE  IsFiniteSet(S) /\ Cardinality(S) \in Nat
<1>1. IsFiniteSet(Lines)
  BY BoundsAssumption, FS_Interval DEF Lines
<1> QED  BY <1>1, FS_Subset, FS_CardinalityType

LEMMA FewerLines ==
  ASSUME NEW S \in SUBSET Lines, NEW T \in SUBSET S
  PROVE  Cardinality(T) <= Cardinality(S)
BY SetsOfLines, FS_Subset

LEMMA LinesAddUp ==
  ASSUME NEW S \in SUBSET Lines, NEW T \in SUBSET Lines, S \cap T = {}
  PROVE  Cardinality(S \cup T) = Cardinality(S) + Cardinality(T)
<1>1. Cardinality(S \cup T) = Cardinality(S) + Cardinality(T) - Cardinality({})
  BY SetsOfLines, FS_Union
<1> QED  BY <1>1, SetsOfLines, FS_EmptySet

LEMMA OneMoreLine ==
  ASSUME NEW S \in SUBSET Lines, NEW k
  PROVE  Cardinality(S \cup {k}) <= Cardinality(S) + 1
BY SetsOfLines, FS_AddElement

-----------------------------------------------------------------------------
(* What the steps make of the files.                                       *)
Same(i) == lines'[i] = lines[i]

Moved(i, j) ==
  /\ i # j /\ lines'[i] = {}
  /\ lines'[j] = lines[i] \/ (lines[i] = {} /\ Same(j))
  /\ \A f \in Files \ {i, j} : Same(f)

LEMMA RenameMoves ==
  ASSUME TypeOK, NEW i \in Files, NEW j \in Files, i # j, Rename(i, j)
  PROVE  /\ Moved(i, j) /\ present' \subseteq Files
         /\ lines' \in [Files -> SUBSET Lines]
         /\ \A f \in Files : lines'[f] # {} => f \in present'
BY DEF TypeOK, Rename, Moved, Same, diskVars

LEMMA RemoveEmpties ==
  ASSUME TypeOK, NEW i \in Files, Remove(i)
  PROVE  /\ lines'[i] = {} /\ (\A f \in Files \ {i} : Same(f))
         /\ present' \subseteq Files
         /\ lines' \in [Files -> SUBSET Lines]
         /\ \A f \in Files : lines'[f] # {} => f \in present'
BY DEF TypeOK, Remove, Same

(* A step of rotate_files() either fails, and changes no file, or does     *)
(* what it is for.                                                         *)
ShiftFails == broken' = TRUE /\ UNCHANGED diskVars

OldestRemoved ==
  /\ slot = Backups /\ UNCHANGED broken
  /\ lines'[slot] = {} /\ \A f \in Files \ {slot} : Same(f)

BackupMoved ==
  slot < Backups /\ slot + 1 \in Files /\ UNCHANGED broken /\ Moved(slot, slot + 1)

LEMMA ShiftEffect ==
  ASSUME TypeOK, Shift
  PROVE  /\ slot \in 1 .. Backups /\ slot \in Files
         /\ ShiftFails \/ OldestRemoved \/ BackupMoved
         /\ present' \subseteq Files
         /\ lines' \in [Files -> SUBSET Lines]
         /\ \A f \in Files : lines'[f] # {} => f \in present'
<1>1. slot \in 1 .. Backups /\ slot \in Files
  BY BoundsAssumption, FileNumbers DEF TypeOK, Shift
<1>2. \/ UNCHANGED broken /\ slot = Backups /\ Remove(slot)
      \/ UNCHANGED broken /\ slot # Backups /\ Rename(slot, slot + 1)
      \/ ShiftFails
  BY Zenon DEF Shift, Try, ShiftFails
<1>3. CASE UNCHANGED broken /\ slot = Backups /\ Remove(slot)
  BY <1>1, <1>3, RemoveEmpties DEF OldestRemoved
<1>4. CASE UNCHANGED broken /\ slot # Backups /\ Rename(slot, slot + 1)
  <2>1. slot < Backups /\ slot + 1 \in Files /\ slot + 1 # slot
    BY <1>1, <1>4, BoundsAssumption, FileNumbers
  <2> QED  BY <1>1, <1>4, <2>1, RenameMoves DEF BackupMoved
<1>5. CASE ShiftFails
  BY <1>1, <1>5 DEF TypeOK, ShiftFails, diskVars
<1> QED  BY <1>1, <1>2, <1>3, <1>4, <1>5

LEMMA RotateEffect ==
  ASSUME TypeOK, RotateCurrent
  PROVE  /\ ShiftFails \/ (UNCHANGED broken /\ Moved(0, 1))
         /\ present' \subseteq Files
         /\ lines' \in [Files -> SUBSET Lines]
         /\ \A f \in Files : lines'[f] # {} => f \in present'
<1>1. (UNCHANGED broken /\ Rename(0, 1)) \/ ShiftFails
  BY Zenon DEF RotateCurrent, Try, ShiftFails
<1>2. CASE UNCHANGED broken /\ Rename(0, 1)
  BY <1>2, FileNumbers, RenameMoves
<1>3. CASE ShiftFails
  BY <1>3 DEF TypeOK, ShiftFails, diskVars
<1> QED  BY <1>1, <1>2, <1>3

(* Every reachable state has the types TypeOK gives.                       *)
THEOREM TypeCorrect == Spec => []TypeOK
<1>1. Init => TypeOK
  <2>1. 0 \in 0 .. Backups /\ 0 \in 0 .. MaxLogged /\ 0 \in 0 .. MaxCrashes
    BY BoundsAssumption
  <2> QED  BY <2>1, Zenon DEF Init, TypeOK
<1>2. TypeOK /\ [Next]_vars => TypeOK'
  <2> SUFFICES ASSUME TypeOK, [Next]_vars PROVE TypeOK'
    OBVIOUS
  <2>1. CASE SetFile
    BY <2>1, FileNumbers DEF SetFile, TypeOK
  <2>2. CASE LogNowhere
    BY <2>2, BoundsAssumption DEF LogNowhere, TypeOK, diskVars
  <2>3. CASE LogLine
    <3>1. logged' \in 0 .. MaxLogged /\ logged' \in Lines
      BY <2>3, BoundsAssumption DEF LogLine, TypeOK, Lines
    <3>2. missed' \subseteq 1 .. logged'
      <4>1. missed \subseteq 1 .. logged /\ logged \in Nat /\ logged' = logged + 1
        BY <2>3 DEF LogLine, TypeOK
      <4>2. 1 .. logged \subseteq 1 .. logged' /\ logged' \in 1 .. logged'
        BY <4>1
      <4>3. missed' = missed \/ missed' = missed \cup {logged'}
        BY <2>3 DEF LogLine
      <4> QED  BY <4>1, <4>2, <4>3, Zenon
    <3>4. broken' \in BOOLEAN
      BY <2>3, Zenon DEF LogLine, TypeOK
    <3>3. /\ lines' \in [Files -> SUBSET Lines]
          /\ \A i \in Files : lines'[i] # {} => i \in present'
      BY <2>3, <3>1, FileNumbers DEF LogLine, TypeOK
    <3> QED  BY <2>3, <3>1, <3>2, <3>3, <3>4 DEF LogLine, TypeOK
  <2>4. CASE Measure
    BY <2>4, BoundsAssumption DEF Measure, TypeOK, Full, diskVars
  <2>5. CASE Shift
    <3>1. broken' \in BOOLEAN
      BY <2>5, ShiftEffect, Zenon DEF TypeOK, ShiftFails, OldestRemoved, BackupMoved
    <3> QED  BY <2>5, <3>1, ShiftEffect, BoundsAssumption DEF Shift, TypeOK
  <2>6. CASE RotateCurrent
    <3>1. broken' \in BOOLEAN
      BY <2>6, RotateEffect, Zenon DEF TypeOK, ShiftFails
    <3> QED  BY <2>6, <3>1, RotateEffect DEF RotateCurrent, TypeOK
  <2>7. CASE Reopen
    BY <2>7, FileNumbers DEF Reopen, TypeOK, diskVars
  <2>8. CASE Crash
    BY <2>8, BoundsAssumption DEF Crash, TypeOK, diskVars
  <2>9. CASE UNCHANGED vars
    BY <2>9 DEF TypeOK, vars, diskVars
  <2> QED  BY <2>1, <2>2, <2>3, <2>4, <2>5, <2>6, <2>7, <2>8, <2>9 DEF Next
<1> QED  BY <1>1, <1>2, PTL DEF Spec

-----------------------------------------------------------------------------
(* No line is newer than the last one logged, and the files are in order.  *)
LinesInv ==
  /\ \A i \in Files : \A k \in lines[i] : k <= logged
  /\ FilesInOrder

LEMMA MovedInOrder ==
  ASSUME LinesInv, NEW i \in Files, i + 1 \in Files, Moved(i, i + 1), UNCHANGED logged
  PROVE  LinesInv'
<1>1. Files \subseteq Nat
  BY FileNumbers
<1>2. \A f \in Files : lines'[f] \subseteq lines[f] \/ (f = i + 1 /\ lines'[f] = lines[i])
  BY <1>1 DEF Moved, Same
<1>3. ASSUME NEW f \in Files, NEW g \in Files, g < f, NEW k \in lines'[f], NEW m \in lines'[g]
      PROVE  k < m
  <2>1. g # i
    BY <1>3 DEF Moved
  <2>2. CASE lines'[f] \subseteq lines[f] /\ lines'[g] \subseteq lines[g]
    BY <1>3, <2>2 DEF LinesInv, FilesInOrder
  <2>3. CASE f = i + 1 /\ lines'[f] = lines[i]
    <3>1. g < i /\ lines'[g] \subseteq lines[g]
      BY <1>1, <1>2, <1>3, <2>1, <2>3
    <3> QED  BY <1>3, <2>3, <3>1 DEF LinesInv, FilesInOrder
  <2>4. CASE g = i + 1 /\ lines'[g] = lines[i]
    <3>1. i < f /\ lines'[f] \subseteq lines[f]
      BY <1>1, <1>2, <1>3, <2>4
    <3> QED  BY <1>3, <2>4, <3>1 DEF LinesInv, FilesInOrder
  <2> QED  BY <1>2, <2>2, <2>3, <2>4
<1>4. \A f \in Files : \A k \in lines'[f] : k <= logged'
  BY <1>2 DEF LinesInv
<1> QED  BY <1>3, <1>4 DEF LinesInv, FilesInOrder

LEMMA FewerInOrder ==
  ASSUME LinesInv, \A f \in Files : lines'[f] \subseteq lines[f],
         logged \in Nat, logged' \in {logged, logged + 1},
         \A f \in Files : lines[f] \subseteq Nat
  PROVE  LinesInv'
<1>1. \A f \in Files : \A k \in lines'[f] : k <= logged'
  BY DEF LinesInv
<1> QED  BY <1>1 DEF LinesInv, FilesInOrder

(* The types and the order are inductive together.                         *)
LEMMA TypeAndLines == Spec => [](TypeOK /\ LinesInv)
<1>1. Init => LinesInv
  BY DEF Init, LinesInv, FilesInOrder
<1>2. TypeOK /\ LinesInv /\ [Next]_vars => LinesInv'
  <2> SUFFICES ASSUME TypeOK, LinesInv, [Next]_vars PROVE LinesInv'
    OBVIOUS
  <2>1. logged \in Nat /\ \A f \in Files : lines[f] \subseteq Nat
    BY BoundsAssumption DEF TypeOK, Lines
  <2>2. CASE LogLine
    <3>1. CASE UNCHANGED lines
      BY <2>1, <2>2, <3>1, FewerInOrder DEF LogLine
    <3>2. CASE lines' = [lines EXCEPT ![0] = @ \cup {logged'}]
      <4>1. /\ lines'[0] = lines[0] \cup {logged + 1}
            /\ \A f \in Files \ {0} : lines'[f] = lines[f]
        BY <2>2, <3>2, FileNumbers DEF LogLine, TypeOK
      <4>2. \A f \in Files : \A k \in lines'[f] : k <= logged + 1
        BY <2>1, <4>1 DEF LinesInv
      <4>3. ASSUME NEW f \in Files, NEW g \in Files, g < f,
                   NEW k \in lines'[f], NEW m \in lines'[g]
            PROVE  k < m
        <5>1. f # 0 /\ k \in lines[f] /\ k <= logged /\ k \in Nat
          BY <2>1, <4>1, <4>3, FileNumbers DEF LinesInv
        <5>2. CASE m \in lines[g]
          BY <4>3, <5>1, <5>2 DEF LinesInv, FilesInOrder
        <5>3. CASE m = logged + 1
          BY <2>1, <5>1, <5>3
        <5> QED  BY <4>1, <5>2, <5>3
      <4> QED  BY <2>2, <4>2, <4>3 DEF LogLine, LinesInv, FilesInOrder
    <3> QED  BY <2>2, <3>1, <3>2 DEF LogLine
  <2>3. CASE Shift
    <3>1. UNCHANGED logged
      BY <2>3 DEF Shift
    <3>2. CASE ShiftFails
      BY <2>1, <3>1, <3>2, FewerInOrder DEF ShiftFails, diskVars
    <3>3. CASE OldestRemoved
      BY <2>1, <3>1, <3>3, FewerInOrder DEF OldestRemoved, Same
    <3>4. CASE BackupMoved
      BY <2>3, <3>1, <3>4, ShiftEffect, MovedInOrder DEF BackupMoved
    <3> QED  BY <2>3, <3>2, <3>3, <3>4, ShiftEffect
  <2>4. CASE RotateCurrent
    <3>1. UNCHANGED logged
      BY <2>4 DEF RotateCurrent
    <3>2. CASE ShiftFails
      BY <2>1, <3>1, <3>2, FewerInOrder DEF ShiftFails, diskVars
    <3>3. CASE Moved(0, 1)
      <4>1. 0 + 1 = 1
        OBVIOUS
      <4> QED  BY <3>1, <3>3, <4>1, FileNumbers, MovedInOrder
    <3> QED  BY <2>4, <3>2, <3>3, RotateEffect
  <2>5. CASE Reopen
    BY <2>1, <2>5, FewerInOrder DEF Reopen, TypeOK, diskVars
  <2>6. CASE SetFile \/ LogNowhere \/ Measure \/ Crash \/ UNCHANGED vars
    <3>1. lines' = lines /\ logged' \in {logged, logged + 1}
      BY <2>6 DEF SetFile, LogNowhere, Measure, Crash, vars, diskVars
    <3> QED  BY <2>1, <3>1, FewerInOrder
  <2> QED  BY <2>2, <2>3, <2>4, <2>5, <2>6 DEF Next
<1> QED  BY <1>1, <1>2, TypeCorrect, PTL DEF Spec

(* From the last backup to the current file the lines are in the order     *)
(* they were logged in, and none is there twice: whatever removes, renames *)
(* and writes fail, and wherever in a rotation the process dies.           *)
THEOREM FilesStayInOrder == Spec => []FilesInOrder
<1>1. LinesInv => FilesInOrder
  BY DEF LinesInv
<1> QED  BY <1>1, TypeAndLines, PTL

-----------------------------------------------------------------------------
(* A file that log() still appends to, or will append to after a restart,  *)
(* has less than the bound: one line more than MaxLines needs a crash      *)
(* between the write and the rotation.                                     *)
Appending == at = "down" \/ (at = "idle" /\ stream # "closed")

SizeInv ==
  MaxLines > 0 =>
    /\ FilesBounded
    /\ Appending => Cardinality(lines[0]) < MaxLines + crashes

LEMMA SizesKept ==
  ASSUME TypeOK, SizeInv, crashes' = crashes,
         \A f \in Files : \E g \in Files : lines'[f] \subseteq lines[g],
         Appending' => Appending /\ lines'[0] \subseteq lines[0]
  PROVE  SizeInv'
<1>1. \A f \in Files : lines[f] \in SUBSET Lines
  BY DEF TypeOK
<1> SUFFICES ASSUME MaxLines > 0 PROVE SizeInv'
  BY DEF SizeInv
<1>2. ASSUME NEW f \in Files PROVE Cardinality(lines'[f]) <= MaxLines + crashes
  <2>1. PICK g \in Files : lines'[f] \subseteq lines[g]
    OBVIOUS
  <2>2. lines'[f] \in SUBSET Lines /\ Cardinality(lines[g]) <= MaxLines + crashes
    BY <1>1, <2>1 DEF SizeInv, FilesBounded
  <2>3. Cardinality(lines'[f]) <= Cardinality(lines[g])
    BY <1>1, <2>1, FewerLines
  <2>4. Cardinality(lines'[f]) \in Nat /\ Cardinality(lines[g]) \in Nat
    BY <1>1, <2>2, SetsOfLines
  <2> QED  BY <2>2, <2>3, <2>4, BoundsAssumption DEF TypeOK
<1>3. ASSUME Appending' PROVE Cardinality(lines'[0]) < MaxLines + crashes
  <2>1. lines[0] \in SUBSET Lines /\ lines'[0] \in SUBSET lines[0] /\ lines'[0] \in SUBSET Lines
    BY <1>1, <1>3, FileNumbers
  <2>2. Cardinality(lines'[0]) <= Cardinality(lines[0])
    BY <2>1, FewerLines
  <2>3. Cardinality(lines'[0]) \in Nat /\ Cardinality(lines[0]) \in Nat
    BY <2>1, SetsOfLines
  <2>4. Cardinality(lines[0]) < MaxLines + crashes
    BY <1>3 DEF SizeInv
  <2> QED  BY <2>2, <2>3, <2>4, BoundsAssumption DEF TypeOK
<1> QED  BY <1>2, <1>3 DEF SizeInv, FilesBounded

(* No file outgrows its maximum by more than a line per crash.             *)
THEOREM FilesStayBounded == Spec => []FilesBounded
<1>1. Init => SizeInv
  BY BoundsAssumption, FS_EmptySet, FileNumbers DEF Init, SizeInv, FilesBounded
<1>2. TypeOK /\ SizeInv /\ [Next]_vars => SizeInv'
  <2> SUFFICES ASSUME TypeOK, SizeInv, [Next]_vars PROVE SizeInv'
    OBVIOUS
  <2>1. /\ \A f \in Files : lines[f] \in SUBSET Lines /\ Cardinality(lines[f]) \in Nat
        /\ crashes \in Nat /\ MaxLines \in Nat /\ 0 \in Files
    BY SetsOfLines, BoundsAssumption, FileNumbers DEF TypeOK
  <2>2. CASE LogLine
    <3>1. ~Appending' /\ crashes' = crashes /\ Appending
      BY <2>2 DEF LogLine, Appending
    <3>2. CASE UNCHANGED lines
      BY <3>1, <3>2, SizesKept
    <3>3. CASE lines' = [lines EXCEPT ![0] = @ \cup {logged'}]
      <4>1. /\ lines'[0] = lines[0] \cup {logged'}
            /\ \A f \in Files \ {0} : lines'[f] = lines[f]
        BY <3>3, FileNumbers DEF TypeOK
      <4>2. Cardinality(lines'[0]) <= Cardinality(lines[0]) + 1
        BY <2>1, <4>1, OneMoreLine
      <4>3. lines'[0] \in SUBSET Lines
        BY <2>2, <2>1, <4>1, BoundsAssumption DEF LogLine, TypeOK, Lines
      <4>4. Cardinality(lines'[0]) \in Nat
        BY <4>3, SetsOfLines
      <4>5. MaxLines > 0 => Cardinality(lines'[0]) <= MaxLines + crashes
        BY <2>1, <3>1, <4>2, <4>4 DEF SizeInv
      <4> QED  BY <3>1, <4>1, <4>5 DEF SizeInv, FilesBounded
    <3> QED  BY <2>2, <3>2, <3>3 DEF LogLine
  <2>3. CASE Measure
    <3>1. UNCHANGED <<lines, crashes>>
      BY <2>3 DEF Measure, diskVars
    <3>2. CASE at' = "idle"
      <4>1. MaxLines > 0 => Cardinality(lines[0]) < MaxLines
        BY <2>1, <2>3, <3>2 DEF Measure, Full
      <4> QED  BY <2>1, <3>1, <4>1 DEF SizeInv, FilesBounded
    <3>3. CASE at' # "idle"
      <4>1. ~Appending'
        BY <2>3, <3>3 DEF Measure, Appending
      <4> QED  BY <3>1, <4>1 DEF SizeInv, FilesBounded
    <3> QED  BY <3>2, <3>3
  <2>4. CASE Shift
    <3>1. ~Appending' /\ crashes' = crashes
      BY <2>4 DEF Shift, Appending
    <3>2. \A f \in Files : \E g \in Files : lines'[f] \subseteq lines[g]
      BY <2>4, ShiftEffect DEF ShiftFails, OldestRemoved, BackupMoved, Moved, Same, diskVars
    <3> QED  BY <3>1, <3>2, SizesKept
  <2>5. CASE RotateCurrent
    <3>1. ~Appending' /\ crashes' = crashes
      BY <2>5 DEF RotateCurrent, Appending
    <3>2. \A f \in Files : \E g \in Files : lines'[f] \subseteq lines[g]
      BY <2>5, RotateEffect, FileNumbers DEF ShiftFails, Moved, Same, diskVars
    <3> QED  BY <3>1, <3>2, SizesKept
  <2>6. CASE Reopen
    <3>1. CASE UNCHANGED <<stream, diskVars>>
      <4>1. ~Appending' /\ crashes' = crashes /\ lines' = lines
        BY <2>6, <3>1 DEF Reopen, Appending, TypeOK, diskVars
      <4> QED  BY <4>1 DEF SizeInv, FilesBounded
    <3>2. CASE lines' = [lines EXCEPT ![0] = {}]
      <4>1. lines'[0] = {} /\ \A f \in Files \ {0} : lines'[f] = lines[f]
        BY <3>2, FileNumbers DEF TypeOK
      <4>2. Cardinality(lines'[0]) = 0 /\ crashes' = crashes
        BY <2>6, <4>1, FS_EmptySet DEF Reopen
      <4> QED  BY <2>1, <4>1, <4>2 DEF SizeInv, FilesBounded
    <3> QED  BY <2>6, <3>1, <3>2 DEF Reopen
  <2>7. CASE Crash
    <3>1. lines' = lines /\ crashes' = crashes + 1
      BY <2>7 DEF Crash, diskVars
    <3> QED  BY <2>1, <3>1 DEF SizeInv, FilesBounded
  <2>8. CASE SetFile \/ LogNowhere \/ UNCHANGED vars
    <3>1. lines' = lines /\ crashes' = crashes /\ (Appending' => Appending)
      BY <2>8 DEF SetFile, LogNowhere, vars, diskVars, Appending
    <3> QED  BY <3>1 DEF SizeInv, FilesBounded
  <2> QED  BY <2>2, <2>3, <2>4, <2>5, <2>6, <2>7, <2>8 DEF Next
<1>3. TypeOK /\ SizeInv => FilesBounded
  BY DEF SizeInv, FilesBounded
<1> QED  BY <1>1, <1>2, <1>3, TypeCorrect, PTL DEF Spec

-----------------------------------------------------------------------------
(* The lines that are gone, and those in the backups below number t.       *)
Lost == (1 .. logged) \ (Kept \cup missed)
Newer(t) == UNION {lines[i] : i \in 1 .. t - 1}

(* A rotation that is under way has moved the backups above `slot`, and    *)
(* left a gap under them that the current file will fill.                  *)
Shifted(t) == IF at \in {"shift", "current"} /\ t > slot + 1 THEN 1 ELSE 0

(* What must be in the backups below t when t has lines, or when a line    *)
(* has gone from behind the last: MaxLines for each of them, less one      *)
(* backup per crash and the gap.                                           *)
Due(t) == (t - 1 - Shifted(t) - crashes) * MaxLines
Held(t) == IF t > Backups THEN Lost # {} ELSE lines[t] # {}

ShapeInv ==
  /\ stream # "bad"
  /\ at \in {"shift", "current"} => MaxLines > 0 /\ Cardinality(lines[0]) >= MaxLines
  /\ at = "shift" /\ slot < Backups => lines[slot + 1] = {}
  /\ at = "current" => slot = 0 /\ (Backups > 0 => lines[1] = {})
  /\ at = "reopen" => lines[0] = {}

OldestInv == \A k \in Kept, m \in Lost : m < k

CountInv == \A t \in 1 .. Backups + 1 : Held(t) => Cardinality(Newer(t)) >= Due(t)

KeptInv == ~broken => ShapeInv /\ OldestInv /\ CountInv

(* A multiple of MaxLines grows with its factor.                           *)
LEMMA Multiples ==
  ASSUME NEW a \in Int, NEW b \in Int
  PROVE  /\ a * MaxLines \in Int /\ (a + 1) * MaxLines = a * MaxLines + MaxLines
         /\ a <= b => a * MaxLines <= b * MaxLines
         /\ a <= 0 => a * MaxLines <= 0
BY BoundsAssumption

LEMMA NewerLines ==
  ASSUME TypeOK, NEW t \in 1 .. Backups + 1
  PROVE  /\ Newer(t) \in SUBSET Lines /\ Cardinality(Newer(t)) \in Nat
         /\ \A i \in 1 .. t - 1 : i \in Files
         /\ LinesInv => Newer(t) \cap lines[0] = {}
<1>1. \A i \in 1 .. t - 1 : i \in Files /\ 0 < i
  BY BoundsAssumption, FileNumbers
<1>2. Newer(t) \in SUBSET Lines
  BY <1>1 DEF TypeOK, Newer
<1>3. ASSUME LinesInv, NEW k \in Newer(t), k \in lines[0] PROVE FALSE
  <2>1. PICK i \in 1 .. t - 1 : k \in lines[i]
    BY <1>3 DEF Newer
  <2>2. k < k
    BY <1>1, <1>3, <2>1, FileNumbers DEF LinesInv, FilesInOrder
  <2>3. k \in Nat
    BY <1>2, <1>3 DEF Lines
  <2> QED  BY <2>2, <2>3
<1> QED  BY <1>1, <1>2, <1>3, SetsOfLines

(* Where neither the backups nor the lost lines change, nor the gap.       *)
LEMMA CountStays ==
  ASSUME TypeOK, CountInv, \A f \in 1 .. Backups : Same(f), Lost' = Lost,
         crashes' = crashes,
         \A t \in 1 .. Backups + 1 : Shifted(t)' = Shifted(t)
  PROVE  CountInv'
<1>1. ASSUME NEW t \in 1 .. Backups + 1 PROVE Held(t)' => Cardinality(Newer(t)') >= Due(t)'
  <2>1. \A i \in 1 .. t - 1 : i \in 1 .. Backups
    BY BoundsAssumption
  <2>2. Newer(t)' = Newer(t)
    BY <2>1 DEF Newer, Same
  <2>3. Held(t)' = Held(t)
    BY BoundsAssumption DEF Held, Same
  <2>4. Due(t)' = Due(t)
    BY DEF Due
  <2> QED  BY <2>2, <2>3, <2>4 DEF CountInv
<1> QED  BY <1>1 DEF CountInv

LEMMA OldestStays ==
  ASSUME OldestInv, Kept' \subseteq Kept, Lost' \subseteq Lost
  PROVE  OldestInv'
BY DEF OldestInv

(* Moving a file to the next number loses no line, if it was free.         *)
LEMMA MovedKeeps ==
  ASSUME TypeOK, NEW i \in Files, i + 1 \in Files, Moved(i, i + 1), lines[i + 1] = {},
         UNCHANGED <<logged, missed>>
  PROVE  Kept' = Kept /\ Lost' = Lost /\ lines'[i + 1] = lines[i]
<1>1. lines'[i] = {} /\ lines'[i + 1] = lines[i]
  BY DEF Moved, Same
<1>2. \A k : (\E f \in Files : k \in lines'[f]) <=> (\E f \in Files : k \in lines[f])
  BY <1>1 DEF Moved, Same
<1>3. Kept' = Kept
  BY <1>2 DEF Kept
<1> QED  BY <1>1, <1>3 DEF Lost

(* The oldest file may be emptied: its lines are older than what is kept.  *)
LEMMA OldestGoes ==
  ASSUME LinesInv, OldestInv, NEW last \in Files, \A f \in Files : f <= last,
         \A k \in Kept' : \E f \in Files \ {last} : k \in lines[f],
         Lost' \subseteq Lost \cup lines[last]
  PROVE  OldestInv'
<1>1. ASSUME NEW k \in Kept', NEW m \in Lost' PROVE m < k
  <2>1. PICK f \in Files \ {last} : k \in lines[f]
    OBVIOUS
  <2>2. CASE m \in Lost
    BY <2>1, <2>2 DEF OldestInv, Kept
  <2>3. CASE m \in lines[last]
    <3>1. f < last
      BY <2>1, FileNumbers
    <3> QED  BY <2>1, <2>3, <3>1 DEF LinesInv, FilesInOrder
  <2> QED  BY <2>2, <2>3
<1> QED  BY <1>1 DEF OldestInv

LEMMA DueValue ==
  ASSUME NEW t \in Int, crashes \in Int
  PROVE  /\ Shifted(t) = 0 => Due(t) = (t - 1 - crashes) * MaxLines
         /\ Shifted(t) = 1 => Due(t) = (t - 2 - crashes) * MaxLines
<1>1. t - 1 - 0 - crashes = t - 1 - crashes /\ t - 1 - 1 - crashes = t - 2 - crashes
  OBVIOUS
<1> QED  BY <1>1 DEF Due

LEMMA DueValueNext ==
  ASSUME NEW t \in Int, crashes' \in Int
  PROVE  /\ Shifted(t)' = 0 => Due(t)' = (t - 1 - crashes') * MaxLines
         /\ Shifted(t)' = 1 => Due(t)' = (t - 2 - crashes') * MaxLines
<1>1. t - 1 - 0 - crashes' = t - 1 - crashes' /\ t - 1 - 1 - crashes' = t - 2 - crashes'
  OBVIOUS
<1> QED  BY <1>1 DEF Due

(* What both forms of a step of the loop do to the loop's own state.       *)
LEMMA ShiftFrame ==
  ASSUME TypeOK, Shift
  PROVE  /\ at = "shift" /\ slot \in 1 .. Backups /\ slot \in Files /\ slot \in Nat
         /\ Backups \in Nat /\ crashes \in Nat /\ MaxLines \in Nat /\ 0 \in Files
         /\ slot' = slot - 1 /\ at' = IF slot = 1 THEN "current" ELSE "shift"
         /\ UNCHANGED <<stream, logged, missed, crashes>>
         /\ \A i \in 1 .. Backups : i \in Files
         /\ \A f \in Files : f \in Nat /\ f <= Backups
         /\ \A t \in 1 .. Backups + 1 :
              /\ Shifted(t) = IF t > slot + 1 THEN 1 ELSE 0
              /\ Shifted(t)' = IF t > slot THEN 1 ELSE 0
<1>1. /\ at = "shift" /\ slot' = slot - 1
      /\ at' = IF slot = 1 THEN "current" ELSE "shift"
      /\ UNCHANGED <<stream, logged, missed, crashes>>
  BY DEF Shift
<1>2. /\ slot \in 1 .. Backups /\ slot \in Files
      /\ Backups \in Nat /\ crashes \in Nat /\ MaxLines \in Nat
  BY ShiftEffect, BoundsAssumption DEF TypeOK
<1>3. /\ 0 \in Files /\ slot \in Nat
      /\ \A i \in 1 .. Backups : i \in Files
      /\ \A f \in Files : f \in Nat /\ f <= Backups
  BY <1>2, FileNumbers
<1>4. ASSUME NEW t \in 1 .. Backups + 1
      PROVE  /\ Shifted(t) = IF t > slot + 1 THEN 1 ELSE 0
             /\ Shifted(t)' = IF t > slot THEN 1 ELSE 0
  <2>1. slot' + 1 = slot /\ at' \in {"shift", "current"}
    BY <1>1, <1>2
  <2> QED  BY <1>1, <2>1 DEF Shifted
<1> QED  BY <1>1, <1>2, <1>3, <1>4

LEMMA ShapeShifted ==
  ASSUME TypeOK, ShapeInv, Shift, lines'[slot] = {}, Same(0)
  PROVE  ShapeInv'
BY ShiftFrame DEF ShapeInv, Same

(* Below the slot nothing has changed.                                     *)
LEMMA CountBelow ==
  ASSUME TypeOK, CountInv, Shift, \A i \in 1 .. slot - 1 : Same(i), lines'[slot] = {},
         NEW t \in 1 .. slot, Held(t)'
  PROVE  Cardinality(Newer(t)') >= Due(t)'
<1>1. t \in 1 .. Backups + 1 /\ t <= Backups /\ Shifted(t)' = Shifted(t)
  BY ShiftFrame
<1>2. Held(t)
  BY <1>1, ShiftFrame DEF Held, Same
<1>3. Newer(t)' = Newer(t)
  BY ShiftFrame DEF Newer, Same
<1>4. Due(t)' = Due(t)
  BY <1>1, ShiftFrame DEF Due
<1> QED  BY <1>1, <1>2, <1>3, <1>4 DEF CountInv

LEMMA RemoveKeeps ==
  ASSUME TypeOK, LinesInv, ShapeInv, OldestInv, CountInv, Shift, OldestRemoved
  PROVE  ShapeInv' /\ OldestInv' /\ CountInv'
<1>1. slot = Backups /\ lines'[slot] = {} /\ \A f \in Files \ {slot} : Same(f)
  BY DEF OldestRemoved
<1>2. Same(0) /\ \A i \in 1 .. slot - 1 : Same(i)
  BY <1>1, ShiftFrame
<1>3. ShapeInv'
  BY <1>1, <1>2, ShapeShifted
<1>4. OldestInv'
  <2>1. \A k \in Kept' : \E f \in Files \ {slot} : k \in lines[f]
    BY <1>1 DEF Kept, Same
  <2>2. Kept \subseteq Kept' \cup lines[slot]
    BY <1>1 DEF Kept, Same
  <2>3. Lost' \subseteq Lost \cup lines[slot]
    BY <2>2, ShiftFrame DEF Lost
  <2> QED  BY <1>1, <2>1, <2>3, ShiftFrame, OldestGoes
<1>5. ASSUME NEW t \in 1 .. Backups + 1, t = slot + 1, Held(t)'
      PROVE  Cardinality(Newer(t)') >= Due(t)'
  <2>1. /\ slot \in 1 .. Backups + 1 /\ t \in 1 .. Backups + 1
        /\ Shifted(slot) = 0 /\ Shifted(t) = 0 /\ Shifted(t)' = 1
        /\ t - 2 - crashes = slot - 1 - crashes
        /\ t - 1 - crashes = (slot - 1 - crashes) + 1
        /\ slot - 1 - crashes \in Int /\ t - 1 - crashes \in Int
    BY <1>1, <1>5, ShiftFrame
  <2>2. Due(slot) = (slot - 1 - crashes) * MaxLines
    BY <2>1, ShiftFrame, DueValue
  <2>3. Due(t) = (t - 1 - crashes) * MaxLines
    BY <2>1, ShiftFrame, DueValue
  <2>4. Due(t)' = (slot - 1 - crashes) * MaxLines
    BY <2>1, ShiftFrame, DueValueNext
  <2>5. (slot - 1 - crashes) * MaxLines <= (t - 1 - crashes) * MaxLines
    BY <2>1, Multiples
  <2>6. CASE lines[slot] # {}
    <3>1. Held(slot)
      BY <1>1, <1>5, <2>6, ShiftFrame DEF Held
    <3>2. Newer(t)' = Newer(slot)
      <4>1. \A k : (\E i \in 1 .. t - 1 : k \in lines'[i]) <=> (\E i \in 1 .. slot - 1 : k \in lines[i])
        BY <1>1, <1>2, <1>5, ShiftFrame DEF Same
      <4> QED  BY <4>1 DEF Newer
    <3> QED  BY <2>1, <2>2, <2>4, <3>1, <3>2 DEF CountInv
  <2>7. CASE lines[slot] = {}
    <3>1. lines' = lines
      <4>1. \A f \in Files : lines'[f] = lines[f]
        BY <1>1, <2>7 DEF Same
      <4>2. lines \in [Files -> SUBSET Lines] /\ lines' \in [Files -> SUBSET Lines]
        BY ShiftEffect DEF TypeOK
      <4> QED  BY <4>1, <4>2
    <3>2. Held(t) /\ Newer(t)' = Newer(t)
      BY <1>1, <1>5, <3>1, ShiftFrame DEF Held, Newer, Lost, Kept
    <3>3. Cardinality(Newer(t)) >= Due(t)
      BY <2>1, <3>2 DEF CountInv
    <3>4. Cardinality(Newer(t)) \in Nat /\ Due(t) \in Int /\ Due(t)' \in Int
      BY <2>1, <2>3, <2>4, NewerLines, Multiples
    <3> QED  BY <2>3, <2>4, <2>5, <3>2, <3>3, <3>4
  <2> QED  BY <2>6, <2>7
<1>6. ASSUME NEW t \in 1 .. Backups + 1, Held(t)' PROVE Cardinality(Newer(t)') >= Due(t)'
  <2>1. t \in 1 .. slot \/ t = slot + 1
    BY <1>1, ShiftFrame
  <2> QED  BY <1>1, <1>2, <1>5, <1>6, <2>1, CountBelow
<1> QED  BY <1>3, <1>4, <1>6 DEF CountInv

LEMMA MoveKeeps ==
  ASSUME TypeOK, LinesInv, ShapeInv, OldestInv, CountInv, Shift, BackupMoved
  PROVE  ShapeInv' /\ OldestInv' /\ CountInv'
<1>1. /\ slot < Backups /\ slot + 1 \in Files /\ Moved(slot, slot + 1)
      /\ lines[slot + 1] = {}
  BY ShiftFrame DEF BackupMoved, ShapeInv
<1>2. Kept' = Kept /\ Lost' = Lost /\ lines'[slot + 1] = lines[slot] /\ lines'[slot] = {}
  BY <1>1, ShiftFrame, MovedKeeps DEF Moved
<1>3. /\ Same(0) /\ \A i \in 1 .. slot - 1 : Same(i)
      /\ \A i \in 1 .. Backups : i > slot + 1 => Same(i)
  BY <1>1, ShiftFrame DEF Moved
<1>4. ShapeInv'
  BY <1>2, <1>3, ShapeShifted
<1>5. OldestInv'
  BY <1>2, OldestStays
<1>6. ASSUME NEW t \in 1 .. Backups + 1, t = slot + 1, Held(t)'
      PROVE  Cardinality(Newer(t)') >= Due(t)'
  <2>1. /\ slot \in 1 .. Backups + 1 /\ t \in 1 .. Backups + 1
        /\ Shifted(slot) = 0 /\ Shifted(t)' = 1
        /\ t - 2 - crashes = slot - 1 - crashes
    BY <1>1, <1>6, ShiftFrame
  <2>2. Due(slot) = (slot - 1 - crashes) * MaxLines
    BY <2>1, ShiftFrame, DueValue
  <2>3. Due(t)' = (slot - 1 - crashes) * MaxLines
    BY <2>1, ShiftFrame, DueValueNext
  <2>4. Held(slot)
    BY <1>1, <1>2, <1>6, ShiftFrame DEF Held
  <2>5. Newer(t)' = Newer(slot)
    <3>1. \A k : (\E i \in 1 .. t - 1 : k \in lines'[i]) <=> (\E i \in 1 .. slot - 1 : k \in lines[i])
      BY <1>2, <1>3, <1>6, ShiftFrame DEF Same
    <3> QED  BY <3>1 DEF Newer
  <2> QED  BY <2>1, <2>2, <2>3, <2>4, <2>5 DEF CountInv
<1>7. ASSUME NEW t \in 1 .. Backups + 1, t > slot + 1, Held(t)'
      PROVE  Cardinality(Newer(t)') >= Due(t)'
  <2>1. Shifted(t)' = Shifted(t)
    BY <1>7, ShiftFrame
  <2>2. Due(t)' = Due(t)
    BY <2>1, ShiftFrame DEF Due
  <2>3. Held(t)
    BY <1>2, <1>3, <1>7, ShiftFrame DEF Held, Same
  <2>4. Newer(t)' = Newer(t)
    <3>1. /\ slot \in 1 .. t - 1 /\ slot + 1 \in 1 .. t - 1
          /\ \A i \in 1 .. t - 1 : i = slot \/ i = slot + 1 \/ Same(i)
      BY <1>3, <1>7, ShiftFrame
    <3>2. \A k : (\E i \in 1 .. t - 1 : k \in lines'[i]) <=> (\E i \in 1 .. t - 1 : k \in lines[i])
      BY <1>1, <1>2, <3>1 DEF Same
    <3> QED  BY <3>2 DEF Newer
  <2> QED  BY <2>2, <2>3, <2>4 DEF CountInv
<1>8. ASSUME NEW t \in 1 .. Backups + 1, Held(t)' PROVE Cardinality(Newer(t)') >= Due(t)'
  <2>1. t \in 1 .. slot \/ t = slot + 1 \/ t > slot + 1
    BY ShiftFrame
  <2> QED  BY <1>2, <1>3, <1>6, <1>7, <1>8, <2>1, CountBelow
<1> QED  BY <1>4, <1>5, <1>8 DEF CountInv

(* The current file becomes the first backup: what is kept below any other *)
(* backup grows by at least MaxLines.                                      *)
LEMMA RotateKeeps ==
  ASSUME TypeOK, LinesInv, ShapeInv, OldestInv, CountInv, RotateCurrent, UNCHANGED broken,
         Moved(0, 1)
  PROVE  ShapeInv' /\ OldestInv' /\ CountInv'
<1>1. /\ at = "current" /\ at' = "reopen"
      /\ UNCHANGED <<stream, slot, logged, missed, crashes>>
  BY DEF RotateCurrent
<1>2. /\ Backups \in Nat /\ crashes \in Nat /\ MaxLines \in Nat /\ 0 \in Files /\ 1 \in Files
      /\ 0 + 1 = 1 /\ \A f \in Files : lines[f] \in SUBSET Lines
  BY BoundsAssumption, FileNumbers DEF TypeOK
<1>3. slot = 0 /\ Cardinality(lines[0]) >= MaxLines /\ MaxLines > 0 /\ (Backups > 0 => lines[1] = {})
  BY <1>1 DEF ShapeInv
<1>4. lines'[0] = {} /\ lines'[1] = lines[0] /\ \A f \in Files \ {0, 1} : Same(f)
  <2>1. lines[0] # {}
    BY <1>2, <1>3, FS_EmptySet
  <2> QED  BY <2>1 DEF Moved
<1>5. ShapeInv'
  BY <1>1, <1>4 DEF ShapeInv
<1>6. Backups > 0 => Kept' = Kept /\ Lost' = Lost
  BY <1>1, <1>2, <1>3, MovedKeeps
<1>7. OldestInv'
  <2>1. CASE Backups > 0
    BY <1>6, <2>1, OldestStays
  <2>2. CASE Backups = 0
    <3>1. \A f \in Files : f \in {0, 1} /\ f <= 1
      BY <2>2, FileNumbers
    <3>2. Kept' = lines[0] /\ Kept = lines[0] \cup lines[1]
      <4>1. \A k : (\E f \in Files : k \in lines'[f]) <=> k \in lines[0]
        BY <1>2, <1>4, <3>1
      <4>2. \A k : (\E f \in Files : k \in lines[f]) <=> k \in lines[0] \/ k \in lines[1]
        BY <1>2, <3>1
      <4> QED  BY <4>1, <4>2 DEF Kept
    <3>3. Lost' \subseteq Lost \cup lines[1]
      BY <1>1, <3>2 DEF Lost
    <3>4. \A k \in Kept' : \E f \in Files \ {1} : k \in lines[f]
      BY <1>2, <3>2
    <3> QED  BY <1>2, <3>1, <3>3, <3>4, OldestGoes
  <2> QED  BY <1>2, <2>1, <2>2
<1>8. ASSUME NEW t \in 1 .. Backups + 1, Held(t)' PROVE Cardinality(Newer(t)') >= Due(t)'
  <2>1. Shifted(t)' = 0 /\ t \in Int /\ t - 1 - crashes \in Int /\ t - 2 - crashes \in Int
        /\ t - 1 - crashes = (t - 2 - crashes) + 1
    BY <1>1, <1>2 DEF Shifted
  <2>2. Due(t)' = (t - 1 - crashes) * MaxLines
    BY <1>1, <1>2, <2>1, DueValueNext
  <2>3. CASE t = 1
    <3>1. Newer(t)' = {}
      BY <2>3 DEF Newer
    <3>2. Cardinality(Newer(t)') = 0
      BY <3>1, FS_EmptySet
    <3>3. Due(t)' \in Int /\ Due(t)' <= 0
      BY <1>2, <2>1, <2>2, <2>3, Multiples
    <3> QED  BY <3>2, <3>3
  <2>4. CASE t > 1
    <3>1. Backups > 0 /\ Shifted(t) = 1
      BY <1>1, <1>2, <1>3, <2>4 DEF Shifted
    <3>2. Held(t)
      BY <1>2, <1>3, <1>4, <1>6, <1>8, <2>4, <3>1, FileNumbers DEF Held, Same
    <3>3. Due(t) = (t - 2 - crashes) * MaxLines
      BY <1>2, <2>1, <3>1, DueValue
    <3>4. Cardinality(Newer(t)) >= Due(t)
      BY <3>2 DEF CountInv
    <3>5. Newer(t)' = Newer(t) \cup lines[0]
      <4>1. 1 \in 1 .. t - 1 /\ \A i \in 1 .. t - 1 : i = 1 \/ Same(i)
        BY <1>2, <1>4, <2>4, <3>1, FileNumbers
      <4>2. \A k : (\E i \in 1 .. t - 1 : k \in lines'[i])
                     <=> k \in lines[0] \/ (\E i \in 1 .. t - 1 : k \in lines[i])
        BY <1>3, <1>4, <3>1, <4>1 DEF Same
      <4> QED  BY <4>2 DEF Newer
    <3>6. Cardinality(Newer(t)') = Cardinality(Newer(t)) + Cardinality(lines[0])
      BY <1>2, <3>5, NewerLines, LinesAddUp
    <3>7. /\ Cardinality(Newer(t)) \in Nat /\ Cardinality(lines[0]) \in Nat
          /\ Due(t) \in Int /\ Due(t)' = Due(t) + MaxLines
      BY <1>2, <2>1, <2>2, <3>3, NewerLines, SetsOfLines, Multiples
    <3> QED  BY <1>2, <1>3, <3>4, <3>6, <3>7
  <2> QED  BY <2>3, <2>4
<1> QED  BY <1>5, <1>7, <1>8 DEF CountInv

(* The steps that touch no backup and do not move the gap.                 *)
LEMMA OthersKeep ==
  ASSUME TypeOK, LinesInv, ShapeInv, OldestInv, CountInv, ~broken', broken = FALSE,
         SetFile \/ LogNowhere \/ LogLine \/ Measure \/ Reopen \/ UNCHANGED vars
  PROVE  ShapeInv' /\ OldestInv' /\ CountInv'
<1>1. /\ 0 \in Files /\ Backups \in Nat /\ logged \in Nat
      /\ \A i \in 1 .. Backups : i \in Files /\ i # 0
      /\ crashes' = crashes
  BY BoundsAssumption, FileNumbers
  DEF TypeOK, SetFile, LogNowhere, LogLine, Measure, Reopen, vars
<1>2. \A t \in 1 .. Backups + 1 : Shifted(t)' = Shifted(t)
  BY <1>1 DEF Shifted, SetFile, LogNowhere, LogLine, Measure, Reopen, vars
<1>3. \A f \in Files \ {0} : Same(f)
  BY <1>1 DEF TypeOK, Same, SetFile, LogNowhere, LogLine, Measure, Reopen, vars, diskVars
<1>4. CASE LogLine
  <2>1. /\ at' = "written" /\ stream' = stream /\ logged' = logged + 1 /\ missed' = missed
        /\ lines' = [lines EXCEPT ![0] = @ \cup {logged'}]
    BY <1>4, Zenon DEF LogLine
  <2>2. Kept' = Kept \cup {logged + 1}
    <3>1. lines'[0] = lines[0] \cup {logged + 1}
      BY <1>1, <2>1 DEF TypeOK
    <3>2. \A k : (\E f \in Files : k \in lines'[f]) <=> k = logged + 1 \/ (\E f \in Files : k \in lines[f])
      BY <1>1, <1>3, <3>1 DEF Same
    <3> QED  BY <3>2 DEF Kept
  <2>3. Lost' = Lost
    BY <1>1, <2>1, <2>2 DEF Lost
  <2>4. OldestInv'
    <3>1. \A m \in Lost : m < logged + 1
      BY <1>1 DEF Lost
    <3> QED  BY <2>2, <2>3, <3>1 DEF OldestInv
  <2>5. ShapeInv'
    BY <2>1 DEF ShapeInv
  <2> QED  BY <1>1, <1>2, <1>3, <2>3, <2>4, <2>5, CountStays
<1>5. CASE ~LogLine
  <2>1. \A f \in Files : Same(f)
    <3>1. CASE Reopen
      <4>1. lines[0] = {}
        BY <3>1 DEF Reopen, ShapeInv
      <4> QED  BY <1>1, <1>3, <3>1, <4>1 DEF Reopen, TypeOK, Same, diskVars
    <3>2. CASE ~Reopen
      BY <1>5, <3>2 DEF Same, SetFile, LogNowhere, Measure, vars, diskVars
    <3> QED  BY <3>1, <3>2
  <2>2. Kept' = Kept
    BY <2>1 DEF Kept, Same
  <2>3. Lost' = Lost
    <3>1. CASE LogNowhere
      BY <1>1, <2>2, <3>1 DEF LogNowhere, Lost
    <3>2. CASE ~LogNowhere
      BY <1>5, <2>2, <3>2 DEF Lost, SetFile, Measure, Reopen, vars
    <3> QED  BY <3>1, <3>2
  <2>4. OldestInv'
    BY <2>2, <2>3, OldestStays
  <2>5. ShapeInv'
    <3>1. CASE Measure
      BY <1>1, <2>1, <3>1, BoundsAssumption DEF Measure, Full, ShapeInv, Same
    <3>2. CASE ~Measure
      <4>1. CASE SetFile
        BY <4>1 DEF SetFile, ShapeInv
      <4>2. CASE LogNowhere
        BY <1>1, <2>1, <4>2 DEF LogNowhere, ShapeInv, Same
      <4>3. CASE Reopen
        BY <4>3 DEF Reopen, ShapeInv
      <4>4. CASE UNCHANGED vars
        BY <4>4 DEF vars, diskVars, ShapeInv
      <4> QED  BY <1>5, <3>2, <4>1, <4>2, <4>3, <4>4
    <3> QED  BY <3>1, <3>2
  <2> QED  BY <1>1, <1>2, <1>3, <2>3, <2>4, <2>5, CountStays
<1> QED  BY <1>4, <1>5

LEMMA CrashKeeps ==
  ASSUME TypeOK, ShapeInv, OldestInv, CountInv, Crash
  PROVE  ShapeInv' /\ OldestInv' /\ CountInv'
<1>1. /\ at' = "down" /\ stream' = "closed" /\ crashes' = crashes + 1
      /\ UNCHANGED <<lines, logged, missed>> /\ crashes \in Nat
  BY BoundsAssumption DEF Crash, TypeOK, diskVars
<1>2. ShapeInv'
  BY <1>1 DEF ShapeInv
<1>3. Kept' = Kept /\ Lost' = Lost
  BY <1>1 DEF Kept, Lost
<1>4. OldestInv'
  BY <1>3, OldestStays
<1>5. ASSUME NEW t \in 1 .. Backups + 1, Held(t)' PROVE Cardinality(Newer(t)') >= Due(t)'
  <2>1. Held(t) /\ Newer(t)' = Newer(t)
    BY <1>1, <1>3, <1>5 DEF Held, Newer
  <2>2. /\ Shifted(t)' = 0 /\ Shifted(t) \in {0, 1} /\ t \in Int /\ crashes' \in Int
        /\ t - 1 - crashes' = t - 2 - crashes
        /\ t - 2 - crashes \in Int /\ t - 1 - crashes \in Int
        /\ t - 2 - crashes <= t - 1 - crashes
    BY <1>1, BoundsAssumption DEF Shifted
  <2>3. Due(t)' = (t - 2 - crashes) * MaxLines
    BY <2>2, DueValueNext
  <2>4. (t - 2 - crashes) * MaxLines <= (t - 1 - crashes) * MaxLines
    BY <2>2, Multiples
  <2>5. Due(t)' <= Due(t) /\ Due(t)' \in Int /\ Due(t) \in Int
    BY <1>1, <2>2, <2>3, <2>4, DueValue, Multiples
  <2>6. Cardinality(Newer(t)) >= Due(t) /\ Cardinality(Newer(t)) \in Nat
    BY <2>1, NewerLines DEF CountInv
  <2> QED  BY <2>1, <2>5, <2>6
<1> QED  BY <1>2, <1>4, <1>5 DEF CountInv

LEMMA KeptMeansEnough ==
  ASSUME TypeOK, LinesInv, KeptInv
  PROVE  OnlyOldestLost
<1> SUFFICES ASSUME broken = FALSE, Lost # {}
             PROVE  /\ \A k \in Kept, m \in Lost : m < k
                    /\ Cardinality(Kept) >= (Backups - crashes) * MaxLines
  BY DEF OnlyOldestLost, Lost, TypeOK
<1>1. ShapeInv /\ OldestInv /\ CountInv
  BY DEF KeptInv
<1>2. /\ Backups \in Nat /\ MaxLines \in Nat /\ crashes \in Nat /\ 0 \in Files
      /\ \A f \in Files : lines[f] \in SUBSET Lines
  BY BoundsAssumption, FileNumbers DEF TypeOK
<1> DEFINE last == Backups + 1
<1>3. last \in 1 .. Backups + 1 /\ last \in Int /\ Held(last)
  BY <1>2 DEF Held
<1>4. Cardinality(Newer(last)) >= Due(last) /\ Cardinality(Newer(last)) \in Nat
  BY <1>1, <1>3, NewerLines DEF CountInv
<1>5. Kept \in SUBSET Lines /\ Newer(last) \subseteq Kept /\ lines[0] \subseteq Kept
  BY <1>2, <1>3, NewerLines DEF Kept, Newer
<1>6. last - 1 - crashes = Backups - crashes /\ last - 2 - crashes = Backups - crashes - 1
      /\ Backups - crashes \in Int /\ Backups - crashes - 1 \in Int
      /\ (Backups - crashes - 1) + 1 = Backups - crashes
  BY <1>2
<1>7. CASE Shifted(last) = 0
  <2>1. Due(last) = (Backups - crashes) * MaxLines /\ Due(last) \in Int
    BY <1>2, <1>3, <1>6, <1>7, DueValue, Multiples
  <2>2. Cardinality(Newer(last)) <= Cardinality(Kept) /\ Cardinality(Kept) \in Nat
    BY <1>5, FewerLines, SetsOfLines
  <2> QED  BY <1>1, <1>4, <2>1, <2>2 DEF OldestInv
<1>8. CASE Shifted(last) = 1
  <2>1. Due(last) = (Backups - crashes - 1) * MaxLines /\ Due(last) \in Int
    BY <1>2, <1>3, <1>6, <1>8, DueValue, Multiples
  <2>2. (Backups - crashes) * MaxLines = Due(last) + MaxLines
    BY <1>6, <2>1, Multiples
  <2>3. Cardinality(lines[0]) >= MaxLines /\ Cardinality(lines[0]) \in Nat
    BY <1>1, <1>2, <1>8, SetsOfLines DEF Shifted, ShapeInv
  <2>4. Newer(last) \cap lines[0] = {} /\ Newer(last) \in SUBSET Lines
    BY <1>3, NewerLines
  <2>5. Cardinality(Newer(last) \cup lines[0]) = Cardinality(Newer(last)) + Cardinality(lines[0])
    BY <1>2, <2>4, LinesAddUp
  <2>6. Cardinality(Newer(last) \cup lines[0]) <= Cardinality(Kept) /\ Cardinality(Kept) \in Nat
    BY <1>5, FewerLines, SetsOfLines
  <2> QED  BY <1>1, <1>2, <1>4, <2>1, <2>2, <2>3, <2>5, <2>6 DEF OldestInv
<1> QED  BY <1>7, <1>8 DEF Shifted

(* Where no step has failed, what is gone is older than all that is kept,  *)
(* and nothing is gone before every backup was full, but for one backup    *)
(* that each crash within a rotation may cost.                             *)
THEOREM RotationLosesOnlyTheOldest == Spec => []OnlyOldestLost
<1>1. Init => KeptInv
  <2> SUFFICES ASSUME Init PROVE ShapeInv /\ OldestInv /\ CountInv
    BY DEF KeptInv
  <2>1. /\ at = "down" /\ stream = "closed" /\ logged = 0 /\ crashes = 0
        /\ lines = [i \in Files |-> {}]
    BY DEF Init
  <2>2. Lost = {}
    BY <2>1 DEF Lost
  <2>3. \A t \in 1 .. Backups + 1 : ~Held(t)
    BY <2>1, <2>2, BoundsAssumption, FileNumbers DEF Held
  <2> QED  BY <2>1, <2>2, <2>3 DEF ShapeInv, OldestInv, CountInv
<1>2. TypeOK /\ LinesInv /\ KeptInv /\ [Next]_vars => KeptInv'
  <2> SUFFICES ASSUME TypeOK, LinesInv, KeptInv, [Next]_vars, ~broken'
               PROVE  ShapeInv' /\ OldestInv' /\ CountInv'
    BY DEF KeptInv
  <2>1. broken = FALSE /\ UNCHANGED broken
    <3>1. broken' = broken \/ broken' = TRUE
      BY Zenon DEF Next, SetFile, LogNowhere, LogLine, Measure, Shift, RotateCurrent,
                   Reopen, Crash, Try, vars
    <3> QED  BY <3>1, Zenon DEF TypeOK
  <2>2. ShapeInv /\ OldestInv /\ CountInv
    BY <2>1 DEF KeptInv
  <2>3. CASE Shift
    <3>1. OldestRemoved \/ BackupMoved
      BY <2>3, ShiftEffect DEF ShiftFails
    <3> QED  BY <2>2, <2>3, <3>1, RemoveKeeps, MoveKeeps
  <2>4. CASE RotateCurrent
    <3>1. Moved(0, 1)
      BY <2>4, RotateEffect DEF ShiftFails
    <3> QED  BY <2>1, <2>2, <2>4, <3>1, RotateKeeps
  <2>5. CASE Crash
    BY <2>2, <2>5, CrashKeeps
  <2>6. CASE SetFile \/ LogNowhere \/ LogLine \/ Measure \/ Reopen \/ UNCHANGED vars
    BY <2>1, <2>2, <2>6, OthersKeep
  <2> QED  BY <2>3, <2>4, <2>5, <2>6 DEF Next
<1>3. TypeOK /\ LinesInv /\ KeptInv => OnlyOldestLost
  BY KeptMeansEnough
<1> QED  BY <1>1, <1>2, <1>3, TypeAndLines, PTL DEF Spec
=============================================================================
