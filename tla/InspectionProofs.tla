-------------------------- MODULE InspectionProofs --------------------------
(***************************************************************************)
(* Proofs about Inspection, for every image size, every set of boxes and   *)
(* scores the model may put out and every choice of the thresholds.        *)
(***************************************************************************)
EXTENDS Inspection, SequenceTheorems, TLAPS

(* A clipped box lies in the image, whatever box the model put out.        *)
LEMMA ClipFits ==
  ASSUME NEW box \in RawBox
  PROVE  /\ Clip(box) \in ClippedBox
         /\ Clip(box).x + Clip(box).w <= Width
         /\ Clip(box).y + Clip(box).h <= Height
<1> DEFINE c == Clip(box)
<1>1. /\ box.x \in Int /\ box.y \in Int /\ box.w \in Nat /\ box.h \in Nat
      /\ Width \in Nat /\ Height \in Nat
  BY SizeAssumption DEF RawBox
<1>2. c.x \in 0 .. Width /\ c.w \in 0 .. Width /\ c.x + c.w <= Width
  BY <1>1 DEF Clip, Least, Greatest
<1>3. c.y \in 0 .. Height /\ c.h \in 0 .. Height /\ c.y + c.h <= Height
  BY <1>1 DEF Clip, Least, Greatest
<1>4. c = [x |-> c.x, y |-> c.y, w |-> c.w, h |-> c.h]
  BY DEF Clip
<1> QED  BY <1>2, <1>3, <1>4 DEF ClippedBox

(* The threshold of NMS is put to both orders of a pair alike.             *)
LEMMA OverlapsIsSymmetric ==
  ASSUME NEW a \in ClippedBox, NEW b \in ClippedBox
  PROVE  Overlaps(a, b) <=> Overlaps(b, a)
<1>1. /\ a.x \in Int /\ a.y \in Int /\ a.w \in Int /\ a.h \in Int
      /\ b.x \in Int /\ b.y \in Int /\ b.w \in Int /\ b.h \in Int
  BY SizeAssumption DEF ClippedBox
<1>2. /\ Least(a.x + a.w, b.x + b.w) = Least(b.x + b.w, a.x + a.w)
      /\ Least(a.y + a.h, b.y + b.h) = Least(b.y + b.h, a.y + a.h)
      /\ Greatest(a.x, b.x) = Greatest(b.x, a.x)
      /\ Greatest(a.y, b.y) = Greatest(b.y, a.y)
  BY <1>1 DEF Least, Greatest
<1>3. Inter(a, b) = Inter(b, a)
  BY <1>2, Zenon DEF Inter
<1>4. Inter(a, b) \in Int /\ Area(a) \in Int /\ Area(b) \in Int
  BY <1>1 DEF Inter, Area, Least, Greatest
<1>5. Union(a, b) = Union(b, a)
  BY <1>3, <1>4 DEF Union
<1> QED  BY <1>3, <1>5, Zenon DEF Overlaps

(* A permutation of a vector of detections is one of the same length.      *)
LEMMA PermutedVector ==
  ASSUME detections \in Seq(DetectionSet), NEW p \in Orders,
         NEW d, d = [i \in DOMAIN detections |-> detections[p[i]]]
  PROVE  /\ d \in Seq(DetectionSet) /\ Len(d) = Len(detections)
         /\ DOMAIN d = DOMAIN detections
         /\ \A i \in DOMAIN detections : p[i] \in DOMAIN detections
         /\ \A i \in DOMAIN detections : d[i] = detections[p[i]]
<1>1. DOMAIN detections = 1 .. Len(detections) /\ Len(detections) \in Nat
  OBVIOUS
<1>2. \A i \in DOMAIN detections : p[i] \in DOMAIN detections
  BY DEF Orders
<1>3. \A i \in DOMAIN detections : detections[p[i]] \in DetectionSet
  BY <1>1, <1>2
<1>4. d \in [1 .. Len(detections) -> DetectionSet]
  BY <1>1, <1>3
<1>5. d \in Seq(DetectionSet) /\ Len(d) = Len(detections)
  BY <1>1, <1>4
<1> QED  BY <1>2, <1>5

-----------------------------------------------------------------------------
(* Every reachable state has the types TypeOK gives.                       *)
THEOREM TypeCorrect == Spec => []TypeOK
<1>1. Init => TypeOK
  BY SizeAssumption DEF Init, TypeOK, Phases, Verdicts, Levels
<1>2. TypeOK /\ [Next]_vars => TypeOK'
  <2> SUFFICES ASSUME TypeOK, [Next]_vars PROVE TypeOK'
    OBVIOUS
  <2> USE DEF TypeOK
  <2>1. CASE Infer
    BY <2>1 DEF Infer, Phases
  <2>2. ASSUME NEW scores \in [Classes -> Levels], NEW best \in Classes,
               NEW box \in Boxes, DecodeRow(best, scores[best], box)
        PROVE  TypeOK'
    <3> DEFINE det == [class |-> best, conf |-> scores[best], box |-> Clip(box)]
    <3>1. scores[best] \in Levels
      OBVIOUS
    <3>2. det \in DetectionSet
      BY <3>1, ClipFits, BoxAssumption DEF DetectionSet
    <3>3. Append(detections, det) \in Seq(DetectionSet)
          /\ Len(Append(detections, det)) = Len(detections) + 1
      BY <3>2
    <3>4. /\ detections' \in Seq(DetectionSet)
          /\ Len(detections) \in Nat /\ Len(detections') \in Nat
          /\ Len(detections') >= Len(detections)
      BY <2>2, <3>3 DEF DecodeRow
    <3>5. row' \in 0 .. NumRows /\ topScore' \in Levels
      BY <2>2, <3>1, SizeAssumption DEF DecodeRow, MoreRows, Levels, Greatest
    <3>6. index' \in 1 .. Len(detections') + 1
      BY <2>2, <3>4 DEF DecodeRow
    <3>7. DOMAIN detections \subseteq DOMAIN detections'
      BY <3>4
    <3> QED  BY <2>2, <3>4, <3>5, <3>6, <3>7 DEF DecodeRow
  <2>3. CASE EndOfRows
    BY <2>3 DEF EndOfRows, Phases
  <2>4. CASE SortDetections
    <3>1. PICK p \in Orders :
            detections' = [i \in DOMAIN detections |-> detections[p[i]]]
      BY <2>4 DEF SortDetections
    <3>2. /\ detections' \in Seq(DetectionSet) /\ Len(detections') = Len(detections)
          /\ DOMAIN detections' = DOMAIN detections
      BY <3>1, PermutedVector
    <3> QED  BY <2>4, <3>2 DEF SortDetections, Phases
  <2>5. CASE Keep
    BY <2>5 DEF Keep, LosersTo
  <2>6. CASE Skip
    BY <2>6 DEF Skip
  <2>7. CASE EndOfNms
    BY <2>7 DEF EndOfNms, Phases
  <2>8. CASE Decide
    BY <2>8 DEF Decide, Verdict, Verdicts, Phases
  <2>9. CASE NextFrame
    BY <2>9, SizeAssumption DEF NextFrame, Phases, Verdicts, Levels
  <2>10. CASE UNCHANGED vars
    BY <2>10 DEF vars
  <2> QED
    BY <2>1, <2>2, <2>3, <2>4, <2>5, <2>6, <2>7, <2>8, <2>9, <2>10 DEF Next
<1> QED  BY <1>1, <1>2, PTL DEF Spec

(* What the type invariant says of the vector and of the scores.           *)
LEMMA Typed ==
  ASSUME TypeOK
  PROVE  /\ row \in Nat /\ topScore \in Nat /\ ConfThreshold \in Nat
         /\ RejectThreshold \in Nat /\ ReviewThreshold \in Nat
         /\ detections \in Seq(DetectionSet) /\ kept \subseteq DOMAIN detections
         /\ \A i \in DOMAIN detections :
              detections[i].conf \in Nat /\ detections[i].box \in ClippedBox
<1>1. row \in Nat /\ topScore \in Nat
  BY SizeAssumption DEF TypeOK, Levels
<1>2. detections \in Seq(DetectionSet) /\ kept \subseteq DOMAIN detections
  BY DEF TypeOK
<1>3. \A d \in DetectionSet : d.conf \in Nat /\ d.box \in ClippedBox
  BY SizeAssumption DEF DetectionSet, Levels
<1>4. \A i \in DOMAIN detections : detections[i] \in DetectionSet
  BY <1>2
<1> QED  BY <1>1, <1>2, <1>3, <1>4, ThresholdAssumption

-----------------------------------------------------------------------------
(* Every box in the vector came out of Clip, and sorting only moves it.    *)
THEOREM BoxesStayInImage == Spec => []BoxesInImage
<1>1. Init => BoxesInImage
  BY DEF Init, BoxesInImage
<1>2. TypeOK /\ BoxesInImage /\ [Next]_vars => BoxesInImage'
  <2> SUFFICES ASSUME TypeOK, BoxesInImage, [Next]_vars PROVE BoxesInImage'
    OBVIOUS
  <2>1. detections \in Seq(DetectionSet)
    BY DEF TypeOK
  <2>2. CASE UNCHANGED detections
    BY <2>2 DEF BoxesInImage
  <2>3. CASE detections' = <<>>
    BY <2>3 DEF BoxesInImage
  <2>4. ASSUME NEW best, NEW conf, NEW box \in Boxes,
               detections' = Append(detections, [class |-> best, conf |-> conf,
                                                 box |-> Clip(box)])
        PROVE  BoxesInImage'
    <3>1. /\ Clip(box).x + Clip(box).w <= Width
          /\ Clip(box).y + Clip(box).h <= Height
      BY ClipFits, BoxAssumption
    <3>2. ASSUME NEW i \in DOMAIN detections'
          PROVE  \/ i \in DOMAIN detections /\ detections'[i] = detections[i]
                 \/ detections'[i].box = Clip(box)
      BY <2>1, <2>4
    <3> QED  BY <3>1, <3>2 DEF BoxesInImage
  <2>5. ASSUME NEW p \in Orders,
               detections' = [i \in DOMAIN detections |-> detections[p[i]]]
        PROVE  BoxesInImage'
    BY <2>1, <2>5, PermutedVector DEF BoxesInImage
  <2>6. \/ UNCHANGED detections
        \/ detections' = <<>>
        \/ \E best \in Classes, conf \in Levels, box \in Boxes :
             detections' = Append(detections, [class |-> best, conf |-> conf,
                                               box |-> Clip(box)])
        \/ \E p \in Orders :
             detections' = [i \in DOMAIN detections |-> detections[p[i]]]
    BY DEF Next, Infer, DecodeRow, EndOfRows, SortDetections, Keep, Skip,
           EndOfNms, Decide, NextFrame, vars
  <2> QED  BY <2>2, <2>3, <2>4, <2>5, <2>6
<1> QED  BY <1>1, <1>2, TypeCorrect, PTL DEF Spec

-----------------------------------------------------------------------------
(* NMS as a loop invariant: what the indices before `index` were found to  *)
(* be, and what has happened to the ones behind it.                        *)
LoopInv ==
  /\ phase \in {"infer", "process", "sort"} =>
       index = 1 /\ kept = {} /\ suppressed = {}
  /\ phase \in {"nms", "decide", "done"} =>
       \A i, j \in DOMAIN detections : i < j => Before(detections[i], detections[j])
  /\ phase \in {"decide", "done"} => index = Len(detections) + 1
  /\ \A i \in DOMAIN detections : i < index => i \in kept \cup suppressed
  /\ \A i \in kept : i < index /\ i \notin suppressed
  /\ \A i \in kept : LosersTo(i) \subseteq suppressed
  /\ \A j \in suppressed : \E i \in kept : j \in LosersTo(i)

(* A frame has no detections before its output is decoded.                 *)
FreshInv == phase = "infer" => detections = <<>>

LEMMA LoopInvariant == Spec => [](LoopInv /\ FreshInv)
<1>1. Init => LoopInv /\ FreshInv
  BY DEF Init, LoopInv, FreshInv
<1>2. TypeOK /\ LoopInv /\ FreshInv /\ [Next]_vars => (LoopInv /\ FreshInv)'
  <2> SUFFICES ASSUME TypeOK, LoopInv, FreshInv, [Next]_vars
               PROVE  LoopInv' /\ FreshInv'
    OBVIOUS
  <2>1. /\ Len(detections) \in Nat /\ DOMAIN detections = 1 .. Len(detections)
        /\ index \in 1 .. Len(detections) + 1
        /\ kept \subseteq DOMAIN detections /\ suppressed \subseteq DOMAIN detections
    BY DEF TypeOK
  <2>2. CASE Infer
    BY <2>2, <2>1 DEF Infer, LoopInv, FreshInv, LosersTo, Rivals
  <2>3. ASSUME NEW best \in Classes, NEW conf \in Levels, NEW box \in Boxes,
               DecodeRow(best, conf, box)
        PROVE  LoopInv' /\ FreshInv'
    <3>1. /\ phase = "process" /\ phase' = "process"
          /\ index' = 1 /\ kept' = {} /\ suppressed' = {}
      BY <2>3 DEF DecodeRow, LoopInv
    <3>2. DOMAIN detections' \subseteq Nat \ {0}
      BY <2>3, <2>1 DEF DecodeRow, TypeOK
    <3> QED  BY <3>1, <3>2 DEF LoopInv, FreshInv
  <2>4. CASE EndOfRows
    BY <2>4, <2>1 DEF EndOfRows, LoopInv, FreshInv, LosersTo, Rivals
  <2>5. CASE SortDetections
    <3>1. PICK p \in Orders :
            /\ \A i, j \in DOMAIN detections :
                 i < j => Before(detections[p[i]], detections[p[j]])
            /\ detections' = [i \in DOMAIN detections |-> detections[p[i]]]
      BY <2>5 DEF SortDetections
    <3>2. /\ DOMAIN detections' = DOMAIN detections
          /\ \A i \in DOMAIN detections : detections'[i] = detections[p[i]]
      BY <3>1, PermutedVector DEF TypeOK
    <3>3. \A i, j \in DOMAIN detections' :
            i < j => Before(detections'[i], detections'[j])
      BY <3>1, <3>2
    <3>4. /\ phase' = "nms" /\ index' = 1 /\ kept' = {} /\ suppressed' = {}
      BY <2>5 DEF SortDetections, LoopInv
    <3> QED  BY <3>2, <3>3, <3>4, <2>1 DEF LoopInv, FreshInv
  <2>6. CASE Keep
    <3>1. LosersTo(index) \subseteq {j \in DOMAIN detections : index < j}
      BY DEF LosersTo
    <3>2. /\ \A i : LosersTo(i)' = LosersTo(i)
          /\ UNCHANGED <<phase, detections>> /\ phase = "nms"
          /\ index \in DOMAIN detections /\ index \notin suppressed
          /\ index' = index + 1
          /\ kept' = kept \cup {index}
          /\ suppressed' = suppressed \cup LosersTo(index)
      BY <2>6, <2>1 DEF Keep, LosersTo, Rivals
    <3>3. \A i \in DOMAIN detections : i < index' => i \in kept' \cup suppressed'
      BY <3>2, <2>1 DEF LoopInv
    <3>4. \A i \in kept' : i < index' /\ i \notin suppressed'
      BY <3>1, <3>2, <2>1 DEF LoopInv
    <3>5. \A i \in kept' : LosersTo(i)' \subseteq suppressed'
      BY <3>2 DEF LoopInv
    <3>6. \A j \in suppressed' : \E i \in kept' : j \in LosersTo(i)'
      BY <3>2 DEF LoopInv
    <3>7. \A i, j \in DOMAIN detections : i < j => Before(detections[i], detections[j])
      BY <3>2 DEF LoopInv
    <3> QED  BY <3>2, <3>3, <3>4, <3>5, <3>6, <3>7 DEF LoopInv, FreshInv, Before
  <2>7. CASE Skip
    BY <2>7, <2>1 DEF Skip, LoopInv, FreshInv, LosersTo, Rivals
  <2>8. CASE EndOfNms
    BY <2>8, <2>1 DEF EndOfNms, LoopInv, FreshInv, LosersTo, Rivals
  <2>9. CASE Decide
    BY <2>9, <2>1 DEF Decide, LoopInv, FreshInv, LosersTo, Rivals
  <2>10. CASE NextFrame
    BY <2>10 DEF NextFrame, LoopInv, FreshInv
  <2>11. CASE UNCHANGED vars
    BY <2>11 DEF vars, LoopInv, FreshInv, LosersTo, Rivals
  <2> QED
    BY <2>2, <2>3, <2>4, <2>5, <2>6, <2>7, <2>8, <2>9, <2>10, <2>11 DEF Next
<1> QED  BY <1>1, <1>2, TypeCorrect, PTL DEF Spec

(* When NMS has run, no two kept detections of a class overlap.            *)
THEOREM SurvivorsAreApart == Spec => []SurvivorsApart
<1>1. TypeOK /\ LoopInv => SurvivorsApart
  <2> SUFFICES ASSUME TypeOK, LoopInv, NEW i \in kept, NEW j \in kept, i # j,
                      Rivals(i, j)
               PROVE  FALSE
    BY DEF SurvivorsApart
  <2>1. /\ i \in DOMAIN detections /\ j \in DOMAIN detections
        /\ DOMAIN detections \subseteq Nat
    BY DEF TypeOK
  <2>2. ASSUME NEW a \in kept, NEW b \in kept, a < b, Rivals(a, b) PROVE FALSE
    BY <2>2 DEF TypeOK, LoopInv, LosersTo
  <2>3. Rivals(j, i)
    <3>1. detections[i].box \in ClippedBox /\ detections[j].box \in ClippedBox
      BY <2>1, Typed
    <3> QED  BY <3>1, OverlapsIsSymmetric, Zenon DEF Rivals
  <2> QED  BY <2>1, <2>2, <2>3
<1> QED  BY <1>1, TypeCorrect, LoopInvariant, PTL

(* When NMS has run, a hidden detection has a kept one in front of it.     *)
THEOREM LosersHaveAWinner == Spec => []LosersHaveWinners
<1>1. TypeOK /\ LoopInv => LosersHaveWinners
  <2> SUFFICES ASSUME TypeOK, LoopInv, phase \in {"decide", "done"},
                      NEW j \in DOMAIN detections \ kept
               PROVE  \E i \in kept : /\ Rivals(i, j)
                                      /\ detections[i].conf >= detections[j].conf
    BY DEF LosersHaveWinners
  <2>1. j \in suppressed
    BY DEF TypeOK, LoopInv
  <2>2. PICK i \in kept : j \in LosersTo(i)
    BY <2>1 DEF LoopInv
  <2>3. i \in DOMAIN detections /\ i < j /\ Rivals(i, j)
    BY <2>2 DEF LosersTo, TypeOK
  <2>4. Before(detections[i], detections[j])
    BY <2>3 DEF LoopInv
  <2> QED  BY <2>3, <2>4 DEF Before
<1> QED  BY <1>1, TypeCorrect, LoopInvariant, PTL

-----------------------------------------------------------------------------
(* The vector holds the frame's greatest score, if that reaches the        *)
(* threshold of the postprocessor, and nothing above it.                   *)
ScoreInv ==
  /\ row = 0 => topScore = 0 /\ detections = <<>>
  /\ \A i \in DOMAIN detections :
       ConfThreshold <= detections[i].conf /\ detections[i].conf <= topScore
  /\ row > 0 /\ topScore >= ConfThreshold =>
       \E i \in DOMAIN detections : detections[i].conf = topScore

LEMMA ScoreInvariant == Spec => []ScoreInv
<1>1. Init => ScoreInv
  BY DEF Init, ScoreInv
<1>2. TypeOK /\ ScoreInv /\ [Next]_vars => ScoreInv'
  <2> SUFFICES ASSUME TypeOK, ScoreInv, [Next]_vars PROVE ScoreInv'
    OBVIOUS
  <2>1. /\ row \in Nat /\ topScore \in Nat /\ ConfThreshold \in Nat
        /\ detections \in Seq(DetectionSet)
        /\ \A i \in DOMAIN detections : detections[i].conf \in Nat
    BY Typed
  <2>2. CASE UNCHANGED <<row, topScore, detections>>
    BY <2>2 DEF ScoreInv
  <2>3. ASSUME NEW best \in Classes, NEW conf \in Levels, NEW box \in Boxes,
               DecodeRow(best, conf, box)
        PROVE  ScoreInv'
    <3>1. conf \in Nat
      BY SizeAssumption DEF Levels
    <3>2. row' > 0 /\ topScore' = Greatest(topScore, conf)
      BY <2>1, <2>3 DEF DecodeRow
    <3>3. CASE conf < ConfThreshold
      <4>1. detections' = detections
        BY <2>3, <3>3 DEF DecodeRow
      <4>2. topScore' >= ConfThreshold => topScore' = topScore /\ row > 0
        BY <2>1, <3>1, <3>2, <3>3 DEF Greatest, ScoreInv
      <4>3. topScore <= topScore'
        BY <2>1, <3>1, <3>2 DEF Greatest
      <4> QED  BY <2>1, <3>1, <3>2, <4>1, <4>2, <4>3 DEF ScoreInv, Greatest
    <3>4. CASE ~ (conf < ConfThreshold)
      <4> DEFINE det == [class |-> best, conf |-> conf, box |-> Clip(box)]
                 last == Len(detections) + 1
      <4>1. detections' = Append(detections, det)
        BY <2>3, <3>4 DEF DecodeRow
      <4>2. /\ last \in DOMAIN detections' /\ detections'[last].conf = conf
            /\ \A i \in DOMAIN detections :
                 i \in DOMAIN detections' /\ detections'[i] = detections[i]
            /\ \A i \in DOMAIN detections' : i \in DOMAIN detections \/ i = last
        BY <2>1, <4>1
      <4>3. topScore <= topScore' /\ conf <= topScore'
        BY <2>1, <3>1, <3>2 DEF Greatest
      <4>4. \A i \in DOMAIN detections' :
              ConfThreshold <= detections'[i].conf /\ detections'[i].conf <= topScore'
        <5>1. ASSUME NEW i \in DOMAIN detections
              PROVE  /\ ConfThreshold <= detections'[i].conf
                     /\ detections'[i].conf <= topScore'
          BY <2>1, <3>1, <3>2, <4>2, <4>3 DEF ScoreInv, Greatest
        <5>2. ConfThreshold <= conf
          BY <2>1, <3>1, <3>4
        <5> QED  BY <4>2, <4>3, <5>1, <5>2
      <4>5. \E i \in DOMAIN detections' : detections'[i].conf = topScore'
        <5>1. CASE topScore' = conf  BY <4>2, <5>1
        <5>2. CASE topScore' # conf
          <6>1. /\ topScore' = topScore /\ topScore > conf
            BY <2>1, <3>1, <3>2, <5>2 DEF Greatest
          <6>2. row > 0 /\ topScore >= ConfThreshold
            BY <2>1, <3>1, <3>4, <6>1 DEF ScoreInv
          <6> QED  BY <4>2, <6>1, <6>2 DEF ScoreInv
        <5> QED  BY <5>1, <5>2
      <4> QED  BY <3>2, <4>4, <4>5, <2>1, <2>3 DEF ScoreInv, DecodeRow
    <3> QED  BY <3>3, <3>4
  <2>4. CASE SortDetections
    <3>1. PICK p \in Orders :
            detections' = [i \in DOMAIN detections |-> detections[p[i]]]
      BY <2>4 DEF SortDetections
    <3>2. /\ DOMAIN detections' = DOMAIN detections
          /\ \A i \in DOMAIN detections : p[i] \in DOMAIN detections
          /\ \A i \in DOMAIN detections : detections'[i] = detections[p[i]]
      BY <2>1, <3>1, PermutedVector
    <3>3. \A i \in DOMAIN detections : \E j \in DOMAIN detections : p[j] = i
      BY DEF Orders
    <3>4. UNCHANGED <<row, topScore>>
      BY <2>4 DEF SortDetections
    <3>5. row = 0 => detections' = <<>>
      BY <3>1, <2>1 DEF ScoreInv
    <3>6. ASSUME NEW i \in DOMAIN detections, detections[i].conf = topScore
          PROVE  \E j \in DOMAIN detections' : detections'[j].conf = topScore'
      <4>1. PICK j \in DOMAIN detections : p[j] = i
        BY <3>3
      <4>2. detections'[j] = detections[i]
        BY <3>2, <4>1
      <4> QED  BY <3>2, <3>4, <3>6, <4>2, Zenon
    <3> QED  BY <3>2, <3>4, <3>5, <3>6 DEF ScoreInv
  <2>5. CASE NextFrame
    BY <2>5 DEF NextFrame, ScoreInv
  <2>6. \/ UNCHANGED <<row, topScore, detections>>
        \/ \E best \in Classes, conf \in Levels, box \in Boxes :
             DecodeRow(best, conf, box)
        \/ SortDetections
        \/ NextFrame
    BY DEF Next, Infer, EndOfRows, Keep, Skip, EndOfNms, Decide, vars
  <2> QED  BY <2>2, <2>3, <2>4, <2>5, <2>6
<1> QED  BY <1>1, <1>2, TypeCorrect, PTL DEF Spec

(* The first detection of the sorted vector is the frame's best, and NMS   *)
(* keeps it: what decide() sees calls for the same verdict as the output.  *)
THEOREM VerdictIsRight == Spec => []VerdictFitsScores
<1> DEFINE Right == verdict = VerdictFor(topScore) \/ (row = 0 /\ verdict = "Pass")
<1>1. Init => VerdictFitsScores
  BY DEF Init, VerdictFitsScores
<1>2. ASSUME TypeOK, LoopInv, ScoreInv, Decide PROVE Right'
  <2>1. /\ row \in Nat /\ topScore \in Nat /\ ConfThreshold \in Nat
        /\ RejectThreshold \in Nat /\ ReviewThreshold \in Nat
        /\ detections \in Seq(DetectionSet)
        /\ \A i \in DOMAIN detections : detections[i].conf \in Nat
        /\ kept \subseteq DOMAIN detections
    BY <1>2, Typed
  <2>2. /\ verdict' = Verdict(Survivors) /\ UNCHANGED <<row, topScore>>
        /\ phase = "decide"
    BY <1>2 DEF Decide
  <2>3. CASE detections = <<>>
    <3>1. Survivors = {}
      BY <2>1, <2>3 DEF Survivors
    <3>2. verdict' = "Pass"
      BY <2>2, <3>1 DEF Verdict
    <3>3. row = 0 \/ topScore < ConfThreshold
      BY <1>2, <2>1, <2>3 DEF ScoreInv
    <3> QED  BY <2>2, <3>2, <3>3 DEF VerdictFor
  <2>4. CASE detections # <<>>
    <3>1. 1 \in DOMAIN detections /\ row > 0
      BY <1>2, <2>1, <2>4 DEF ScoreInv
    <3>2. 1 \in kept
      <4>1. 1 < index
        BY <1>2, <2>1, <2>2, <3>1 DEF LoopInv
      <4>2. 1 \notin suppressed
        BY <1>2, <2>1 DEF LoopInv, LosersTo
      <4> QED  BY <1>2, <3>1, <4>1, <4>2 DEF LoopInv
    <3>3. \A i \in DOMAIN detections : detections[1].conf >= detections[i].conf
      BY <1>2, <2>1, <2>2, <3>1 DEF LoopInv, Before
    <3>4. topScore >= ConfThreshold
      BY <1>2, <2>1, <3>1 DEF ScoreInv
    <3>5. detections[1].conf = topScore
      BY <1>2, <2>1, <3>1, <3>3, <3>4 DEF ScoreInv
    <3>6. /\ detections[1] \in Survivors
          /\ \A d \in Survivors : d.conf \in Nat /\ d.conf <= topScore
      BY <1>2, <2>1, <3>2 DEF Survivors, ScoreInv
    <3>7. \A level \in Nat :
            (\E d \in Survivors : d.conf >= level) <=> topScore >= level
      BY <2>1, <3>5, <3>6
    <3>8. Verdict(Survivors) = VerdictFor(topScore)
      BY <2>1, <3>4, <3>7 DEF Verdict, VerdictFor
    <3>9. VerdictFor(topScore)' = VerdictFor(topScore)
      BY <2>2 DEF VerdictFor
    <3> QED  BY <2>2, <3>8, <3>9
  <2> QED  BY <2>3, <2>4
<1>3. TypeOK /\ LoopInv /\ ScoreInv /\ VerdictFitsScores /\ [Next]_vars
        => VerdictFitsScores'
  <2> SUFFICES ASSUME TypeOK, LoopInv, ScoreInv, VerdictFitsScores, [Next]_vars
               PROVE  VerdictFitsScores'
    OBVIOUS
  <2>1. CASE Decide
    BY <1>2, <2>1 DEF VerdictFitsScores
  <2>2. CASE phase' # "done"
    BY <2>2 DEF VerdictFitsScores
  <2>3. CASE UNCHANGED <<phase, verdict, topScore, row>>
    BY <2>3 DEF VerdictFitsScores, VerdictFor
  <2>4. \/ Decide
        \/ phase' # "done"
        \/ UNCHANGED <<phase, verdict, topScore, row>>
    BY DEF Next, Infer, DecodeRow, EndOfRows, SortDetections, Keep, Skip,
           EndOfNms, NextFrame, vars
  <2> QED  BY <2>1, <2>2, <2>3, <2>4
<1> QED
  <2>1. []TypeOK /\ [](LoopInv /\ FreshInv) /\ []ScoreInv /\ Init /\ [][Next]_vars
          => []VerdictFitsScores
    BY <1>1, <1>3, PTL
  <2> QED  BY <2>1, TypeCorrect, LoopInvariant, ScoreInvariant, PTL DEF Spec
=============================================================================
