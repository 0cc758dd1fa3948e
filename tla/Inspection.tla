----------------------------- MODULE Inspection -----------------------------
(***************************************************************************)
(* From the model's output to the verdict on one frame: OnnxEngine::infer, *)
(* Postprocessor::process, Postprocessor::apply_nms and                    *)
(* DecisionEngine::decide, as inference_loop and process_frame call them.  *)
(*                                                                         *)
(* Confidences are levels 0..MaxLevel, thresholds are levels too, and      *)
(* boxes are already in pixels of the original image: (cx - w/2 - pad) /   *)
(* scale and the division by the image size are left out, the clipping to  *)
(* the image is not.                                                       *)
(***************************************************************************)
EXTENDS Integers, Sequences

CONSTANTS NumRows,          \* output_rows of an inference that succeeds
          NumClasses,       \* num_classes_
          MaxLevel,         \* the highest confidence
          Boxes,            \* boxes the model may put out
          Width, Height,    \* orig_w, orig_h
          NmsNum, NmsDen,   \* nms_threshold_ = NmsNum / NmsDen
          ConfThreshold,    \* conf_threshold_ of the Postprocessor
          RejectThreshold,  \* reject_threshold_ of the DecisionEngine
          ReviewThreshold   \* review_threshold_ of the DecisionEngine

Classes == 0..NumClasses - 1
Levels  == 0..MaxLevel

(* A box the model puts out may lie anywhere, but has no negative size.    *)
RawBox == [x : Int, y : Int, w : Nat, h : Nat]

ASSUME SizeAssumption ==
  /\ NumRows \in Nat /\ NumClasses \in Nat \ {0} /\ MaxLevel \in Nat
  /\ Width \in Nat /\ Height \in Nat
ASSUME BoxAssumption == Boxes \subseteq RawBox
ASSUME ThresholdAssumption ==
  /\ ConfThreshold \in Nat /\ RejectThreshold \in Nat /\ ReviewThreshold \in Nat
  /\ NmsNum \in Nat /\ NmsDen \in Nat \ {0}

VARIABLES
  phase,       \* the call the frame is in
  row,         \* process(): the rows decoded so far
  detections,  \* the vector process() returns and apply_nms() sorts
  index,       \* apply_nms(): i, counted from one
  kept,        \* apply_nms(): the indices pushed to `result`
  suppressed,  \* apply_nms(): the indices j with suppressed[j]
  verdict,     \* what decide() returned
  topScore     \* history: the greatest class score in the rows so far

vars == <<phase, row, detections, index, kept, suppressed, verdict, topScore>>

Phases == {"infer", "process", "sort", "nms", "decide", "done"}
Verdicts == {"none", "Pass", "Reject", "Review"}

Least(a, b)    == IF b < a THEN b ELSE a
Greatest(a, b) == IF a < b THEN b ELSE a

-----------------------------------------------------------------------------
(* BoundingBox::iou, compared with nms_threshold_; a union of no area has  *)
(* iou 0, which no threshold is below.                                     *)
Area(a) == a.w * a.h

Inter(a, b) ==
  LET side == Least(a.x + a.w, b.x + b.w) - Greatest(a.x, b.x)
      rise == Least(a.y + a.h, b.y + b.h) - Greatest(a.y, b.y)
  IN  Greatest(0, side) * Greatest(0, rise)

Union(a, b) == Area(a) + Area(b) - Inter(a, b)

Overlaps(a, b) == Union(a, b) > 0 /\ Inter(a, b) * NmsDen > NmsNum * Union(a, b)

(* "Clip to image bounds": the corner is moved into the image first, and   *)
(* the size is then cut at the far edges.                                  *)
Clip(box) ==
  LET x1 == Greatest(0, Least(box.x, Width))
      y1 == Greatest(0, Least(box.y, Height))
  IN  [x |-> x1, y |-> y1,
       w |-> Least(box.w, Width - x1), h |-> Least(box.h, Height - y1)]

(* The scan for the best class: a later class has to be better, and when   *)
(* every score is zero it is class 0.                                      *)
IsBestClass(best, scores) ==
  /\ \A c \in Classes : scores[c] <= scores[best]
  /\ \A c \in Classes : c < best => scores[c] < scores[best]

-----------------------------------------------------------------------------
Init ==
  /\ phase = "infer" /\ row = 0 /\ detections = <<>>
  /\ index = 1 /\ kept = {} /\ suppressed = {}
  /\ verdict = "none" /\ topScore = 0

(* infer(): an exception or a model that is not loaded gives no output,    *)
(* and then nothing is decoded.                                            *)
Infer ==
  /\ phase = "infer"
  /\ phase' \in {"process", "decide"}
  /\ UNCHANGED <<row, detections, index, kept, suppressed, verdict, topScore>>

(* Faulty variant: the loop over the rows runs once too often.             *)
RowsUpTo == row <= NumRows

(* process(): one row of the output.                                       *)
MoreRows == row < NumRows

DecodeRow(best, conf, box) ==
  /\ phase = "process" /\ MoreRows
  /\ row' = row + 1
  /\ detections' = IF conf < ConfThreshold THEN detections
                   ELSE Append(detections, [class |-> best, conf |-> conf,
                                            box |-> Clip(box)])
  /\ topScore' = Greatest(topScore, conf)
  /\ UNCHANGED <<phase, index, kept, suppressed, verdict>>

EndOfRows ==
  /\ phase = "process" /\ ~ MoreRows
  /\ phase' = IF detections = <<>> THEN "decide" ELSE "sort"
  /\ UNCHANGED <<row, detections, index, kept, suppressed, verdict, topScore>>

(* Faulty variant: the comparison sorts the vector upwards.                *)
Upwards(a, b) == a.conf <= b.conf

(* apply_nms(): std::sort leaves equal confidences in any order.           *)
Before(a, b) == a.conf >= b.conf

Orders == {p \in [DOMAIN detections -> DOMAIN detections] :
             /\ \A i, j \in DOMAIN detections : p[i] = p[j] => i = j
             /\ \A i \in DOMAIN detections : \E j \in DOMAIN detections : p[j] = i}

SortDetections ==
  /\ phase = "sort"
  /\ \E p \in Orders :
       /\ \A i, j \in DOMAIN detections :
            i < j => Before(detections[p[i]], detections[p[j]])
       /\ detections' = [i \in DOMAIN detections |-> detections[p[i]]]
  /\ phase' = "nms"
  /\ UNCHANGED <<row, index, kept, suppressed, verdict, topScore>>

(* Only detections of one class are compared.                              *)
Rivals(i, j) ==
  /\ detections[i].class = detections[j].class
  /\ Overlaps(detections[i].box, detections[j].box)

(* Faulty variant: boxes of any class suppress each other.                 *)
LosersOfAnyClass(i) ==
  {j \in DOMAIN detections :
     i < j /\ Overlaps(detections[i].box, detections[j].box)}

(* Faulty variant: only the next detection is compared.                    *)
NextLoser(i) == {j \in DOMAIN detections : j = i + 1 /\ Rivals(i, j)}

(* The inner loop of apply_nms() for one i.                                *)
LosersTo(i) == {j \in DOMAIN detections : i < j /\ Rivals(i, j)}

Keep ==
  /\ phase = "nms" /\ index <= Len(detections)
  /\ index \notin suppressed
  /\ kept' = kept \cup {index}
  /\ suppressed' = suppressed \cup LosersTo(index)
  /\ index' = index + 1
  /\ UNCHANGED <<phase, row, detections, verdict, topScore>>

Skip ==
  /\ phase = "nms" /\ index <= Len(detections)
  /\ index \in suppressed
  /\ index' = index + 1
  /\ UNCHANGED <<phase, row, detections, kept, suppressed, verdict, topScore>>

EndOfNms ==
  /\ phase = "nms" /\ index > Len(detections)
  /\ phase' = "decide"
  /\ UNCHANGED <<row, detections, index, kept, suppressed, verdict, topScore>>

(* DecisionEngine::decide on the detections apply_nms() returned.          *)
Verdict(dets) ==
  IF \E d \in dets : d.conf >= RejectThreshold THEN "Reject"
  ELSE IF \E d \in dets : d.conf >= ReviewThreshold THEN "Review"
  ELSE "Pass"

Survivors == {detections[i] : i \in kept}

Decide ==
  /\ phase = "decide"
  /\ verdict' = Verdict(Survivors)
  /\ phase' = "done"
  /\ UNCHANGED <<row, detections, index, kept, suppressed, topScore>>

(* The next frame starts from an empty result.                             *)
NextFrame ==
  /\ phase = "done"
  /\ phase' = "infer" /\ row' = 0 /\ detections' = <<>>
  /\ index' = 1 /\ kept' = {} /\ suppressed' = {}
  /\ verdict' = "none" /\ topScore' = 0

Next ==
  \/ Infer
  \/ \E scores \in [Classes -> Levels], best \in Classes, box \in Boxes :
       IsBestClass(best, scores) /\ DecodeRow(best, scores[best], box)
  \/ EndOfRows
  \/ SortDetections
  \/ Keep
  \/ Skip
  \/ EndOfNms
  \/ Decide
  \/ NextFrame

Spec == Init /\ [][Next]_vars

-----------------------------------------------------------------------------
ClippedBox == [x : 0..Width, y : 0..Height, w : 0..Width, h : 0..Height]

DetectionSet == [class : Classes, conf : Levels, box : ClippedBox]

(* The type of every variable; indices stay within the vector.             *)
TypeOK ==
  /\ phase \in Phases /\ verdict \in Verdicts
  /\ row \in 0..NumRows /\ topScore \in Levels
  /\ detections \in Seq(DetectionSet)
  /\ index \in 1..Len(detections) + 1
  /\ kept \subseteq DOMAIN detections
  /\ suppressed \subseteq DOMAIN detections

(* No box reaches past the image, whatever the model put out: the drawing  *)
(* and the stored boxes rely on it.                                        *)
BoxesInImage ==
  \A i \in DOMAIN detections :
    LET box == detections[i].box
    IN  box.x + box.w <= Width /\ box.y + box.h <= Height

(* Of two detections of one class that NMS keeps, neither overlaps the     *)
(* other: one object is not counted twice, in whichever order the sort     *)
(* left equal confidences.                                                 *)
SurvivorsApart ==
  phase \in {"decide", "done"} =>
    \A i, j \in kept : i # j => ~ Rivals(i, j)

(* NMS hides a detection only behind a kept one of its class that overlaps *)
(* it and is at least as confident, never behind one that is itself        *)
(* suppressed.                                                             *)
LosersHaveWinners ==
  phase \in {"decide", "done"} =>
    \A j \in DOMAIN detections \ kept :
      \E i \in kept : Rivals(i, j) /\ detections[i].conf >= detections[j].conf

(* The verdict that the greatest raw score of the frame calls for, given   *)
(* the postprocessor's threshold and the decision engine's two.            *)
VerdictFor(score) ==
  IF score < ConfThreshold THEN "Pass"
  ELSE IF score >= RejectThreshold THEN "Reject"
  ELSE IF score >= ReviewThreshold THEN "Review"
  ELSE "Pass"

(* The verdict depends on the frame's greatest score alone: decoding, the  *)
(* sort and NMS never lose the detection that calls for it, and never      *)
(* make one up.                                                            *)
VerdictFitsScores ==
  phase = "done" => \/ verdict = VerdictFor(topScore)
                    \/ row = 0 /\ verdict = "Pass"

(* "borderline confidence -> manual review" (types.h): a frame whose best  *)
(* score lies between the two thresholds of the decision engine is sent to *)
(* review.                                                                 *)
BorderlineIsReviewed ==
  phase = "done" /\ ReviewThreshold <= topScore /\ topScore < RejectThreshold
    => verdict = "Review"

=============================================================================
