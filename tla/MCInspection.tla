---------------------------- MODULE MCInspection ----------------------------
(* The instances of Inspection that TLC checks.                            *)
EXTENDS Inspection

(* An image of 4 by 2 pixels: boxes that overlap in a chain (the first and *)
(* the third both overlap the second, not each other), one that hangs over *)
(* the left and upper edge and is as wide as the image, one without area.  *)
MCBoxes == {[x |-> 0, y |-> 0, w |-> 2, h |-> 2], [x |-> 1, y |-> 0, w |-> 2, h |-> 2],
            [x |-> 2, y |-> 0, w |-> 3, h |-> 2], [x |-> -1, y |-> -1, w |-> 5, h |-> 1],
            [x |-> 5, y |-> 1, w |-> 1, h |-> 0]}

MCFewBoxes == {[x |-> 0, y |-> 0, w |-> 2, h |-> 2], [x |-> 1, y |-> 0, w |-> 2, h |-> 2]}
=============================================================================
